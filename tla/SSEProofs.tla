------------------------------ MODULE SSEProofs ------------------------------
(***************************************************************************)
(* Proofs about the event streams (SSE): type correctness, no send on a    *)
(* closed channel, no lost update, and the implementation of LiveView,     *)
(* for any set of writers and tabs and any channel capacity.               *)
(***************************************************************************)
EXTENDS SSE, TLAPS

(* What Append and Tail do to the elements of a queue of events.             *)
LEMMA ContainsAppend ==
  ASSUME NEW S, NEW q \in Seq(S), NEW x \in S, NEW e
  PROVE  Contains(Append(q, x), e) <=> Contains(q, e) \/ x = e
BY DEF Contains

LEMMA ContainsTail ==
  ASSUME NEW S, NEW q \in Seq(S), q # <<>>, NEW e
  PROVE  Contains(q, e) <=> Head(q) = e \/ Contains(Tail(q), e)
<1>1. ASSUME NEW i \in 1..Len(q), q[i] = e, i # 1
      PROVE  Contains(Tail(q), e)
  <2>1. i-1 \in 1..Len(Tail(q)) /\ Tail(q)[i-1] = e
    BY <1>1
  <2>2. QED BY <2>1 DEF Contains
<1>2. ASSUME NEW i \in 1..Len(Tail(q)), Tail(q)[i] = e
      PROVE  Contains(q, e)
  <2>1. i+1 \in 1..Len(q) /\ q[i+1] = e
    BY <1>2
  <2>2. QED BY <2>1 DEF Contains
<1>3. Head(q) = e => Contains(q, e)
  <2>1. 1 \in 1..Len(q) /\ q[1] = Head(q)
    OBVIOUS
  <2>2. QED BY <2>1 DEF Contains
<1>4. QED BY <1>1, <1>2, <1>3 DEF Contains

(* A mutator announces its section and the overview, both event types.       *)
LEMMA EventsType ==
  ASSUME NEW w \in Writers
  PROVE  /\ Events(w) \in Seq(EventTypes)
         /\ Events(w) # <<>>
         /\ Contains(Events(w), SectionOf[w])
         /\ Contains(Events(w), "overview")
<1>1. SectionOf[w] \in EventTypes /\ "overview" \in EventTypes
  BY FeedAssumption DEF EventTypes
<1>2. /\ Len(Events(w)) = 2
      /\ Events(w)[1] = SectionOf[w]
      /\ Events(w)[2] = "overview"
  BY DEF Events
<1>3. Contains(Events(w), SectionOf[w]) /\ Contains(Events(w), "overview")
  BY <1>2 DEF Contains
<1>4. QED BY <1>1, <1>2, <1>3 DEF Events

-----------------------------------------------------------------------------
LEMMA InitType == Init => TypeOK
BY DEF Init, FeedInit, TypeOK, FeedTypeOK, NoVersions, States

LEMMA NextType == TypeOK /\ [Next]_vars => TypeOK'
<1> SUFFICES ASSUME TypeOK, [Next]_vars PROVE TypeOK'
  OBVIOUS
<1> USE DEF TypeOK, FeedTypeOK
<1>1. ASSUME NEW w \in Writers, Change(w), UNCHANGED sseVars PROVE TypeOK'
  <2>1. SectionOf[w] \in Sections /\ ver[SectionOf[w]] + 1 \in Nat
    BY FeedAssumption
  <2>2. ver' \in [Sections -> Nat]
    BY <1>1, <2>1 DEF Change
  <2>3. QED BY <1>1, <2>2 DEF Change, sseVars
<1>2. ASSUME NEW w \in Writers, NotifyLock(w), UNCHANGED sseVars PROVE TypeOK'
  <2>1. \A t \in Tabs : (IF t \in subscribers THEN Events(w) ELSE <<>>)
                          \in Seq(EventTypes)
    BY EventsType
  <2>2. outbox' \in [Tabs -> Seq(EventTypes)]
    BY <1>2, <2>1 DEF NotifyLock
  <2>3. QED BY <1>2, <2>2 DEF NotifyLock, sseVars
<1>3. ASSUME NEW w \in Writers, NotifyUnlock(w), UNCHANGED sseVars
      PROVE TypeOK'
  BY <1>3 DEF NotifyUnlock, sseVars
<1>4. ASSUME NEW t \in Tabs, Deliver(t), UNCHANGED sseVars PROVE TypeOK'
  BY <1>4 DEF Deliver, NextSend, sseVars
<1>5. ASSUME NEW t \in Tabs, Skip(t), UNCHANGED sseVars PROVE TypeOK'
  BY <1>5 DEF Skip, NextSend, sseVars
<1>6. ASSUME NEW t \in Tabs, HandlerSubscribe(t) PROVE TypeOK'
  BY <1>6 DEF HandlerSubscribe, Subscribe, Goto, States
<1>7. ASSUME NEW t \in Tabs, ReadFirst(t) PROVE TypeOK'
  BY <1>7 DEF ReadFirst, Goto, States
<1>8. ASSUME NEW t \in Tabs, ReadSecond(t) PROVE TypeOK'
  BY <1>8 DEF ReadSecond, Goto, States, feedVars
<1>9. ASSUME NEW t \in Tabs, Write(t) PROVE TypeOK'
  BY <1>9 DEF Write, Goto, States, feedVars
<1>10. ASSUME NEW t \in Tabs, Wake(t) PROVE TypeOK'
  BY <1>10 DEF Wake, Receive, Goto, States
<1>11. ASSUME NEW t \in Tabs, Ignore(t) PROVE TypeOK'
  BY <1>11 DEF Ignore, Receive, sseVars
<1>12. ASSUME NEW t \in Tabs, Return(t) PROVE TypeOK'
  BY <1>12 DEF Return, Goto, States, feedVars
<1>13. ASSUME NEW t \in Tabs, HandlerDeregister(t) PROVE TypeOK'
  BY <1>13 DEF HandlerDeregister, Deregister, Goto, States
<1>14. ASSUME NEW t \in Tabs, HandlerClose(t) PROVE TypeOK'
  BY <1>14 DEF HandlerClose, CloseChannel, Goto, States, NoVersions
<1>15. ASSUME NEW t \in Tabs, Connect(t) PROVE TypeOK'
  BY <1>15 DEF Connect, Goto, States, feedVars, NoVersions
<1>16. ASSUME NEW t \in Tabs, Disconnect(t) PROVE TypeOK'
  BY <1>16 DEF Disconnect, feedVars
<1>17. CASE UNCHANGED vars
  BY <1>17 DEF vars, feedVars, sseVars
<1> QED
  BY <1>1, <1>2, <1>3, <1>4, <1>5, <1>6, <1>7, <1>8, <1>9, <1>10, <1>11,
     <1>12, <1>13, <1>14, <1>15, <1>16, <1>17
     DEF Next, WriterStep, NotifyStep, HandlerStep, ClientStep

(* Every variable keeps its type.                                            *)
THEOREM TypeCorrect == Spec => []TypeOK
BY InitType, NextType, PTL DEF Spec

-----------------------------------------------------------------------------
(* Every step of SSE is one of these; each proof below goes through them.    *)
LEMMA NextCases ==
  ASSUME Next
  PROVE  \/ \E w \in Writers : Change(w) /\ UNCHANGED sseVars
         \/ \E w \in Writers : NotifyLock(w) /\ UNCHANGED sseVars
         \/ \E w \in Writers : NotifyUnlock(w) /\ UNCHANGED sseVars
         \/ \E t \in Tabs : Deliver(t) /\ UNCHANGED sseVars
         \/ \E t \in Tabs : Skip(t) /\ UNCHANGED sseVars
         \/ \E t \in Tabs : HandlerSubscribe(t)
         \/ \E t \in Tabs : ReadFirst(t)
         \/ \E t \in Tabs : ReadSecond(t)
         \/ \E t \in Tabs : Write(t)
         \/ \E t \in Tabs : Wake(t)
         \/ \E t \in Tabs : Ignore(t)
         \/ \E t \in Tabs : Return(t)
         \/ \E t \in Tabs : HandlerDeregister(t)
         \/ \E t \in Tabs : HandlerClose(t)
         \/ \E t \in Tabs : Connect(t)
         \/ \E t \in Tabs : Disconnect(t)
BY DEF Next, WriterStep, NotifyStep, HandlerStep, ClientStep

(* subMu is held by exactly the writer inside notify, and only that writer's *)
(* events are still to be sent, to registered channels.                      *)
LEMMA NextLock ==
  TypeOK /\ StreamInv /\ LockInv /\ [Next]_vars => LockInv'
<1> SUFFICES ASSUME TypeOK, StreamInv, LockInv, [Next]_vars PROVE LockInv'
  OBVIOUS
<1> USE FeedAssumption DEF TypeOK, FeedTypeOK, LockInv
<1>1. ASSUME NEW w \in Writers, Change(w) PROVE LockInv'
  BY <1>1 DEF Change
<1>2. ASSUME NEW w \in Writers, NotifyLock(w) PROVE LockInv'
  BY <1>2 DEF NotifyLock
<1>3. ASSUME NEW w \in Writers, NotifyUnlock(w) PROVE LockInv'
  BY <1>3 DEF NotifyUnlock
<1>4. ASSUME NEW t \in Tabs, Deliver(t) PROVE LockInv'
  BY <1>4 DEF Deliver, NextSend
<1>5. ASSUME NEW t \in Tabs, Skip(t) PROVE LockInv'
  BY <1>5 DEF Skip, NextSend
<1>6. ASSUME NEW t \in Tabs, HandlerSubscribe(t) PROVE LockInv'
  BY <1>6 DEF HandlerSubscribe, Subscribe
<1>7. ASSUME NEW t \in Tabs, HandlerDeregister(t) PROVE LockInv'
  BY <1>7 DEF HandlerDeregister, Deregister
<1>8. ASSUME NEW t \in Tabs,
             \/ ReadFirst(t) \/ ReadSecond(t) \/ Write(t) \/ Wake(t)
             \/ Ignore(t) \/ Return(t) \/ HandlerClose(t) \/ Connect(t)
             \/ Disconnect(t)
      PROVE  LockInv'
  BY <1>8 DEF ReadFirst, ReadSecond, Write, Wake, Ignore, Return,
     HandlerClose, CloseChannel, Connect, Disconnect, Receive, feedVars
<1>9. CASE UNCHANGED vars
  BY <1>9 DEF vars, feedVars
<1> QED
  BY NextCases, <1>1, <1>2, <1>3, <1>4, <1>5, <1>6, <1>7, <1>8, <1>9

(* A channel is in the map from Subscribe to Unsubscribe; it is closed later.*)
LEMMA NextStream == TypeOK /\ StreamInv /\ [Next]_vars => StreamInv'
<1> SUFFICES ASSUME TypeOK, StreamInv, [Next]_vars PROVE StreamInv'
  OBVIOUS
<1> USE DEF TypeOK, FeedTypeOK, StreamInv, Registered
<1>1. ASSUME NEW w \in Writers, UNCHANGED sseVars,
             Change(w) \/ NotifyLock(w) \/ NotifyUnlock(w)
      PROVE  StreamInv'
  BY <1>1 DEF Change, NotifyLock, NotifyUnlock, sseVars
<1>2. ASSUME NEW t \in Tabs, UNCHANGED sseVars, Deliver(t) \/ Skip(t)
      PROVE  StreamInv'
  BY <1>2 DEF Deliver, Skip, sseVars
<1>3. ASSUME NEW t \in Tabs, HandlerSubscribe(t) PROVE StreamInv'
  BY <1>3 DEF HandlerSubscribe, Subscribe, Goto
<1>4. ASSUME NEW t \in Tabs,
             ReadFirst(t) \/ ReadSecond(t) \/ Write(t)
      PROVE  StreamInv'
  BY <1>4 DEF ReadFirst, ReadSecond, Write, Goto, feedVars
<1>5. ASSUME NEW t \in Tabs, Wake(t) \/ Ignore(t) \/ Return(t)
      PROVE  StreamInv'
  BY <1>5 DEF Wake, Ignore, Return, Receive, Goto, feedVars, sseVars
<1>6. ASSUME NEW t \in Tabs, HandlerDeregister(t) PROVE StreamInv'
  BY <1>6 DEF HandlerDeregister, Deregister, Goto
<1>7. ASSUME NEW t \in Tabs, HandlerClose(t) PROVE StreamInv'
  BY <1>7 DEF HandlerClose, CloseChannel, Goto
<1>8. ASSUME NEW t \in Tabs, Connect(t) \/ Disconnect(t) PROVE StreamInv'
  BY <1>8 DEF Connect, Disconnect, Goto, feedVars
<1>9. CASE UNCHANGED vars
  BY <1>9 DEF vars, feedVars, sseVars
<1> QED
  BY NextCases, <1>1, <1>2, <1>3, <1>4, <1>5, <1>6, <1>7, <1>8, <1>9

(* Initially nothing is locked, registered, read or displayed.               *)
LEMMA InitInv == Init => IInv
<1> SUFFICES ASSUME Init PROVE IInv
  OBVIOUS
<1>1. TypeOK
  BY InitType
<1>2. LockInv
  BY FeedAssumption DEF Init, FeedInit, LockInv
<1>3. StreamInv /\ WrittenInv /\ NoSilentStaleness
  BY DEF Init, FeedInit, StreamInv, WrittenInv, NoSilentStaleness, Registered,
     HasRead
<1>4. AgeInv
  BY DEF Init, FeedInit, AgeInv, Ages, NoVersions, HasRead
<1>5. QED BY <1>1, <1>2, <1>3, <1>4 DEF IInv

(* What an idle handler read last is what the browser displays.              *)
LEMMA NextWritten == TypeOK /\ WrittenInv /\ [Next]_vars => WrittenInv'
<1> SUFFICES ASSUME TypeOK, WrittenInv, [Next]_vars PROVE WrittenInv'
  OBVIOUS
<1> USE DEF TypeOK, FeedTypeOK, WrittenInv
<1>1. CASE UNCHANGED sseVars
  BY <1>1 DEF sseVars
<1>2. ASSUME NEW t \in Tabs,
             \/ HandlerSubscribe(t) \/ ReadFirst(t) \/ ReadSecond(t)
             \/ Wake(t) \/ Return(t) \/ HandlerDeregister(t)
             \/ HandlerClose(t)
      PROVE  WrittenInv'
  BY <1>2 DEF HandlerSubscribe, ReadFirst, ReadSecond, Wake, Return,
     HandlerDeregister, HandlerClose, Goto
<1>3. ASSUME NEW t \in Tabs, Write(t) PROVE WrittenInv'
  BY <1>3 DEF Write, Goto
<1>4. ASSUME NEW t \in Tabs, Connect(t) \/ Disconnect(t) PROVE WrittenInv'
  BY <1>4 DEF Connect, Disconnect, Goto
<1> QED
  BY NextCases, <1>1, <1>2, <1>3, <1>4 DEF Ignore, vars

(* The pages with a second read do not read the same section twice.          *)
LEMMA PageReads ==
  ASSUME NEW p \in Pages
  PROVE  /\ First(p) \cap Second(p) = {}
         /\ First(p) \cup Second(p) \subseteq Sections
BY DEF First, Second, Pages, EventTypes, Sections

(* Ages: store >= handler >= browser.                                        *)
LEMMA NextAge == TypeOK /\ AgeInv /\ [Next]_vars => AgeInv'
<1> SUFFICES ASSUME TypeOK, AgeInv, [Next]_vars PROVE AgeInv'
  OBVIOUS
<1> USE PageAssumption DEF TypeOK, FeedTypeOK, AgeInv, Ages
<1>1. ASSUME NEW w \in Writers, Change(w), UNCHANGED sseVars PROVE AgeInv'
  <2>1. \A s \in Sections : ver[s] <= ver'[s] /\ ver'[s] \in Nat
    BY <1>1, FeedAssumption DEF Change
  <2>2. QED BY <1>1, <2>1 DEF sseVars
<1>2. CASE UNCHANGED ver /\ UNCHANGED sseVars
  BY <1>2 DEF sseVars
<1>3. ASSUME NEW t \in Tabs, HandlerSubscribe(t) PROVE AgeInv'
  BY <1>3 DEF HandlerSubscribe, Subscribe, Goto, HasRead
<1>4. ASSUME NEW t \in Tabs, ReadFirst(t) PROVE AgeInv'
  <2> SUFFICES ASSUME NEW u \in Tabs, NEW s \in Sections
               PROVE  Ages(u, s)'
    OBVIOUS
  <2>1. CASE u = t
    BY <1>4, <2>1 DEF ReadFirst, Goto, HasRead
  <2>2. CASE u # t
    BY <1>4, <2>2 DEF ReadFirst, Goto, HasRead
  <2>3. QED BY <2>1, <2>2
<1>5. ASSUME NEW t \in Tabs, ReadSecond(t) PROVE AgeInv'
  <2> SUFFICES ASSUME NEW u \in Tabs, NEW s \in Sections
               PROVE  Ages(u, s)'
    OBVIOUS
  <2>1. CASE u = t
    BY <1>5, <2>1, PageReads DEF ReadSecond, Goto, HasRead, feedVars
  <2>2. CASE u # t
    BY <1>5, <2>2 DEF ReadSecond, Goto, HasRead, feedVars
  <2>3. QED BY <2>1, <2>2
<1>6. ASSUME NEW t \in Tabs, Write(t) PROVE AgeInv'
  BY <1>6 DEF Write, Goto, HasRead, feedVars
<1>7. ASSUME NEW t \in Tabs, Wake(t) \/ Return(t) PROVE AgeInv'
  BY <1>7 DEF Wake, Receive, Return, Goto, HasRead, feedVars
<1>8. ASSUME NEW t \in Tabs, HandlerDeregister(t) PROVE AgeInv'
  BY <1>8 DEF HandlerDeregister, Deregister, Goto, HasRead
<1>9. ASSUME NEW t \in Tabs, HandlerClose(t) \/ Connect(t) PROVE AgeInv'
  <2> SUFFICES ASSUME NEW u \in Tabs, NEW s \in Sections
               PROVE  Ages(u, s)'
    OBVIOUS
  <2>1. /\ ver' = ver /\ shown' = shown
        /\ got' = got \/ got' = [got EXCEPT ![t] = NoVersions]
    BY <1>9 DEF HandlerClose, CloseChannel, Connect, feedVars
  <2>2. pc'[u] \in {"away", "connecting"} \/ (pc'[u] = pc[u] /\ u # t)
    BY <1>9 DEF HandlerClose, Connect, Goto
  <2>3. u # t => got'[u] = got[u]
    BY <1>9 DEF HandlerClose, Connect
  <2>4. Ages(u, s)
    OBVIOUS
  <2>5. NoVersions[s] = 0
    BY DEF NoVersions
  <2>6. got'[u][s] = got[u][s] \/ got'[u][s] = 0
    BY <2>1, <2>5
  <2>7. QED BY <2>1, <2>2, <2>3, <2>4, <2>6 DEF HasRead
<1>10. ASSUME NEW t \in Tabs, Disconnect(t) PROVE AgeInv'
  BY <1>10 DEF Disconnect, HasRead, feedVars
<1>11. QED
  BY NextCases, <1>1, <1>2, <1>3, <1>4, <1>5, <1>6, <1>7, <1>8, <1>9, <1>10
     DEF NotifyLock, NotifyUnlock, Deliver, Skip, Ignore, Receive, vars,
         feedVars

-----------------------------------------------------------------------------
(* News of a change that is on its way reaches the handler's channel, is     *)
(* recorded as dropped, or makes the handler read again.                     *)
LEMMA NextNews ==
  ASSUME TypeOK, LockInv, StreamInv, NoSilentStaleness, [Next]_vars
  PROVE  NoSilentStaleness'
<1> USE FeedAssumption, PageAssumption
    DEF TypeOK, FeedTypeOK, NoSilentStaleness, Behind, Lost
<1>1. ASSUME NEW w \in Writers, Change(w), UNCHANGED sseVars
      PROVE  NoSilentStaleness'
  <2> SUFFICES ASSUME NEW t \in Tabs, pc[t] \in HasRead, Behind(t)'
               PROVE  Pending(t)' \/ Lost(t)
    BY <1>1 DEF Change, sseVars
  <2>1. CASE SectionOf[w] \in First(PageOf[t])
    <3>1. PageOf[t] = SectionOf[w] \/ PageOf[t] = "overview"
      BY <2>1 DEF First
    <3>2. Contains(Events(w), PageOf[t])
      BY <3>1, EventsType
    <3>3. wpc'[w] = "changed"
      BY <1>1 DEF Change
    <3>4. QED BY <3>2, <3>3 DEF Pending, Events
  <2>2. CASE SectionOf[w] \notin First(PageOf[t])
    <3>1. Behind(t)
      BY <1>1, <2>2 DEF Change, sseVars
    <3>2. Pending(t) \/ Lost(t)
      BY <3>1
    <3>3. Pending(t) => Pending(t)'
      BY <1>1 DEF Change, Pending, Events
    <3>4. QED BY <3>2, <3>3
  <2>3. QED BY <2>1, <2>2
<1>2. ASSUME NEW w \in Writers, NotifyLock(w), UNCHANGED sseVars
      PROVE  NoSilentStaleness'
  <2> SUFFICES ASSUME NEW t \in Tabs, pc[t] \in HasRead, Pending(t)
               PROVE  Pending(t)'
    BY <1>2 DEF NotifyLock, sseVars
  <2>1. t \in subscribers
    BY DEF StreamInv, HasRead, Registered
  <2>2. outbox[t] = <<>> /\ outbox'[t] = Events(w)
    BY <1>2, <2>1 DEF NotifyLock, LockInv
  <2>3. CASE Contains(queue[t], PageOf[t])
    BY <1>2, <2>3 DEF NotifyLock, Pending
  <2>4. ~ Contains(outbox[t], PageOf[t])
    BY <2>2 DEF Contains
  <2>5. ASSUME NEW v \in Writers, wpc[v] = "changed",
               Contains(Events(v), PageOf[t])
        PROVE  Pending(t)'
    <3>1. CASE v = w
      BY <2>2, <2>5, <3>1 DEF Pending
    <3>2. CASE v # w
      BY <1>2, <2>5, <3>2 DEF NotifyLock, Pending, Events
    <3>3. QED BY <3>1, <3>2
  <2>6. QED BY <2>3, <2>4, <2>5 DEF Pending
<1>3. ASSUME NEW w \in Writers, NotifyUnlock(w), UNCHANGED sseVars
      PROVE  NoSilentStaleness'
  <2> SUFFICES ASSUME NEW t \in Tabs, Pending(t) PROVE Pending(t)'
    BY <1>3 DEF NotifyUnlock, sseVars
  <2>1. wpc[w] = "notifying"
    BY <1>3 DEF NotifyUnlock, LockInv
  <2>2. \A v \in Writers : wpc[v] = "changed" => wpc'[v] = "changed"
    BY <1>3, <2>1 DEF NotifyUnlock
  <2>3. QED BY <1>3, <2>2 DEF NotifyUnlock, Pending, Events
<1>4. ASSUME NEW u \in Tabs, Deliver(u), UNCHANGED sseVars
      PROVE  NoSilentStaleness'
  <2> SUFFICES ASSUME NEW t \in Tabs, Pending(t) PROVE Pending(t)'
    BY <1>4 DEF Deliver, sseVars
  <2>1. CASE t # u
    BY <1>4, <2>1 DEF Deliver, NextSend, Pending, Events
  <2>2. CASE t = u
    <3>1. /\ outbox[t] \in Seq(EventTypes) /\ outbox[t] # <<>>
          /\ queue[t] \in Seq(EventTypes)
          /\ Head(outbox[t]) \in EventTypes
      BY <1>4, <2>2 DEF Deliver, NextSend
    <3>2. /\ outbox'[t] = Tail(outbox[t])
          /\ queue'[t] = Append(queue[t], Head(outbox[t]))
          /\ wpc' = wpc
      BY <1>4, <2>2 DEF Deliver, NextSend
    <3>3. Contains(queue[t], PageOf[t]) => Contains(queue'[t], PageOf[t])
      BY <3>1, <3>2, ContainsAppend
    <3>4. Contains(outbox[t], PageOf[t]) =>
            \/ Contains(queue'[t], PageOf[t])
            \/ Contains(outbox'[t], PageOf[t])
      BY <3>1, <3>2, ContainsAppend, ContainsTail
    <3>5. QED BY <3>2, <3>3, <3>4 DEF Pending, Events
  <2>3. QED BY <2>1, <2>2
<1>5. ASSUME NEW u \in Tabs, Skip(u), UNCHANGED sseVars
      PROVE  NoSilentStaleness'
  <2> SUFFICES ASSUME NEW t \in Tabs, Pending(t) \/ Lost(t)
               PROVE  Pending(t)' \/ Lost(t)'
    BY <1>5 DEF Skip, sseVars
  <2>1. CASE t # u
    BY <1>5, <2>1 DEF Skip, NextSend, Pending, Events
  <2>2. CASE t = u
    <3>1. outbox[t] \in Seq(EventTypes) /\ outbox[t] # <<>>
      BY <1>5, <2>2 DEF Skip, NextSend
    <3>2. /\ outbox'[t] = Tail(outbox[t])
          /\ dropped'[t] = dropped[t] \cup {Head(outbox[t])}
          /\ UNCHANGED <<wpc, queue>>
      BY <1>5, <2>2 DEF Skip, NextSend
    <3>3. Contains(outbox[t], PageOf[t]) =>
            Lost(t)' \/ Contains(outbox'[t], PageOf[t])
      BY <3>1, <3>2, ContainsTail
    <3>4. QED BY <3>2, <3>3 DEF Pending, Events
  <2>3. QED BY <2>1, <2>2
<1>6. ASSUME NEW u \in Tabs, HandlerSubscribe(u) PROVE NoSilentStaleness'
  BY <1>6 DEF HandlerSubscribe, Subscribe, Goto, Pending, Events, HasRead
<1>7. ASSUME NEW u \in Tabs, ReadFirst(u) PROVE NoSilentStaleness'
  <2> SUFFICES ASSUME NEW t \in Tabs, pc'[t] \in HasRead, Behind(t)'
               PROVE  Pending(t)' \/ Lost(t)'
    OBVIOUS
  <2>1. t # u
    BY <1>7 DEF ReadFirst, First, Sections, Pages, EventTypes
  <2>2. pc[t] \in HasRead /\ Behind(t)
    BY <1>7, <2>1 DEF ReadFirst, Goto
  <2>3. QED BY <1>7, <2>1, <2>2 DEF ReadFirst, Pending, Events
<1>8. ASSUME NEW u \in Tabs, ReadSecond(u) PROVE NoSilentStaleness'
  <2> SUFFICES ASSUME NEW t \in Tabs, pc'[t] \in HasRead, Behind(t)'
               PROVE  Pending(t)' \/ Lost(t)'
    OBVIOUS
  <2>1. pc[t] \in HasRead
    BY <1>8 DEF ReadSecond, Goto, HasRead
  <2>2. \A s \in First(PageOf[t]) : got'[t][s] = got[t][s]
    BY <1>8, PageReads DEF ReadSecond
  <2>3. Behind(t)
    BY <1>8, <2>2 DEF ReadSecond, feedVars
  <2>4. QED BY <1>8, <2>1, <2>3 DEF ReadSecond, feedVars, Pending, Events
<1>9. ASSUME NEW u \in Tabs, Write(u) \/ Return(u)
      PROVE  NoSilentStaleness'
  BY <1>9 DEF Write, Return, Goto, HasRead, feedVars, Pending, Events
<1>10. ASSUME NEW u \in Tabs, Wake(u) PROVE NoSilentStaleness'
  <2> SUFFICES ASSUME NEW t \in Tabs, t # u, Pending(t) PROVE Pending(t)'
    BY <1>10 DEF Wake, Receive, Goto, HasRead
  <2>1. queue'[t] = queue[t]
    BY <1>10 DEF Wake, Receive
  <2>2. QED BY <1>10, <2>1 DEF Wake, Receive, Pending, Events
<1>11. ASSUME NEW u \in Tabs, Ignore(u) PROVE NoSilentStaleness'
  <2> SUFFICES ASSUME NEW t \in Tabs, Pending(t) PROVE Pending(t)'
    BY <1>11 DEF Ignore, Receive, sseVars
  <2>1. Contains(queue[t], PageOf[t]) => Contains(queue'[t], PageOf[t])
    <3>1. CASE t # u
      BY <1>11, <3>1 DEF Ignore, Receive
    <3>2. CASE t = u
      <4>1. /\ queue[t] \in Seq(EventTypes) /\ queue[t] # <<>>
            /\ Head(queue[t]) # PageOf[t] /\ queue'[t] = Tail(queue[t])
        BY <1>11, <3>2 DEF Ignore, Receive, IsOwn
      <4>2. QED BY <4>1, ContainsTail
    <3>3. QED BY <3>1, <3>2
  <2>2. QED BY <1>11, <2>1 DEF Ignore, Receive, Pending, Events
<1>12. ASSUME NEW u \in Tabs, HandlerDeregister(u) \/ HandlerClose(u)
       PROVE  NoSilentStaleness'
  BY <1>12 DEF HandlerDeregister, Deregister, HandlerClose, CloseChannel,
     Goto, HasRead, Pending, Events
<1>13. ASSUME NEW u \in Tabs, Connect(u) PROVE NoSilentStaleness'
  BY <1>13 DEF Connect, Goto, HasRead, feedVars, Pending, Events
<1>14. ASSUME NEW u \in Tabs, Disconnect(u) PROVE NoSilentStaleness'
  BY <1>14 DEF Disconnect, feedVars, Pending, Events
<1>15. CASE UNCHANGED vars
  BY <1>15 DEF vars, feedVars, sseVars, Pending, Events
<1> QED
  BY NextCases, <1>1, <1>2, <1>3, <1>4, <1>5, <1>6, <1>7, <1>8, <1>9, <1>10,
     <1>11, <1>12, <1>13, <1>14, <1>15

-----------------------------------------------------------------------------
(* The inductive invariant holds in every reachable state.                   *)
THEOREM Invariance == Spec => []IInv
<1>1. IInv /\ [Next]_vars => IInv'
  BY NextType, NextLock, NextStream, NextWritten, NextAge, NextNews DEF IInv
<1>2. QED BY InitInv, <1>1, PTL DEF Spec

(* notify never sends on a closed channel.                                   *)
THEOREM NeverSendsOnClosed == Spec => []NoSendOnClosedChannel
<1>1. IInv => NoSendOnClosedChannel
  BY DEF IInv, LockInv, StreamInv, Registered, NoSendOnClosedChannel
<1>2. QED BY <1>1, Invariance, PTL

(* No change of a page's own data goes unnoticed by an open stream, except   *)
(* through an event dropped on a full channel.                               *)
THEOREM NoLostUpdate == Spec => []NoSilentStaleness
<1>1. IInv => NoSilentStaleness
  BY DEF IInv
<1>2. QED BY <1>1, Invariance, PTL

(* An open stream with nothing left to do displays its page's own data as    *)
(* the store has it.                                                         *)
THEOREM QuietIsCurrent == Spec => []QuietStreamShowsOwnData
<1>1. IInv => QuietStreamShowsOwnData
  BY DEF IInv, WrittenInv, NoSilentStaleness, QuietStreamShowsOwnData, Behind,
     HasRead
<1>2. QED BY <1>1, Invariance, PTL

(* The streams implement the abstract live view: what a tab displays is a    *)
(* state the store had, and never goes back.                                 *)
THEOREM Implements == Spec => ViewRefined
<1>1. Init => View!Init
  BY DEF Init, FeedInit, NoVersions, View!Init
<1>2. ASSUME IInv, [Next]_vars
      PROVE  [View!Next]_(View!viewVars)
  <2> USE <1>2, FeedAssumption, PageAssumption
      DEF IInv, TypeOK, FeedTypeOK, View!viewVars
  <2>1. ASSUME NEW w \in Writers, Change(w), UNCHANGED sseVars
        PROVE  View!Next
    BY <2>1 DEF Change, sseVars, View!Next, View!Update
  <2>2. ASSUME NEW t \in Tabs, Write(t), t \notin ctxDone
        PROVE  View!Next
    <3>1. shown' = [shown EXCEPT ![t] = got[t]] /\ pc[t] = "write"
          /\ ver' = ver
      BY <2>2 DEF Write, Goto, feedVars
    <3>2. shown'[t] = got[t] /\ shown' = [shown EXCEPT ![t] = shown'[t]]
      BY <3>1
    <3>3. ASSUME NEW s \in Sections
          PROVE  got[t][s] \in shown[t][s]..ver[s]
      <4>1. Ages(t, s) /\ got[t][s] \in Nat /\ shown[t][s] \in Nat
            /\ ver[s] \in Nat
        BY DEF AgeInv
      <4>2. QED BY <3>1, <4>1 DEF Ages, HasRead
    <3>4. View!Refresh(t)
      BY <3>1, <3>2, <3>3 DEF View!Refresh
    <3>5. QED BY <3>4 DEF View!Next
  <2>3. ASSUME NEW t \in Tabs, Write(t), t \in ctxDone
        PROVE  UNCHANGED <<ver, shown>>
    BY <2>3 DEF Write, feedVars
  <2>4. CASE UNCHANGED ver /\ UNCHANGED sseVars
    BY <2>4 DEF sseVars
  <2>5. ASSUME NEW t \in Tabs,
               \/ HandlerSubscribe(t) \/ ReadFirst(t) \/ ReadSecond(t)
               \/ Wake(t) \/ Ignore(t) \/ Return(t)
        PROVE  UNCHANGED <<ver, shown>>
    BY <2>5 DEF HandlerSubscribe, Subscribe, ReadFirst, ReadSecond, Wake,
       Ignore, Return, Receive, feedVars, sseVars
  <2>6. ASSUME NEW t \in Tabs,
               \/ HandlerDeregister(t) \/ HandlerClose(t)
               \/ Connect(t) \/ Disconnect(t)
        PROVE  UNCHANGED <<ver, shown>>
    BY <2>6 DEF HandlerDeregister, Deregister, HandlerClose, CloseChannel,
       Connect, Disconnect, feedVars
  <2>7. ASSUME NEW w \in Writers, NotifyLock(w) \/ NotifyUnlock(w)
        PROVE  UNCHANGED ver
    BY <2>7 DEF NotifyLock, NotifyUnlock
  <2>8. ASSUME NEW t \in Tabs, Deliver(t) \/ Skip(t)
        PROVE  UNCHANGED ver
    BY <2>8 DEF Deliver, Skip
  <2>9. CASE UNCHANGED vars
    BY <2>9 DEF vars, feedVars, sseVars
  <2>10. QED
    BY NextCases, <2>1, <2>2, <2>3, <2>4, <2>5, <2>6, <2>7, <2>8, <2>9
<1>3. QED
  BY <1>1, <1>2, Invariance, PTL DEF Spec, ViewRefined, View!Spec

=============================================================================

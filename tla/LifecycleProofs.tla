--------------------------- MODULE LifecycleProofs ---------------------------
(***************************************************************************)
(* Proofs about the process, for any ConfigMaps, Secrets and connections:  *)
(* what is known of the vCenters when the dashboard starts to run, and how *)
(* it ends.                                                                *)
(***************************************************************************)
EXTENDS Lifecycle, WellFoundedInduction, TLAPS

(* Sequences, element by element.                                            *)
LEMMA Elements ==
  ASSUME NEW S, NEW s \in Seq(S)
  PROVE  /\ Len(s) \in Nat
         /\ DOMAIN s = 1..Len(s)
         /\ \A i \in 1..Len(s) : s[i] \in S
         /\ s # <<>> => Len(s) > 0
OBVIOUS

LEMMA AppendElements ==
  ASSUME NEW S, NEW s \in Seq(S), NEW e \in S
  PROVE  /\ Append(s, e) \in Seq(S)
         /\ Len(Append(s, e)) = Len(s) + 1
         /\ Append(s, e)[Len(s) + 1] = e
         /\ \A i \in 1..Len(s) : Append(s, e)[i] = s[i]
OBVIOUS

(* A set of numbers that is not empty has a least one.                       *)
LEMMA Least ==
  ASSUME NEW T, T \subseteq Nat, T # {}
  PROVE  \E x \in T : \A y \in T : ~(y < x)
<1>1. \E x \in T : \A y \in T : ~(<<y, x>> \in OpToRel(<, Nat))
  BY NatLessThanWellFounded, WFMin, Zenon
<1> QED BY <1>1 DEF OpToRel

LEMMA FirstOfServer ==
  ASSUME TypeOK, NEW s \in {creds[i].server : i \in DOMAIN creds}
  PROVE  /\ FirstOf(s) \in 1..Len(creds)
         /\ creds[FirstOf(s)].server = s
         /\ \A k \in 1..(FirstOf(s) - 1) : creds[k].server # s
<1> DEFINE T == {i \in DOMAIN creds : creds[i].server = s}
<1>1. DOMAIN creds = 1..Len(creds) /\ Len(creds) \in Nat
  BY Elements DEF TypeOK
<1>2. T \subseteq Nat /\ T # {}
  BY <1>1
<1>3. PICK x \in T : \A y \in T : ~(y < x)
  BY <1>2, Least
<1>4. \A k \in 1..(x - 1) : creds[k].server # s
  BY <1>1, <1>3
<1>5. \E i \in DOMAIN creds :
        /\ creds[i].server = s
        /\ \A k \in 1..(i - 1) : creds[k].server # s
  BY <1>3, <1>4
<1> QED BY <1>1, <1>5 DEF FirstOf

(* What is read of an entry, with its types.                                 *)
LEMMA EntryTypes ==
  ASSUME TypeOK, CredsInv, main \in {"username", "password"}
  PROVE  /\ known \in Seq(Entries)
         /\ Len(known) \in Nat
         /\ DOMAIN known = 1..Len(known)
         /\ entry \in 1..Len(known)
         /\ known[entry] \in Entries
         /\ known[entry].secret \in Secrets
         /\ version[known[entry].secret] \in Nat
         /\ Resolved \in Credential
<1>1. known \in Seq(Entries)
  BY LifecycleAssumption DEF TypeOK, CredsInv
<1>2. entry \in 1..Len(known)
  BY DEF CredsInv
<1>3. /\ Len(known) \in Nat
      /\ DOMAIN known = 1..Len(known)
      /\ known[entry] \in Entries
  BY <1>1, <1>2, Elements
<1>4. known[entry].secret \in Secrets /\ known[entry].server \in Servers
  BY <1>3 DEF Secrets, Servers
<1>5. version[known[entry].secret] \in Nat
  BY <1>4, LifecycleAssumption DEF TypeOK
<1>6. Resolved \in Credential
  BY <1>4, <1>5 DEF Resolved, Credential, TypeOK
<1> QED BY <1>1, <1>2, <1>3, <1>4, <1>5, <1>6

-----------------------------------------------------------------------------
(* Types                                                                     *)

LEMMA InitTypes == Init => TypeOK
<1> SUFFICES ASSUME Init PROVE TypeOK
  OBVIOUS
<1>1. <<>> \in Seq(Credential) /\ DOMAIN metadata = {}
  BY DEF Init
<1>2. version \in [Secrets -> 0..MaxRotations] /\ signals \in 0..MaxSignals
  BY LifecycleAssumption DEF Init
<1>3. conns \in [Conns -> {"idle", "page", "stream"}]
  BY DEF Init
<1>4. {closing, overdue, ctxDone} \subseteq BOOLEAN
  BY DEF Init
<1> QED BY <1>1, <1>2, <1>3, <1>4 DEF Init, TypeOK

LEMMA TypeStep ==
  ASSUME TypeOK, CredsInv, [Next]_vars
  PROVE  TypeOK'
<1> USE DEF TypeOK
<1>1. CASE ReadConfig
  BY <1>1 DEF ReadConfig, api, server, signal
<1>2. CASE StartFails
  BY <1>2 DEF StartFails, Ended, api, start, server, signal
<1>3. CASE GetUsername
  BY <1>3, EntryTypes DEF GetUsername, api, server, signal
<1>4. CASE GetPassword
  <2>1. creds' \in Seq(Credential)
    BY <1>4, EntryTypes, AppendElements DEF GetPassword
  <2> QED BY <1>4, <2>1 DEF GetPassword, NextEntry, api, server, signal
<1>5. CASE BuildMetadata
  <2>1. \A s \in DOMAIN metadata' : metadata'[s] \in Credential
    <3>1. \A s \in {creds[i].server : i \in DOMAIN creds} :
            FirstOf(s) \in 1..Len(creds)
      BY FirstOfServer
    <3>2. \A i \in 1..Len(creds) : creds[i] \in Credential
      BY Elements
    <3> QED BY <1>5, <3>1, <3>2 DEF BuildMetadata
  <2> QED BY <1>5, <2>1 DEF BuildMetadata, api, server, signal
<1>6. CASE StartGoroutines
  BY <1>6 DEF StartGoroutines, api, signal
<1>7. CASE Shutdown
  BY <1>7 DEF Shutdown, api, start, signal
<1>8. CASE Exit
  BY <1>8 DEF Exit, Ended, api, start, server, signal
<1>9. CASE Listener
  BY <1>9 DEF Listener, Listen, Bind, ListenFails, Serve, ServerClosed, HTTP,
              ListenerEnds, Ended, api, start, signal
<1>10. CASE HandleSignal
  BY <1>10 DEF HandleSignal, api, start, server
<1>11. CASE Overdue
  BY <1>11 DEF Overdue, api, start, signal
<1>12. ASSUME NEW w \in running, WriterReturns(w) PROVE TypeOK'
  BY <1>12 DEF WriterReturns, api, server, signal
<1>13. ASSUME NEW c \in Conns, Accept(c) \/ Answered(c) \/ Left(c) PROVE TypeOK'
  BY <1>13 DEF Accept, Answered, Left, Busy, api, start, signal
<1>14. ASSUME NEW x \in Secrets, Rotate(x) PROVE TypeOK'
  BY <1>14, LifecycleAssumption DEF Rotate, start, server, signal
<1>15. CASE Signal
  BY <1>15, LifecycleAssumption DEF Signal, api, start, server
<1>16. CASE Reconfigure
  BY <1>16 DEF Reconfigure, start, server, signal
<1>17. CASE Restart
  <2>1. <<>> \in Seq(Credential) /\ DOMAIN metadata' = {}
    BY <1>17 DEF Restart
  <2> QED BY <1>17, <2>1 DEF Restart, api
<1>18. CASE UNCHANGED vars
  BY <1>18 DEF vars, api, start, server, signal
<1> QED BY <1>1, <1>2, <1>3, <1>4, <1>5, <1>6, <1>7, <1>8, <1>9, <1>10, <1>11,
           <1>12, <1>13, <1>14, <1>15, <1>16, <1>17, <1>18
        DEF Next, Main, Ending

-----------------------------------------------------------------------------
(* Start-up                                                                  *)

(* The actions that leave what start-up has read alone.                      *)
KeepsReading == UNCHANGED <<known, entry, username, creds, metadata>>

LEMMA ReadingKept ==
  ASSUME [Next]_vars
  PROVE  \/ ReadConfig \/ GetUsername \/ GetPassword \/ BuildMetadata \/ Restart
         \/ /\ KeepsReading
            /\ \/ main' = main
               \/ main' \in {"wait", "shutdown", "exited", "fatal"}
<1> USE DEF KeepsReading, api, start, server, signal
<1>1. CASE StartFails \/ StartGoroutines \/ Shutdown \/ Exit
  BY <1>1 DEF StartFails, StartGoroutines, Shutdown, Exit
<1>2. CASE Listener
  BY <1>2 DEF Listener, Listen, Bind, ListenFails, Serve, ServerClosed, HTTP,
              ListenerEnds
<1>3. CASE HandleSignal \/ Overdue \/ Signal \/ Reconfigure
  BY <1>3 DEF HandleSignal, Overdue, Signal, Reconfigure
<1>4. ASSUME NEW w \in running, WriterReturns(w) PROVE KeepsReading /\ main' = main
  BY <1>4 DEF WriterReturns
<1>5. ASSUME NEW c \in Conns, Accept(c) \/ Answered(c) \/ Left(c)
      PROVE  KeepsReading /\ main' = main
  BY <1>5 DEF Accept, Answered, Left, Busy
<1>6. ASSUME NEW x \in Secrets, Rotate(x) PROVE KeepsReading /\ main' = main
  BY <1>6 DEF Rotate
<1>7. CASE UNCHANGED vars
  BY <1>7 DEF vars
<1> QED BY <1>1, <1>2, <1>3, <1>4, <1>5, <1>6, <1>7 DEF Next, Main, Ending

LEMMA CredsStep ==
  ASSUME TypeOK, CredsInv, UsernameInv, StartInv, [Next]_vars
  PROVE  CredsInv'
<1>1. CASE ReadConfig
  <2>1. /\ known' # <<>> /\ entry' = 1 /\ creds' = <<>> /\ main' = "username"
        /\ known' \in Seq(Entries)
    BY <1>1, LifecycleAssumption DEF ReadConfig, StartInv, TypeOK
  <2>2. Len(known') > 0 /\ Len(known') \in Nat
    BY <2>1, Elements
  <2>3. Len(creds') = 0
    BY <2>1
  <2> QED BY <2>1, <2>2, <2>3 DEF CredsInv
<1>2. CASE GetUsername
  BY <1>2 DEF GetUsername, CredsInv
<1>3. CASE GetPassword
  <2>1. /\ creds \in Seq(Credential)
        /\ creds' = Append(creds, Resolved)
        /\ main = "password"
        /\ main' = IF entry = Len(known) THEN "metadata" ELSE "username"
        /\ entry' = entry + 1
        /\ known' = known
    BY <1>3 DEF GetPassword, NextEntry, TypeOK
  <2>2. /\ Len(creds') = Len(creds) + 1
        /\ creds'[Len(creds) + 1] = Resolved
        /\ \A i \in 1..Len(creds) : creds'[i] = creds[i]
    BY <2>1, EntryTypes, AppendElements
  <2>3. /\ known # <<>>
        /\ Len(creds) = entry - 1
        /\ entry \in 1..Len(known)
        /\ Len(known) \in Nat
        /\ Len(creds) \in Nat
    BY <2>1, EntryTypes, Elements DEF CredsInv
  <2>4. /\ Resolved.server = known[entry].server
        /\ Resolved.secret = known[entry].secret
        /\ Resolved.username <= Resolved.password
    BY <2>1 DEF UsernameInv, Resolved
  <2>5. ASSUME NEW i \in 1..Len(creds')
        PROVE  /\ creds'[i].server = known[i].server
               /\ creds'[i].secret = known[i].secret
               /\ creds'[i].username <= creds'[i].password
    <3>1. CASE i = Len(creds) + 1
      BY <3>1, <2>2, <2>3, <2>4
    <3>2. CASE i # Len(creds) + 1
      <4>1. i \in 1..Len(creds)
        BY <3>2, <2>2, <2>3
      <4> QED BY <4>1, <2>1, <2>2 DEF CredsInv
    <3> QED BY <3>1, <3>2
  <2>6. IF main' = "metadata" THEN entry' = Len(known) + 1
        ELSE entry' \in 1..Len(known)
    BY <2>1, <2>3
  <2> QED BY <2>1, <2>2, <2>3, <2>5, <2>6 DEF CredsInv
<1>4. CASE BuildMetadata \/ Restart
  BY <1>4 DEF BuildMetadata, Restart, CredsInv
<1>5. CASE /\ KeepsReading
           /\ \/ main' = main
              \/ main' \in {"wait", "shutdown", "exited", "fatal"}
  BY <1>5 DEF KeepsReading, CredsInv
<1> QED BY <1>1, <1>2, <1>3, <1>4, <1>5, ReadingKept

LEMMA UsernameStep ==
  ASSUME TypeOK, CredsInv, UsernameInv, [Next]_vars
  PROVE  UsernameInv'
<1> SUFFICES ASSUME main' = "password"
             PROVE  username' <= version'[known'[entry'].secret]
  BY DEF UsernameInv
<1>1. CASE GetUsername
  BY <1>1, EntryTypes DEF GetUsername, api
<1>2. ASSUME NEW x \in Secrets, Rotate(x)
      PROVE  username' <= version'[known'[entry'].secret]
  <2>1. /\ main = "password"
        /\ version[x] \in Nat
        /\ version' = [version EXCEPT ![x] = @ + 1]
        /\ version \in [Secrets -> 0..MaxRotations]
        /\ username' = username /\ known' = known /\ entry' = entry
    BY <1>2, LifecycleAssumption DEF Rotate, start, TypeOK
  <2> QED BY <2>1, EntryTypes DEF UsernameInv, TypeOK
<1>3. CASE main = "password" /\ KeepsReading /\ version' = version
  BY <1>3 DEF KeepsReading, UsernameInv
<1> USE DEF KeepsReading, api, start, server, signal
<1>4. CASE Main
  BY <1>1, <1>4 DEF Main, ReadConfig, StartFails, GetPassword, NextEntry,
                    BuildMetadata, StartGoroutines, Shutdown, Exit
<1>5. CASE Listener
  BY <1>3, <1>5 DEF Listener, Listen, Bind, ListenFails, Serve, ServerClosed,
                    HTTP, ListenerEnds
<1>6. CASE HandleSignal \/ Overdue \/ Signal
  BY <1>3, <1>6 DEF HandleSignal, Overdue, Signal
<1>7. CASE Reconfigure \/ Restart
  BY <1>3, <1>7 DEF Reconfigure, Restart
<1>8. ASSUME NEW w \in running, WriterReturns(w)
      PROVE  username' <= version'[known'[entry'].secret]
  BY <1>3, <1>8 DEF WriterReturns
<1>9. ASSUME NEW c \in Conns, Accept(c) \/ Answered(c) \/ Left(c)
      PROVE  username' <= version'[known'[entry'].secret]
  BY <1>3, <1>9 DEF Accept, Answered, Left, Busy
<1>10. CASE UNCHANGED vars
  BY <1>3, <1>10 DEF vars
<1> QED BY <1>2, <1>4, <1>5, <1>6, <1>7, <1>8, <1>9, <1>10 DEF Next, Ending

(* What NewMetadataFromCredentials makes of the credentials of all entries.  *)
LEMMA BuildConfigures ==
  ASSUME TypeOK, CredsInv, BuildMetadata
  PROVE  Configured'
<1>1. /\ known' = known
      /\ metadata' = [s \in {creds[i].server : i \in DOMAIN creds} |->
                        creds[FirstOf(s)]]
  BY DEF BuildMetadata
<1>2. /\ known # <<>>
      /\ Len(creds) = Len(known)
      /\ \A i \in 1..Len(creds) :
           /\ creds[i].server = known[i].server
           /\ creds[i].secret = known[i].secret
           /\ creds[i].username <= creds[i].password
  BY DEF BuildMetadata, CredsInv, TypeOK
<1>3. known \in Seq(Entries)
  BY <1>2, LifecycleAssumption DEF TypeOK
<1>4. /\ DOMAIN known = 1..Len(known)
      /\ DOMAIN creds = 1..Len(known)
      /\ \A i \in 1..Len(known) : known[i] \in Entries
  BY <1>2, <1>3, Elements DEF TypeOK
<1>5. {creds[i].server : i \in DOMAIN creds} = {known[i].server : i \in DOMAIN known}
  BY <1>2, <1>4
<1>6. ASSUME NEW s \in DOMAIN metadata'
      PROVE  \E i \in DOMAIN known :
               /\ known[i] = [server |-> s, secret |-> metadata'[s].secret]
               /\ \A k \in 1..(i - 1) : known[k].server # s
               /\ metadata'[s].username <= metadata'[s].password
  <2> DEFINE e == FirstOf(s)
  <2>1. s \in {creds[j].server : j \in DOMAIN creds} /\ metadata'[s] = creds[e]
    BY <1>1
  <2>2. /\ e \in 1..Len(creds)
        /\ creds[e].server = s
        /\ \A k \in 1..(e - 1) : creds[k].server # s
    BY <2>1, FirstOfServer
  <2>3. known[e] \in Entries /\ e \in DOMAIN known /\ Len(known) \in Nat
    BY <1>2, <1>3, <1>4, <2>2, Elements
  <2>4. known[e] = [server |-> known[e].server, secret |-> known[e].secret]
    BY <2>3, LifecycleAssumption
  <2>5. \A k \in 1..(e - 1) : known[k].server # s
    BY <1>2, <2>2, <2>3
  <2>6. /\ known[e].server = s
        /\ known[e].secret = metadata'[s].secret
        /\ metadata'[s].username <= metadata'[s].password
    BY <1>2, <2>1, <2>2
  <2>7. known[e] = [server |-> s, secret |-> metadata'[s].secret]
    BY <2>4, <2>6
  <2>8. e \in DOMAIN known
    BY <2>3
  <2> HIDE DEF e
  <2> QED BY <2>5, <2>6, <2>7, <2>8, Zenon
<1>7. DOMAIN metadata' = {known'[i].server : i \in DOMAIN known'}
  BY <1>1, <1>5
<1>8. known' # <<>>
  BY <1>1, <1>2
<1>9. \A s \in DOMAIN metadata' : \E i \in DOMAIN known' :
        /\ known'[i] = [server |-> s, secret |-> metadata'[s].secret]
        /\ \A k \in 1..(i - 1) : known'[k].server # s
        /\ metadata'[s].username <= metadata'[s].password
  BY <1>1, <1>6
<1> QED BY <1>7, <1>8, <1>9, Zenon DEF Configured

LEMMA StartStep ==
  ASSUME TypeOK, CredsInv, StartInv, [Next]_vars
  PROVE  StartInv'
<1>1. ASSUME known' = known, metadata' = metadata PROVE Configured' <=> Configured
  BY <1>1 DEF Configured
<1> USE DEF StartInv, api, start, server, signal
<1>2. CASE ReadConfig
  BY <1>2 DEF ReadConfig
<1>3. CASE StartFails
  BY <1>3 DEF StartFails
<1>4. CASE GetUsername
  BY <1>4 DEF GetUsername
<1>5. CASE GetPassword
  BY <1>5 DEF GetPassword, NextEntry
<1>6. CASE BuildMetadata
  BY <1>6, BuildConfigures DEF BuildMetadata
<1>7. CASE StartGoroutines
  BY <1>1, <1>7 DEF StartGoroutines
<1>8. CASE Shutdown \/ Exit
  BY <1>1, <1>8 DEF Shutdown, Exit
<1>9. CASE Listener
  BY <1>1, <1>9 DEF Listener, Listen, Bind, ListenFails, Serve, ServerClosed,
                    HTTP, ListenerEnds, Alive
<1>10. CASE HandleSignal \/ Overdue \/ Signal \/ Reconfigure
  BY <1>1, <1>10 DEF HandleSignal, Overdue, Signal, Reconfigure
<1>11. ASSUME NEW w \in running, WriterReturns(w) PROVE StartInv'
  BY <1>1, <1>11 DEF WriterReturns
<1>12. ASSUME NEW c \in Conns, Accept(c) \/ Answered(c) \/ Left(c) PROVE StartInv'
  BY <1>1, <1>12 DEF Accept, Answered, Left, Busy
<1>13. ASSUME NEW x \in Secrets, Rotate(x) PROVE StartInv'
  BY <1>1, <1>13 DEF Rotate
<1>14. CASE Restart
  BY <1>14 DEF Restart
<1>15. CASE UNCHANGED vars
  BY <1>1, <1>15 DEF vars
<1> QED BY <1>2, <1>3, <1>4, <1>5, <1>6, <1>7, <1>8, <1>9, <1>10, <1>11, <1>12,
           <1>13, <1>14, <1>15 DEF Next, Main, Ending

-----------------------------------------------------------------------------
(* The end                                                                   *)

LEMMA ClosingStep ==
  ASSUME TypeOK, ClosingInv, [Next]_vars
  PROVE  ClosingInv'
<1> USE DEF ClosingInv, api, start, server, signal
<1>1. CASE Main
  BY <1>1 DEF Main, ReadConfig, StartFails, GetUsername, GetPassword, NextEntry,
              BuildMetadata, StartGoroutines, Shutdown, Exit
<1>2. CASE Listener
  BY <1>2 DEF Listener, Listen, Bind, ListenFails, Serve, ServerClosed, HTTP,
              ListenerEnds, Alive, Ended
<1>3. CASE HandleSignal \/ Overdue \/ Signal \/ Reconfigure \/ Restart
  BY <1>3 DEF HandleSignal, Overdue, Signal, Reconfigure, Restart
<1>4. ASSUME NEW w \in running, WriterReturns(w) PROVE ClosingInv'
  BY <1>4 DEF WriterReturns
<1>5. ASSUME NEW c \in Conns, Accept(c) \/ Answered(c) \/ Left(c) PROVE ClosingInv'
  BY <1>5 DEF Accept, Answered, Left, Busy
<1>6. ASSUME NEW x \in Secrets, Rotate(x) PROVE ClosingInv'
  BY <1>6 DEF Rotate
<1>7. CASE UNCHANGED vars
  BY <1>7 DEF vars
<1> QED BY <1>1, <1>2, <1>3, <1>4, <1>5, <1>6, <1>7 DEF Next, Ending

-----------------------------------------------------------------------------
(* The theorems                                                              *)

(* The inductive invariant: the credentials resolved so far are those of the *)
(* entries before this one, nothing runs before all of them are there, and   *)
(* once Shutdown was called only a port that cannot be bound is a failure.   *)
THEOREM Invariance == Spec => []IInv
<1>1. Init => IInv
  BY InitTypes DEF Init, IInv, CredsInv, UsernameInv, StartInv, ClosingInv
<1>2. IInv /\ [Next]_vars => IInv'
  BY TypeStep, CredsStep, UsernameStep, StartStep, ClosingStep DEF IInv
<1> QED BY <1>1, <1>2, PTL DEF Spec

(* Every variable of the process keeps its type (main.go:56-165, config.go,  *)
(* session.go:40-76), for any ConfigMaps, Secrets and connections.           *)
THEOREM TypeCorrect == Spec => []TypeOK
<1>1. IInv => TypeOK
  BY DEF IInv
<1> QED BY <1>1, Invariance, PTL

(* main.go:88-155: no writer and no listener runs before every vCenter of    *)
(* the ConfigMap has its credentials, whatever Secrets are changed meanwhile, *)
(* however many entries there are and which of them name the same vCenter.   *)
THEOREM StartsWithAll == Spec => []StartedWithAllCredentials
<1>1. IInv => StartedWithAllCredentials
  BY DEF IInv, StartInv, StartedWithAllCredentials
<1> QED BY <1>1, Invariance, PTL

(* main.go:152-163: once Shutdown was called the process fails only because  *)
(* its port cannot be bound, whenever the signal came.                       *)
THEOREM StopNotFailure == Spec => []StopIsNoFailure
<1>1. IInv => StopIsNoFailure
  BY DEF IInv, ClosingInv, StopIsNoFailure
<1> QED BY <1>1, Invariance, PTL

=============================================================================

------------------------------ MODULE Lifecycle ------------------------------
(***************************************************************************)
(* The process from its start to its end (cmd/dashboard/main.go): reading  *)
(* the configuration and the credentials (pkg/config/config.go, and        *)
(* NewMetadataFromCredentials in pkg/vsphere/session.go), the goroutines,  *)
(* the signal and the shutdown with connections open.                      *)
(*                                                                         *)
(* External: the API server with its Secrets, the kubelet that starts a    *)
(* failed container again, net/http's Server, and the browsers.            *)
(***************************************************************************)
EXTENDS Naturals, Sequences

CONSTANTS
  Entries,       \* entries of the ConfigMap, each [server, secret]
  Configs,       \* the lists of entries the ConfigMap may have
  Polling,       \* whether --vcenter-poll-interval is positive
  Conns,         \* connections of browsers
  MaxRotations,  \* bound on the changes of each Secret
  MaxSignals     \* bound on the signals sent

Servers == {e.server : e \in Entries}
Secrets == {e.secret : e \in Entries}

ASSUME LifecycleAssumption ==
  /\ \A e \in Entries : e = [server |-> e.server, secret |-> e.secret]
  /\ Configs \subseteq Seq(Entries)
  /\ Polling \in BOOLEAN
  /\ MaxRotations \in Nat
  /\ MaxSignals \in Nat

VARIABLES
  config,    \* the entries in the ConfigMap
  version,   \* version[x]: how often Secret x was changed
  main,      \* where main is
  known,     \* the configuration main has read
  entry,     \* the entry of known whose Secret is read
  username,  \* the version of the user name just read
  creds,     \* the credentials resolved so far
  metadata,  \* Metadata.Credentials
  running,   \* the goroutines that write to the Store
  http,      \* where the goroutine with ListenAndServe is
  closing,   \* Shutdown has been called
  overdue,   \* the ten seconds of Shutdown are over
  conns,     \* what each connection is busy with
  signals,   \* signals sent
  sigCh,     \* signals waiting in sigCh
  ctxDone    \* the context is cancelled

api == <<config, version>>
start == <<known, entry, username, creds, metadata, running>>
server == <<http, closing, overdue, conns>>
signal == <<signals, sigCh, ctxDone>>
vars == <<api, main, start, server, signal>>

(* The versions of the Secret from which user name and password were read.   *)
Credential == [server : Servers, secret : Secrets, username : Nat, password : Nat]

Ended == {"exited", "fatal"}

TypeOK ==
  /\ config \in Configs
  /\ version \in [Secrets -> 0..MaxRotations]
  /\ main \in {"config", "username", "password", "metadata", "start", "wait",
               "shutdown"} \cup Ended
  /\ known \in Configs \cup {<<>>}
  /\ entry \in Nat
  /\ username \in Nat
  /\ creds \in Seq(Credential)
  /\ \A s \in DOMAIN metadata : metadata[s] \in Credential
  /\ running \subseteq {"watcher", "prow", "collector"}
  /\ http \in {"none", "starting", "listening", "bound", "serving",
              "errListen", "errServerClosed", "returned"}
  /\ {closing, overdue, ctxDone} \subseteq BOOLEAN
  /\ conns \in [Conns -> {"idle", "page", "stream"}]
  /\ signals \in 0..MaxSignals
  /\ sigCh \in {0, 1}

(* The signal handler is there before anything else happens.                 *)
Init ==
  /\ config \in Configs
  /\ version = [x \in Secrets |-> 0]
  /\ main = "config"
  /\ known = <<>> /\ entry = 1 /\ username = 0
  /\ creds = <<>> /\ metadata = <<>> /\ running = {}
  /\ http = "none" /\ closing = FALSE /\ overdue = FALSE
  /\ conns = [c \in Conns |-> "idle"]
  /\ signals = 0 /\ sigCh = 0 /\ ctxDone = FALSE

-----------------------------------------------------------------------------
(* Start-up.  No step of it looks at the context.                            *)

(* ReadConfig: a list without entries is an error.                           *)
ReadConfig ==
  /\ main = "config"
  /\ config # <<>>
  /\ known' = config
  /\ main' = "username"
  /\ UNCHANGED <<api, entry, username, creds, metadata, running, server, signal>>

(* klog.Fatalf: a read that fails or takes longer than its 60 seconds, a key *)
(* that is missing, or no entries.                                           *)
StartFails ==
  /\ main \in {"config", "username", "password"}
  /\ main' = "fatal"
  /\ UNCHANGED <<api, start, server, signal>>

(* GetSecret, once for the user name ...                                     *)
GetUsername ==
  /\ main = "username"
  /\ username' = version[known[entry].secret]
  /\ main' = "password"
  /\ UNCHANGED <<api, known, entry, creds, metadata, running, server, signal>>

(* ... and once more for the password: the Secret may have changed.          *)
NextEntry ==
  /\ main' = IF entry = Len(known) THEN "metadata" ELSE "username"
  /\ entry' = entry + 1
  /\ username' = 0
  /\ UNCHANGED <<api, known, metadata, running, server, signal>>

Resolved ==
  [server |-> known[entry].server, secret |-> known[entry].secret,
   username |-> username, password |-> version[known[entry].secret]]

(* Mutant: a vCenter whose Secret cannot be read is left out. *)
GetPasswordOrSkip ==
  /\ main = "password"
  /\ creds' \in {creds, Append(creds, Resolved)}
  /\ NextEntry

GetPassword ==
  /\ main = "password"
  /\ creds' = Append(creds, Resolved)
  /\ NextEntry

(* Mutant: a server named twice is an error. *)
BuildMetadataStrict ==
  /\ main = "metadata"
  /\ IF \E i, k \in DOMAIN creds : i # k /\ creds[i].server = creds[k].server
     THEN main' = "fatal" /\ metadata' = metadata
     ELSE /\ main' = "start"
          /\ metadata' = [s \in {creds[i].server : i \in DOMAIN creds} |->
               creds[CHOOSE i \in DOMAIN creds : creds[i].server = s]]
  /\ UNCHANGED <<api, known, entry, username, creds, running, server, signal>>

(* NewMetadataFromCredentials: the first credentials of a server stay.       *)
FirstOf(s) ==
  CHOOSE i \in DOMAIN creds :
    /\ creds[i].server = s
    /\ \A k \in 1..(i - 1) : creds[k].server # s

BuildMetadata ==
  /\ main = "metadata"
  /\ main' = "start"
  /\ metadata' = [s \in {creds[i].server : i \in DOMAIN creds} |-> creds[FirstOf(s)]]
  /\ UNCHANGED <<api, known, entry, username, creds, running, server, signal>>

(* The writers start, and the goroutine of the HTTP server.                  *)
StartGoroutines ==
  /\ main = "start"
  /\ running' = {"watcher", "prow"} \cup (IF Polling THEN {"collector"} ELSE {})
  /\ http' = "starting"
  /\ main' = "wait"
  /\ UNCHANGED <<api, known, entry, username, creds, metadata, closing, overdue,
                 conns, signal>>

-----------------------------------------------------------------------------
(* ListenAndServe, in its goroutine                                          *)

Alive == main \notin Ended

HTTP(from, to) ==
  /\ Alive
  /\ http = from
  /\ http' = to
  /\ UNCHANGED <<api, main, start, closing, overdue, conns, signal>>

(* It looks whether the server is closing, binds the port, which may fail,   *)
(* and looks once more before it serves.                                     *)
Listen == ~closing /\ HTTP("starting", "listening")
Bind == HTTP("listening", "bound")
ListenFails == HTTP("listening", "errListen")
Serve == ~closing /\ HTTP("bound", "serving")

(* It returns http.ErrServerClosed once Shutdown has been called.            *)
ServerClosed ==
  /\ closing
  /\ \E from \in {"starting", "bound", "serving"} : HTTP(from, "errServerClosed")

(* Mutant: http.ErrServerClosed is an error like any other. *)
ListenerEndsFatal ==
  /\ Alive
  /\ http \in {"errListen", "errServerClosed"}
  /\ main' = "fatal"
  /\ UNCHANGED <<api, start, server, signal>>

(* klog.Fatalf ends the process, but not for http.ErrServerClosed.           *)
ListenerEnds ==
  /\ Alive
  /\ \/ http = "errServerClosed" /\ http' = "returned" /\ UNCHANGED main
     \/ http = "errListen" /\ main' = "fatal" /\ UNCHANGED http
  /\ UNCHANGED <<api, start, closing, overdue, conns, signal>>

(* A request comes in: a page, or a stream that its client may keep for ever. *)
Accept(c) ==
  /\ Alive
  /\ http = "serving"
  /\ ~closing
  /\ conns[c] = "idle"
  /\ \E kind \in {"page", "stream"} : conns' = [conns EXCEPT ![c] = kind]
  /\ UNCHANGED <<api, main, start, http, closing, overdue, signal>>

(* The page is written; the stream's client is gone.                         *)
Busy(c, kind) ==
  /\ Alive
  /\ conns[c] = kind
  /\ conns' = [conns EXCEPT ![c] = "idle"]
  /\ UNCHANGED <<api, main, start, http, closing, overdue, signal>>

Answered(c) == Busy(c, "page")
Left(c) == Busy(c, "stream")

-----------------------------------------------------------------------------
(* The signal and the shutdown                                               *)

(* SIGINT or SIGTERM: sigCh holds one signal, more are dropped.              *)
Signal ==
  /\ Alive
  /\ signals < MaxSignals
  /\ signals' = signals + 1
  /\ sigCh' = 1
  /\ UNCHANGED <<api, main, start, server, ctxDone>>

(* The goroutine of the handler takes one signal, and cancels.               *)
HandleSignal ==
  /\ Alive
  /\ sigCh = 1
  /\ ~ctxDone
  /\ sigCh' = 0
  /\ ctxDone' = TRUE
  /\ UNCHANGED <<api, main, start, server, signals>>

(* <-ctx.Done() in one of the writers: it returns.                           *)
WriterReturns(w) ==
  /\ Alive
  /\ ctxDone
  /\ w \in running
  /\ running' = running \ {w}
  /\ UNCHANGED <<api, main, known, entry, username, creds, metadata, server, signal>>

(* <-ctx.Done() in main: Shutdown is called, and refuses new connections.    *)
Shutdown ==
  /\ main = "wait"
  /\ ctxDone
  /\ main' = "shutdown"
  /\ closing' = TRUE
  /\ UNCHANGED <<api, start, http, overdue, conns, signal>>

(* Mutant: Shutdown has no time limit. *)
NeverOverdue == FALSE

Overdue ==
  /\ main = "shutdown"
  /\ ~overdue
  /\ overdue' = TRUE
  /\ UNCHANGED <<api, main, start, http, closing, conns, signal>>

(* Shutdown returns when no connection is busy, or when it is overdue, and   *)
(* main after it, whatever the other goroutines do.                          *)
Exit ==
  /\ main = "shutdown"
  /\ overdue \/ \A c \in Conns : conns[c] = "idle"
  /\ main' = "exited"
  /\ UNCHANGED <<api, start, server, signal>>

-----------------------------------------------------------------------------
(* The environment                                                           *)

Rotate(x) ==
  /\ version[x] < MaxRotations
  /\ version' = [version EXCEPT ![x] = @ + 1]
  /\ UNCHANGED <<config, main, start, server, signal>>

(* The ConfigMap is corrected.                                               *)
Reconfigure ==
  /\ config = <<>>
  /\ config' \in Configs \ {<<>>}
  /\ UNCHANGED <<version, main, start, server, signal>>

(* The kubelet starts a container again that ended with an error.            *)
Restart ==
  /\ main = "fatal"
  /\ main' = "config"
  /\ known' = <<>> /\ entry' = 1 /\ username' = 0
  /\ creds' = <<>> /\ metadata' = <<>> /\ running' = {}
  /\ http' = "none" /\ closing' = FALSE /\ overdue' = FALSE
  /\ conns' = [c \in Conns |-> "idle"]
  /\ sigCh' = 0 /\ ctxDone' = FALSE
  /\ UNCHANGED <<api, signals>>

Ending == main = "exited" /\ UNCHANGED vars

Main ==
  \/ ReadConfig \/ StartFails \/ GetUsername \/ GetPassword \/ BuildMetadata
  \/ StartGoroutines \/ Shutdown \/ Exit

Listener ==
  Listen \/ Bind \/ ListenFails \/ Serve \/ ServerClosed \/ ListenerEnds

Next ==
  \/ Main \/ Listener \/ HandleSignal \/ Overdue
  \/ \E w \in running : WriterReturns(w)
  \/ \E c \in Conns : Accept(c) \/ Answered(c) \/ Left(c)
  \/ \E x \in Secrets : Rotate(x)
  \/ Signal \/ Reconfigure \/ Restart \/ Ending

Spec == Init /\ [][Next]_vars

-----------------------------------------------------------------------------
(* Fairness: the goroutines run, reads of the API server end at the latest   *)
(* when they time out, pages are answered, and ten seconds pass.  Nobody has *)
(* to close a stream, and a container need not be started again.             *)
FairSpec ==
  /\ Spec
  /\ WF_vars(Main) /\ WF_vars(Listener) /\ WF_vars(HandleSignal)
  /\ WF_vars(Overdue)
  /\ \A c \in Conns : WF_vars(Answered(c))

(* The API server answers in the end, the ConfigMap is corrected if it has    *)
(* to be, the port can be bound, and the kubelet does its work.               *)
Healthy ==
  /\ WF_vars(Reconfigure) /\ WF_vars(Restart)
  /\ <>[][~StartFails /\ ~ListenFails]_vars

-----------------------------------------------------------------------------
(* Properties                                                                *)

(* Every vCenter of the ConfigMap that was read has its credentials: those of *)
(* its first entry, the password not read before the user name.               *)
Configured ==
  /\ known # <<>>
  /\ DOMAIN metadata = {known[i].server : i \in DOMAIN known}
  /\ \A s \in DOMAIN metadata :
       \E i \in DOMAIN known :
         /\ known[i] = [server |-> s, secret |-> metadata[s].secret]
         /\ \A k \in 1..(i - 1) : known[k].server # s
         /\ metadata[s].username <= metadata[s].password

(* main.go:88-134: nothing is collected or served before every vCenter of the *)
(* ConfigMap that was read has its credentials.                               *)
StartedWithAllCredentials == running # {} \/ http # "none" => Configured

(* main.go:152: a process that was told to stop does not end as a failure     *)
(* because of it, however early in its life it was told; only a port that     *)
(* cannot be bound still is one.                                              *)
StopIsNoFailure == main = "fatal" /\ closing => http = "errListen"

(* main.go:58-65: a process that gets a signal ends, in start-up too, and     *)
(* although a browser keeps its stream.                                       *)
SignalEndsProcess == sigCh = 1 ~> main \in Ended

(* A ConfigMap that was missing or empty is read after the restarts, and the  *)
(* pages are served, unless a signal comes.                                   *)
ServesInTheEnd == Healthy => <>(http = "serving" \/ signals > 0)

-----------------------------------------------------------------------------
(* The parts of the inductive invariant behind the two safety properties; the *)
(* proofs are in LifecycleProofs.                                             *)

(* The credentials of the entries before this one are resolved, in order.     *)
CredsInv ==
  main \in {"username", "password", "metadata"} =>
    /\ known # <<>>
    /\ Len(creds) = entry - 1
    /\ IF main = "metadata" THEN entry = Len(known) + 1
       ELSE entry \in 1..Len(known)
    /\ \A i \in 1..Len(creds) :
         /\ creds[i].server = known[i].server
         /\ creds[i].secret = known[i].secret
         /\ creds[i].username <= creds[i].password

(* A Secret only changes to a newer version after its user name was read.     *)
UsernameInv == main = "password" => username <= version[known[entry].secret]

(* Nothing runs while main starts up, and all is configured after.            *)
StartInv ==
  /\ main \in {"config", "username", "password", "metadata", "start"} =>
       running = {} /\ http = "none"
  /\ main = "config" => creds = <<>> /\ entry = 1
  /\ main \in {"start", "wait", "shutdown", "exited"} => Configured
  /\ running # {} \/ http # "none" => Configured

(* Shutdown is main's, and only a port that cannot be bound fails after it.   *)
ClosingInv ==
  closing =>
    /\ main \in {"shutdown", "exited", "fatal"}
    /\ main = "fatal" => http = "errListen"

IInv == TypeOK /\ CredsInv /\ UsernameInv /\ StartInv /\ ClosingInv

=============================================================================

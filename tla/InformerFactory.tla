-------------------------- MODULE InformerFactory --------------------------
(***************************************************************************)
(* sharedInformerFactory of pkg/client/informers/externalversions/         *)
(* factory.go, used by several goroutines at once.                         *)
(*                                                                         *)
(* Every method holds the lock for all that it reads and writes of the     *)
(* factory, so that part of it is one action.  Shutdown and                *)
(* WaitForCacheSync then wait without the lock.                            *)
(***************************************************************************)
EXTENDS Naturals

CONSTANTS
  Types,     \* the types of objects there may be informers for
  Channels,  \* the stop channels
  Callers,   \* the goroutines that use the factory
  None       \* no channel

ASSUME FactoryAssumption == None \notin Channels

VARIABLES
  informers,         \* the types that have an informer
  startedInformers,  \* those whose informer has been started
  shuttingDown,
  stop,              \* [Types -> Channels or None]: what a running informer got
  runs,              \* [Types -> Nat]: how often Run was called on an informer
  synced,            \* the types whose informer has listed its objects
  closed,            \* the channels that are closed
  call,              \* [Callers -> {"none", "Shutdown", "WaitForCacheSync"}]
  waitsWith,         \* [Callers -> Channels or None]: the stopCh of the call
  waitsFor,          \* [Callers -> SUBSET Types]: the informers it asks next
  wasDown            \* has a call of Shutdown returned?

factory == <<informers, startedInformers, shuttingDown>>
goroutines == <<stop, runs, synced>>
calls == <<call, waitsWith, waitsFor, wasDown>>
ivars == <<factory, goroutines, closed, calls>>

ITypeOK ==
  /\ informers \subseteq Types
  /\ startedInformers \subseteq informers
  /\ shuttingDown \in BOOLEAN
  /\ stop \in [Types -> Channels \cup {None}]
  /\ runs \in [Types -> Nat]
  /\ synced \subseteq startedInformers
  /\ closed \subseteq Channels
  /\ call \in [Callers -> {"none", "Shutdown", "WaitForCacheSync"}]
  /\ waitsWith \in [Callers -> Channels \cup {None}]
  /\ waitsFor \in [Callers -> SUBSET startedInformers]
  /\ wasDown \in BOOLEAN

(* NewSharedInformerFactory *)
IInit ==
  /\ informers = {} /\ startedInformers = {} /\ shuttingDown = FALSE
  /\ stop = [t \in Types |-> None]
  /\ runs = [t \in Types |-> 0]
  /\ synced = {} /\ closed = {}
  /\ call = [c \in Callers |-> "none"]
  /\ waitsWith = [c \in Callers |-> None]
  /\ waitsFor = [c \in Callers |-> {}]
  /\ wasDown = FALSE

(* The goroutines that the WaitGroup counts. *)
Running == {t \in Types : stop[t] # None}

-----------------------------------------------------------------------------
(* Each type has one informer, that of the first call. *)
InformerFor(c, t) ==
  /\ call[c] = "none"
  /\ informers' = informers \cup {t}
  /\ UNCHANGED <<startedInformers, shuttingDown, goroutines, closed, calls>>

(* Mutant: Start does not look whether the factory shuts down. *)
StartAnyway(c, channel) ==
  /\ call[c] = "none"
  /\ LET fresh == informers \ startedInformers
     IN  /\ startedInformers' = informers
         /\ stop' = [t \in Types |-> IF t \in fresh THEN channel ELSE stop[t]]
         /\ runs' = [t \in Types |-> IF t \in fresh THEN runs[t] + 1 ELSE runs[t]]
  /\ UNCHANGED <<informers, shuttingDown, synced, closed, calls>>

(* Mutant: Start forgets informers whose goroutine has ended. *)
StartAgain(c, channel) ==
  /\ call[c] = "none" /\ ~shuttingDown
  /\ LET fresh == informers \ Running
     IN  /\ startedInformers' = informers
         /\ stop' = [t \in Types |-> IF t \in fresh THEN channel ELSE stop[t]]
         /\ runs' = [t \in Types |-> IF t \in fresh THEN runs[t] + 1 ELSE runs[t]]
  /\ UNCHANGED <<informers, shuttingDown, synced, closed, calls>>

(* A goroutine for each informer that has not been started yet. *)
Start(c, channel) ==
  /\ call[c] = "none" /\ ~shuttingDown
  /\ LET fresh == informers \ startedInformers
     IN  /\ startedInformers' = informers
         /\ stop' = [t \in Types |-> IF t \in fresh THEN channel ELSE stop[t]]
         /\ runs' = [t \in Types |-> IF t \in fresh THEN runs[t] + 1 ELSE runs[t]]
  /\ UNCHANGED <<informers, shuttingDown, synced, closed, calls>>

Shutdown(c) ==
  /\ call[c] = "none"
  /\ shuttingDown' = TRUE
  /\ call' = [call EXCEPT ![c] = "Shutdown"]
  /\ UNCHANGED <<informers, startedInformers, goroutines, closed, waitsWith, waitsFor, wasDown>>

(* f.wg.Wait returns, and Shutdown does. *)
ShutdownReturns(c) ==
  /\ call[c] = "Shutdown" /\ Running = {}
  /\ call' = [call EXCEPT ![c] = "none"]
  /\ wasDown' = TRUE
  /\ UNCHANGED <<factory, goroutines, closed, waitsWith, waitsFor>>

(* Mutant: it waits for the informers that were not started, too. *)
WaitForAll(c, channel) ==
  /\ call[c] = "none"
  /\ call' = [call EXCEPT ![c] = "WaitForCacheSync"]
  /\ waitsWith' = [waitsWith EXCEPT ![c] = channel]
  /\ waitsFor' = [waitsFor EXCEPT ![c] = informers]
  /\ UNCHANGED <<factory, goroutines, closed, wasDown>>

(* It takes the started informers under the lock and waits without it. *)
WaitForCacheSync(c, channel) ==
  /\ call[c] = "none"
  /\ call' = [call EXCEPT ![c] = "WaitForCacheSync"]
  /\ waitsWith' = [waitsWith EXCEPT ![c] = channel]
  /\ waitsFor' = [waitsFor EXCEPT ![c] = startedInformers]
  /\ UNCHANGED <<factory, goroutines, closed, wasDown>>

(* cache.WaitForCacheSync: it has synced or the stop channel is closed. *)
Polled(c, t) == t \in synced \/ waitsWith[c] \in closed

(* The wait for one informer ends, in any order of them. *)
Waited(c) ==
  /\ call[c] = "WaitForCacheSync"
  /\ \E t \in waitsFor[c] :
       Polled(c, t) /\ waitsFor' = [waitsFor EXCEPT ![c] = @ \ {t}]
  /\ UNCHANGED <<factory, goroutines, closed, call, waitsWith, wasDown>>

WaitReturns(c) ==
  /\ call[c] = "WaitForCacheSync" /\ waitsFor[c] = {}
  /\ call' = [call EXCEPT ![c] = "none"]
  /\ waitsWith' = [waitsWith EXCEPT ![c] = None]
  /\ UNCHANGED <<factory, goroutines, closed, waitsFor, wasDown>>

-----------------------------------------------------------------------------
(* The informers' Run, and whoever closes a channel. *)

Listed(t) ==
  /\ t \in Running \ synced
  /\ synced' = synced \cup {t}
  /\ UNCHANGED <<factory, stop, runs, closed, calls>>

(* Run returns once its channel is closed; the goroutine calls wg.Done. *)
RunReturns(t) ==
  /\ stop[t] \in closed
  /\ stop' = [stop EXCEPT ![t] = None]
  /\ UNCHANGED <<factory, runs, synced, closed, calls>>

Close(channel) ==
  /\ channel \notin closed
  /\ closed' = closed \cup {channel}
  /\ UNCHANGED <<factory, goroutines, calls>>

INext ==
  \/ \E c \in Callers :
       \/ \E t \in Types : InformerFor(c, t)
       \/ \E channel \in Channels : Start(c, channel) \/ WaitForCacheSync(c, channel)
       \/ Shutdown(c) \/ ShutdownReturns(c) \/ Waited(c) \/ WaitReturns(c)
  \/ \E t \in Types : Listed(t) \/ RunReturns(t)
  \/ \E channel \in Channels : Close(channel)

ISpec == IInit /\ [][INext]_ivars

(* Waiting calls and informers are scheduled.  Nothing makes callers call, *)
(* channels close or the API server answer the first list.                 *)
IFairness ==
  /\ \A c \in Callers :
       WF_ivars(ShutdownReturns(c)) /\ WF_ivars(Waited(c)) /\ WF_ivars(WaitReturns(c))
  /\ \A t \in Types : WF_ivars(RunReturns(t))

IFairSpec == ISpec /\ IFairness

-----------------------------------------------------------------------------
(* However often and from wherever Start is called, also after the         *)
(* informer has ended, an informer is run once ("This allows Start() to be *)
(* called multiple times safely", factory.go:48): a shared informer cannot *)
(* be run again.                                                           *)
RunsOnce == \A t \in Types : runs[t] <= 1

(* Once a call of Shutdown has returned no informer runs, ever again: "no  *)
(* new informers can be started anymore", "Shutdown blocks until all       *)
(* goroutines have terminated" (factory.go:232).                           *)
ShutdownIsFinal == wasDown => Running = {}

(* No call waits for ever on a channel that is closed: Shutdown returns    *)
(* when those of the running informers are (factory.go:236), also if they  *)
(* are closed while it waits and others call Start, and WaitForCacheSync   *)
(* when its own is (factory.go:244).                                       *)
WaitsEnd ==
  \A c \in Callers :
    /\ (call[c] = "Shutdown" /\ \A t \in Running : stop[t] \in closed)
         ~> call[c] # "Shutdown"
    /\ (call[c] = "WaitForCacheSync" /\ waitsWith[c] \in closed)
         ~> call[c] # "WaitForCacheSync"
=============================================================================

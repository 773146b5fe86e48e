--------------------------- MODULE ProcessProofs ---------------------------
(***************************************************************************)
(* Proofs about the two parts of the process that surround the controller  *)
(* and have no state in common with it or with each other: its start, for  *)
(* any set of configuration files (Startup), and its informer factory, for *)
(* any types, channels and callers (InformerFactory).                      *)
(***************************************************************************)
EXTENDS Startup, InformerFactory, TLAPS

-----------------------------------------------------------------------------
(* Startup: a file that passes validate ends the process later by its      *)
(* paths and ports only.                                                   *)

(* The paths of a server that are fit for its multiplexer. *)
LEMMA FitRoutesDoNotPanic ==
  ASSUME ServersFit(file), NEW s \in Servers
  PROVE  ~RoutesPanic(s)
<1> SUFFICES ASSUME NEW i \in DOMAIN Routes(s),
                    \/ Routes(s)[i] = NoPath
                    \/ \E j \in DOMAIN Routes(s) : i # j /\ Routes(s)[i] = Routes(s)[j]
             PROVE  FALSE
  BY DEF RoutesPanic
<1>1. CASE s = "health"
  <2>1. Routes(s) = <<file.liveness, file.readiness>>
    BY <1>1 DEF Routes
  <2>2. DOMAIN Routes(s) = 1..2
    BY <2>1
  <2>3. \A k \in 1..2 : k = 1 \/ k = 2
    OBVIOUS
  <2> QED BY <2>1, <2>2, <2>3 DEF ServersFit
<1>2. CASE s = "metrics"
  <2>1. Routes(s) = <<file.metricsPath>>
    BY <1>2 DEF Routes
  <2>2. DOMAIN Routes(s) = 1..1
    BY <2>1
  <2>3. \A k \in 1..1 : k = 1
    OBVIOUS
  <2> QED BY <2>1, <2>2, <2>3 DEF ServersFit
<1>3. CASE s = "pprof"
  BY <1>3 DEF Routes
<1> QED BY <1>1, <1>2, <1>3 DEF Servers

-----------------------------------------------------------------------------
(* The inductive invariant. *)

(* What is started when. *)
Stages ==
  /\ main \in {"parsing", "building"} =>
       worker = "none" /\ \A s \in Servers : server[s] = "none"
  /\ main \in {"building", "waiting"} => validate(file)

(* Only pprof may be off; it is unless the file enables it. *)
Pprof == server["pprof"] \in {"routing", "listening", "serving"} => file.enableServerPprof

(* What ends a process whose goroutines run. *)
EndedByServers == main = "dead" /\ (\E s \in Servers : server[s] # "none") => ~ServersFit(file)

SInv == STypeOK /\ Stages /\ Pprof /\ EndedByServers

LEMMA InitSInv == SInit => SInv
BY FilesAssumption DEF SInit, SInv, STypeOK, Stages, Pprof, EndedByServers, Servers

LEMMA NextKeepsSInv ==
  ASSUME SInv, [SNext]_svars
  PROVE  SInv'
<1> USE DEF SInv, STypeOK, Stages, Pprof, EndedByServers
<1>1. CASE ParseConfig
  BY <1>1 DEF ParseConfig, validate, Expanded
<1>2. CASE Launch
  BY <1>2 DEF Launch, ToControllerConfig, validate, Expanded, Servers
<1>3. CASE NoClient
  BY <1>3 DEF NoClient
<1>4. ASSUME NEW s \in Servers, Route(s) PROVE SInv'
  <2>1. CASE RoutesPanic(s)
    <3>1. ~ServersFit(file)
      BY <2>1, FitRoutesDoNotPanic
    <3> QED BY <1>4, <2>1, <3>1 DEF Route, validate, Expanded, ServersFit
  <2>2. CASE ~RoutesPanic(s)
    BY <1>4, <2>2 DEF Route, validate, Expanded, Servers
  <2> QED BY <2>1, <2>2
<1>5. ASSUME NEW s \in Servers, Listen(s) PROVE SInv'
  <2>1. CASE Taken(file.port[s]) /\ s # "pprof"
    <3>1. PICK t \in Servers : server[t] = "serving" /\ file.port[t] = file.port[s]
      BY <2>1 DEF Taken
    <3>2. t # s
      BY <1>5, <3>1 DEF Listen
    <3>3. ~ServersFit(file)
      BY <2>1, <3>1, <3>2 DEF ServersFit, Servers
    <3> QED BY <1>5, <2>1, <3>3 DEF Listen, validate, Expanded, ServersFit
  <2>2. CASE ~(Taken(file.port[s]) /\ s # "pprof")
    BY <1>5, <2>2 DEF Listen, validate, Expanded, Servers
  <2> QED BY <2>1, <2>2
<1>6. CASE Lead
  <2>1. Equipped(file)
    BY <1>6 DEF Lead, Equipped, validate, Required
  <2> QED BY <1>6, <2>1 DEF Lead, validate, Expanded
<1>7. CASE UNCHANGED svars
  BY <1>7 DEF svars, validate, Expanded, ServersFit
<1> QED BY <1>1, <1>2, <1>3, <1>4, <1>5, <1>6, <1>7 DEF SNext

LEMMA SInvariance == SSpec => []SInv
BY InitSInv, NextKeepsSInv, PTL DEF SSpec

(* Every variable keeps its type, and once the process waits its elector   *)
(* and its servers have been started.                                      *)
THEOREM StartupTypeCorrectness == SSpec => []STypeOK
BY SInvariance, PTL DEF SInv

(* Whatever the file, and in whatever order the servers come up and the    *)
(* lease is got: what passes validate has all that RunOrDie and the        *)
(* controller need, and only the paths and ports that validate does not    *)
(* look at can end the process.                                            *)
THEOREM ValidatedFilesRun == SSpec => []ValidFilesRun
<1>1. SInv => ValidFilesRun
  BY DEF SInv, STypeOK, EndedByServers, ValidFilesRun
<1> QED BY <1>1, SInvariance, PTL

-----------------------------------------------------------------------------
(* InformerFactory: its inductive invariant.                               *)

(* An informer was run if and only if it is marked as started, and nothing *)
(* that was not started runs.                                              *)
Marked ==
  \A t \in Types :
    /\ runs[t] = IF t \in startedInformers THEN 1 ELSE 0
    /\ stop[t] # None => t \in startedInformers

(* A call of Shutdown has set the flag before it waits. *)
Flagged ==
  wasDown \/ (\E c \in Callers : call[c] = "Shutdown") => shuttingDown

IInv == ITypeOK /\ Marked /\ Flagged /\ ShutdownIsFinal

LEMMA InitInv == IInit => IInv
<1> SUFFICES ASSUME IInit PROVE IInv
  OBVIOUS
<1>1. ITypeOK BY DEF IInit, ITypeOK
<1>2. Marked /\ ShutdownIsFinal BY DEF IInit, Marked, ShutdownIsFinal, Running
<1>3. Flagged BY DEF IInit, Flagged
<1> QED BY <1>1, <1>2, <1>3 DEF IInv

-----------------------------------------------------------------------------
(* One step of a caller. *)
CallerStep(c) ==
  \/ \E t \in Types : InformerFor(c, t)
  \/ \E channel \in Channels : Start(c, channel) \/ WaitForCacheSync(c, channel)
  \/ Shutdown(c) \/ ShutdownReturns(c) \/ Waited(c) \/ WaitReturns(c)

USE DEF factory, goroutines, calls

(* Start does nothing once the factory shuts down, so a caller that waits  *)
(* in Shutdown meets no informer that is younger than its call.            *)
LEMMA StartKeeps ==
  ASSUME IInv, NEW c \in Callers, NEW channel \in Channels, Start(c, channel)
  PROVE  IInv'
<1> USE FactoryAssumption DEF IInv, ITypeOK, Marked, Flagged, ShutdownIsFinal, Running
<1>1. ITypeOK' BY DEF Start
<1>2. Marked' BY DEF Start
<1>3. Flagged' /\ ShutdownIsFinal' BY DEF Start
<1> QED BY <1>1, <1>2, <1>3

(* The other calls. *)
LEMMA CallerKeeps ==
  ASSUME IInv, NEW c \in Callers, CallerStep(c)
  PROVE  IInv'
<1> USE DEF IInv, ITypeOK, Marked, Flagged, ShutdownIsFinal, Running
<1>1. ASSUME NEW t \in Types, InformerFor(c, t) PROVE IInv'
  BY <1>1 DEF InformerFor
<1>2. ASSUME NEW channel \in Channels, WaitForCacheSync(c, channel) PROVE IInv'
  BY <1>2 DEF WaitForCacheSync
<1>3. CASE Shutdown(c) BY <1>3 DEF Shutdown
<1>4. CASE ShutdownReturns(c) BY <1>4 DEF ShutdownReturns
<1>5. CASE Waited(c) BY <1>5 DEF Waited
<1>6. CASE WaitReturns(c) BY <1>6 DEF WaitReturns
<1> QED BY <1>1, <1>2, <1>3, <1>4, <1>5, <1>6, StartKeeps DEF CallerStep

(* An informer, or whoever closes a channel. *)
LEMMA InformerKeeps ==
  ASSUME IInv,
         \/ \E t \in Types : Listed(t) \/ RunReturns(t)
         \/ \E channel \in Channels : Close(channel)
  PROVE  IInv'
<1> USE FactoryAssumption DEF IInv, ITypeOK, Marked, Flagged, ShutdownIsFinal, Running
<1>1. ASSUME NEW t \in Types, Listed(t) PROVE IInv' BY <1>1 DEF Listed
<1>2. ASSUME NEW t \in Types, RunReturns(t) PROVE IInv'
  <2>1. ITypeOK' BY <1>2 DEF RunReturns
  <2>2. Marked' BY <1>2 DEF RunReturns
  <2>3. Flagged' /\ ShutdownIsFinal' BY <1>2 DEF RunReturns
  <2> QED BY <2>1, <2>2, <2>3
<1>3. ASSUME NEW channel \in Channels, Close(channel) PROVE IInv' BY <1>3 DEF Close
<1> QED BY <1>1, <1>2, <1>3

(* IInv is inductive. *)
LEMMA NextInv == IInv /\ [INext]_ivars => IInv'
<1> SUFFICES ASSUME IInv, [INext]_ivars PROVE IInv'
  OBVIOUS
<1>1. CASE UNCHANGED ivars
  BY <1>1 DEF ivars, IInv, ITypeOK, Marked, Flagged, ShutdownIsFinal, Running
<1>2. CASE INext
  BY <1>2, CallerKeeps, InformerKeeps DEF INext, CallerStep
<1> QED BY <1>1, <1>2

LEMMA FactoryInvariant == ISpec => []IInv
BY InitInv, NextInv, PTL DEF ISpec

-----------------------------------------------------------------------------
(* Every reachable state is well typed: what is waited for was started.    *)
THEOREM FactoryTypeCorrectness == ISpec => []ITypeOK
<1>1. IInv => ITypeOK BY DEF IInv
<1> QED BY <1>1, FactoryInvariant, PTL

(* An informer is run once, however often and by how many callers Start is *)
(* called, before, during and after Shutdown.                              *)
THEOREM InformersRunOnce == ISpec => []RunsOnce
<1>1. IInv => RunsOnce
  <2> SUFFICES ASSUME IInv, NEW t \in Types PROVE runs[t] <= 1
    BY DEF RunsOnce
  <2>1. runs[t] \in {0, 1}
    BY DEF IInv, Marked
  <2> QED BY <2>1
<1> QED BY <1>1, FactoryInvariant, PTL

(* No informer runs once a call of Shutdown has returned. *)
THEOREM ShutdownEndsInformers == ISpec => []ShutdownIsFinal
<1>1. IInv => ShutdownIsFinal BY DEF IInv
<1> QED BY <1>1, FactoryInvariant, PTL
=============================================================================

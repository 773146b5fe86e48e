------------------------------ MODULE Startup ------------------------------
(***************************************************************************)
(* From the configuration file to a running process:                       *)
(* internal/config/config.go and main of cmd/pre-pull-image-controller.    *)
(*                                                                         *)
(* A file is known by what its checks and its uses tell apart: which of    *)
(* the required texts it gives, which of those as $POD_NAME, the quantities*)
(* that parse, the paths and ports of the servers.  A fatal error, a panic *)
(* of any goroutine and os.Exit all end the process.                       *)
(***************************************************************************)
EXTENDS Naturals, FiniteSets

CONSTANTS
  Files,     \* the configuration files
  Paths,     \* the paths that a server may be given, "" among them
  Ports

(* The texts that must not be empty, and the lists of resources. *)
Required == {"instance_id", "lock_name", "lock_namespace", "main.name", "main.image"}
Lists == {"main.limits", "main.requests", "pre_pull.limits", "pre_pull.requests"}

Servers == {"health", "metrics", "pprof"}

File ==
  [known : BOOLEAN, given : SUBSET Required, fromEnv : SUBSET Required,
   parse : SUBSET Lists, workers : {0, 1},
   liveness : Paths, readiness : Paths, metricsPath : Paths,
   enableServerPprof : BOOLEAN, port : [Servers -> Ports]]

ASSUME FilesAssumption == Files \subseteq File

VARIABLES
  file,     \* the configuration file
  podName,  \* is POD_NAME set in the environment?
  main,     \* "parsing", "building", "waiting" or "dead"
  server,   \* [Servers -> {"none", "routing", "listening", "serving", "off"}]
  worker    \* the elector's goroutine: "none", "acquiring" or "leading"

svars == <<file, podName, main, server, worker>>

STypeOK ==
  /\ file \in File /\ podName \in BOOLEAN
  /\ main \in {"parsing", "building", "waiting", "dead"}
  /\ server \in [Servers -> {"none", "routing", "listening", "serving", "off"}]
  /\ worker \in {"none", "acquiring", "leading"}
  /\ main = "waiting" => worker # "none" /\ \A s \in Servers : server[s] # "none"

SInit ==
  /\ file \in Files /\ podName \in BOOLEAN
  /\ main = "parsing"
  /\ server = [s \in Servers |-> "none"]
  /\ worker = "none"

-----------------------------------------------------------------------------
(* os.ExpandEnv replaces a variable that is not set by nothing. *)
Expanded(f) == IF podName THEN f.given ELSE f.given \ f.fromEnv

(* Mutant: the number of workers is not looked at. *)
ValidTexts(f) == Expanded(f) = Required /\ f.parse = Lists

(* The five texts, at least one worker, the four lists of resources. *)
validate(f) ==
  /\ Expanded(f) = Required
  /\ f.workers > 0
  /\ f.parse = Lists

(* A field it does not know, or one that is not valid, ends   *)
(* the process.                                                            *)
ParseConfig ==
  /\ main = "parsing"
  /\ main' = IF file.known /\ validate(file) THEN "building" ELSE "dead"
  /\ UNCHANGED <<file, podName, server, worker>>

(* ToControllerConfig parses the resources for its own use. *)
ToControllerConfig == file.parse = Lists

(* Mutant: the servers are started once the elector has returned. *)
LaunchElector ==
  /\ main = "building"
  /\ main' = IF ToControllerConfig THEN "waiting" ELSE "dead"
  /\ worker' = IF ToControllerConfig THEN "acquiring" ELSE worker
  /\ UNCHANGED <<file, podName, server>>

(* The clients and the controller are built, the goroutines started: the   *)
(* elector, and one for each server.                                       *)
Launch ==
  /\ main = "building"
  /\ IF ToControllerConfig
     THEN /\ main' = "waiting"
          /\ worker' = "acquiring"
          /\ server' = [s \in Servers |->
                          IF s = "pprof" /\ ~file.enableServerPprof THEN "off" ELSE "routing"]
     ELSE main' = "dead" /\ UNCHANGED <<server, worker>>
  /\ UNCHANGED <<file, podName>>

(* No kubeconfig, no service account. *)
NoClient ==
  /\ main = "building"
  /\ main' = "dead"
  /\ UNCHANGED <<file, podName, server, worker>>

Routes(s) ==
  CASE s = "health" -> <<file.liveness, file.readiness>>
    [] s = "metrics" -> <<file.metricsPath>>
    [] s = "pprof" -> <<>>

NoPath == ""

(* ServeMux.Handle panics on an empty pattern and on one it has already. *)
RoutesPanic(s) ==
  \E i \in DOMAIN Routes(s) :
    Routes(s)[i] = NoPath \/ \E j \in DOMAIN Routes(s) : i # j /\ Routes(s)[i] = Routes(s)[j]

(* The patterns are registered, then a goroutine listens. *)
Route(s) ==
  /\ main = "waiting" /\ server[s] = "routing"
  /\ IF RoutesPanic(s)
     THEN main' = "dead" /\ UNCHANGED server
     ELSE server' = [server EXCEPT ![s] = "listening"] /\ UNCHANGED main
  /\ UNCHANGED <<file, podName, worker>>

Taken(port) == \E s \in Servers : server[s] = "serving" /\ file.port[s] = port

(* ListenAndServe: an error is fatal, but for pprof, which is logged. *)
Listen(s) ==
  /\ main = "waiting" /\ server[s] = "listening"
  /\ IF Taken(file.port[s]) /\ s # "pprof"
     THEN main' = "dead" /\ UNCHANGED server
     ELSE /\ server' = [server EXCEPT ![s] = IF Taken(file.port[s]) THEN "off" ELSE "serving"]
          /\ UNCHANGED main
  /\ UNCHANGED <<file, podName, worker>>

(* What leading takes: RunOrDie panics if the identity is empty, and the   *)
(* first event does if there are no queues: getWorkerQueue divides by the  *)
(* number of workers.                                                      *)
Equipped(f) == "instance_id" \in Expanded(f) /\ f.workers > 0

(* The elector gets the lease, perhaps before the servers are there. *)
Lead ==
  /\ main = "waiting" /\ worker = "acquiring"
  /\ worker' = "leading"
  /\ main' = IF Equipped(file) THEN main ELSE "dead"
  /\ UNCHANGED <<file, podName, server>>

SNext ==
  \/ ParseConfig \/ Launch \/ NoClient
  \/ \E s \in Servers : Route(s) \/ Listen(s)
  \/ Lead

SSpec == SInit /\ [][SNext]_svars

(* Goroutines are scheduled; that the lease is free is up to others. *)
SFairness ==
  /\ WF_svars(ParseConfig) /\ WF_svars(Launch)
  /\ \A s \in Servers : WF_svars(Route(s)) /\ WF_svars(Listen(s))

SFairSpec == SSpec /\ SFairness

-----------------------------------------------------------------------------
(* Distinct, non-empty paths and a port for each server: what validate     *)
(* does not look at.                                                       *)
ServersFit(f) ==
  /\ NoPath \notin {f.liveness, f.readiness, f.metricsPath}
  /\ f.liveness # f.readiness
  /\ f.port["health"] # f.port["metrics"]
  /\ f.enableServerPprof => f.port["pprof"] \notin {f.port["health"], f.port["metrics"]}

(* A file that passed validate is good for everything that comes after:    *)
(* once the goroutines run, nothing in the file but the paths and ports of *)
(* the servers can end the process, in whatever order they come up and     *)
(* whether or not it leads.                                                *)
ValidFilesRun == server # [s \in Servers |-> "none"] /\ ServersFit(file) => main # "dead"

(* A process answers the kubelet's probes or ends, whether or not it ever  *)
(* gets the lease: a replica that stands by is alive.                      *)
StandbyAnswers == <>(main = "dead" \/ server["health"] = "serving")
=============================================================================

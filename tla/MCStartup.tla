----------------------------- MODULE MCStartup -----------------------------
(***************************************************************************)
(* Instances of Startup for TLC.  The files vary in the texts, in the      *)
(* workers and resources, or in the servers.                               *)
(***************************************************************************)
EXTENDS Startup

Good ==
  [known |-> TRUE, given |-> Required, fromEnv |-> {"instance_id"},
   parse |-> Lists, workers |-> 1,
   liveness |-> "/alive", readiness |-> "/ready", metricsPath |-> "/metrics",
   enableServerPprof |-> TRUE,
   port |-> [s \in Servers |-> CASE s = "health" -> 8080 [] s = "metrics" -> 9090 [] s = "pprof" -> 8085]]

ByTexts ==
  {[Good EXCEPT !.known = k, !.given = g, !.fromEnv = e] :
     k \in BOOLEAN, g \in SUBSET Required, e \in {{}, {"instance_id"}}}

ByReconciler ==
  {[Good EXCEPT !.parse = p, !.workers = n] : p \in SUBSET Lists, n \in {0, 1}}

ByServers ==
  {[Good EXCEPT !.liveness = l, !.readiness = r, !.metricsPath = m,
                !.enableServerPprof = b, !.port = p] :
     l \in {"", "/alive"}, r \in {"", "/alive", "/ready"}, m \in {"", "/alive"},
     b \in BOOLEAN, p \in [Servers -> {8080, 9090, 8085}]}

SomeFiles == ByTexts \cup ByReconciler \cup ByServers
SomePaths == {"", "/alive", "/ready", "/metrics"}
=============================================================================

--------------------------- MODULE LeaderElection ---------------------------
(***************************************************************************)
(* The life of the controller's processes:                                 *)
(* cmd/pre-pull-image-controller/main.go with internal/health/probe.go and *)
(* PrePullImageController.Run, around the leader election of client-go.    *)
(*                                                                         *)
(* A process runs the elector in one goroutine and, once it leads,         *)
(* OnStartedLeading in another; main waits for the elector and for         *)
(* SIGTERM.  The Lease is an object of the API server: an update of it     *)
(* succeeds only from the version last read.  An elector may take a lease  *)
(* that it has seen unchanged for LeaseDuration on its own clock.          *)
(*                                                                         *)
(* Time passes in units of the RetryPeriod, and timers go off in time:     *)
(* a Tick waits for what is due.                                           *)
(***************************************************************************)
EXTENDS Naturals

CONSTANTS
  Processes,  \* the replicas, each with an InstanceID of its own
  Departed,   \* the InstanceID of a pod that is gone for good
  None,       \* nobody holds the lease
  MaxFaults   \* how often a process dies, is told to stop or is cut off

ASSUME ElectionAssumption ==
  /\ None \notin Processes /\ Departed \notin Processes /\ None # Departed
  /\ MaxFaults \in Nat

(* 60, 15 and 5 seconds. *)
RetryPeriod == 1
RenewDeadline == 3
(* Mutant: the LeaseDuration and the RenewDeadline plus a retry are equal. *)
LeaseOfARenewal == RetryPeriod + RenewDeadline
LeaseDuration == 12

(* wait.Until sleeps for a RetryPeriod after a renewal, then the next one  *)
(* is tried until the RenewDeadline.                                       *)
Patience == RetryPeriod + RenewDeadline

VARIABLES
  main,      \* [Processes -> {"up", "stopping", "down"}]
  elector,   \* [Processes -> ElectorStates]: where RunOrDie is
  run,       \* [Processes -> RunStates]: the goroutine of OnStartedLeading
  ready,     \* the processes whose readiness probe is enabled
  busy,      \* the processes with a worker inside Reconcile
  cut,       \* the processes that cannot reach the API server
  holder,    \* the holderIdentity of the stored lease
  current,   \* the processes whose observed record is the stored one
  age,       \* [Processes -> 0..LeaseDuration]: time since that, while acquiring
  patience,  \* [Processes -> 0..Patience]: time since the last renewal
  faults     \* how many faults there have been

lease == <<holder, current, age, patience>>
process == <<main, elector, run, ready, busy>>
evars == <<process, lease, cut, faults>>

ElectorStates == {"acquiring", "leading", "releasing", "stopping", "returned"}
RunStates == {"none", "enabling", "syncing", "running", "finished"}

ETypeOK ==
  /\ main \in [Processes -> {"up", "stopping", "down"}]
  /\ elector \in [Processes -> ElectorStates]
  /\ run \in [Processes -> RunStates]
  /\ ready \subseteq Processes
  /\ busy \subseteq Processes
  /\ cut \subseteq Processes
  /\ holder \in Processes \cup {Departed, None}
  /\ current \subseteq Processes
  /\ age \in [Processes -> 0..LeaseDuration]
  /\ patience \in [Processes -> 0..Patience]
  /\ faults \in 0..MaxFaults

EInit ==
  /\ main = [p \in Processes |-> "up"]
  /\ elector = [p \in Processes |-> "acquiring"]
  /\ run = [p \in Processes |-> "none"]
  /\ ready = {}
  /\ busy = {}
  /\ cut = {}
  /\ holder = None
  /\ current = {}
  /\ age = [p \in Processes |-> 0]
  /\ patience = [p \in Processes |-> 0]
  /\ faults = 0

Running(p) == main[p] \in {"up", "stopping"}

(* Mutant: Run gets the context of main, not the one of the elector.       *)
CancelledBySignal(p) == main[p] = "stopping"

(* The context that Run and its workers get: derived from the one that     *)
(* SIGTERM cancels, and cancelled when the elector's Run returns.          *)
Cancelled(p) == main[p] = "stopping" \/ elector[p] = "returned"

ElectorGoes(p, to) == elector' = [elector EXCEPT ![p] = to]
RunGoes(p, to) == run' = [run EXCEPT ![p] = to]

-----------------------------------------------------------------------------
(* The elector.                                                            *)

(* Get of the lease, by an elector that has seen another version of it. *)
Observe(p) ==
  /\ Running(p) /\ elector[p] = "acquiring"
  /\ p \notin cut /\ p \notin current
  /\ current' = current \cup {p}
  /\ age' = [age EXCEPT ![p] = 0]
  /\ UNCHANGED <<process, holder, patience, cut, faults>>

(* What the elector may take: a lease nobody holds, its own, or one that   *)
(* it has seen unchanged for LeaseDuration.                                *)
Free(p) == holder \in {None, p} \/ age[p] >= LeaseDuration

(* Update of the lease; the elector whose update is answered leads and     *)
(* starts OnStartedLeading.  The reply may be lost.                        *)
Acquire(p, answered) ==
  /\ Running(p) /\ elector[p] = "acquiring"
  /\ p \in current /\ p \notin cut /\ Free(p)
  /\ holder' = p
  /\ IF answered
     THEN /\ current' = {p}
          /\ age' = [age EXCEPT ![p] = 0]
          /\ patience' = [patience EXCEPT ![p] = 0]
          /\ ElectorGoes(p, "leading") /\ RunGoes(p, "enabling")
          /\ UNCHANGED faults
     ELSE /\ faults < MaxFaults /\ faults' = faults + 1
          /\ current' = {}
          /\ UNCHANGED <<elector, run, age, patience>>
  /\ UNCHANGED <<main, ready, busy, cut>>

(* The leader renews its lease once a RetryPeriod.  If it is cut off, the  *)
(* update may have landed without a reply.                                 *)
Renew(p, answered) ==
  /\ elector[p] = "leading" /\ holder = p
  /\ patience[p] >= RetryPeriod
  /\ answered <=> p \notin cut
  /\ current' = IF answered THEN {p} ELSE {}
  /\ patience' = IF answered THEN [patience EXCEPT ![p] = 0] ELSE patience
  /\ UNCHANGED <<process, holder, age, cut, faults>>

(* The RenewDeadline has passed. *)
GiveUp(p) ==
  /\ elector[p] = "leading" /\ patience[p] = Patience
  /\ ElectorGoes(p, "releasing")
  /\ UNCHANGED <<main, run, ready, busy, lease, cut, faults>>

(* The context is done: an elector that leads releases the lease first     *)
(* (ReleaseOnCancel), one that waits for it returns.                       *)
Interrupted(p) ==
  /\ main[p] = "stopping" /\ elector[p] \in {"acquiring", "leading"}
  /\ ElectorGoes(p, IF elector[p] = "leading" THEN "releasing" ELSE "stopping")
  /\ UNCHANGED <<main, run, ready, busy, lease, cut, faults>>

(* Mutant: the release is written whatever is stored.                      *)
ReleasesBlindly(p) == p \notin cut

(* The release is an update from the version last read. *)
Releases(p) == p \in current /\ p \notin cut

(* release: the lease gets no holder, if the update succeeds. *)
Release(p) ==
  /\ elector[p] = "releasing"
  /\ holder' = IF Releases(p) THEN None ELSE holder
  /\ current' = IF Releases(p) THEN {p} ELSE current
  /\ ElectorGoes(p, "stopping")
  /\ UNCHANGED <<main, run, ready, busy, age, patience, cut, faults>>

(* Mutant: main starts the elector anew, Run still working.                *)
StoppedAndBack(p) ==
  /\ elector[p] = "stopping"
  /\ ElectorGoes(p, "acquiring")
  /\ ready' = ready \ {p}
  /\ UNCHANGED <<main, run, busy, lease, cut, faults>>

(* The elector's Run cancels the context of the leader and calls           *)
(* OnStoppedLeading, which disables the readiness probe; also if it never  *)
(* led.  Nobody calls it again.                                            *)
Stopped(p) ==
  /\ elector[p] = "stopping"
  /\ ElectorGoes(p, "returned")
  /\ ready' = ready \ {p}
  /\ UNCHANGED <<main, run, busy, lease, cut, faults>>

-----------------------------------------------------------------------------
(* OnStartedLeading and PrePullImageController.Run.                        *)

(* Mutant: the informers are started first and the probe is not enabled. *)
EnableNever(p) ==
  /\ run[p] = "enabling"
  /\ RunGoes(p, "syncing")
  /\ UNCHANGED <<main, elector, ready, busy, lease, cut, faults>>

(* Readiness.Enable, in a goroutine of its own: perhaps after Stopped.     *)
Enable(p) ==
  /\ run[p] = "enabling"
  /\ ready' = ready \cup {p}
  /\ RunGoes(p, "syncing")
  /\ UNCHANGED <<main, elector, busy, lease, cut, faults>>

(* WaitForCacheSync returns: the informers have listed, or the context is  *)
(* done and Run returns.                                                   *)
CacheSynced(p) ==
  /\ run[p] = "syncing"
  /\ \/ p \notin cut /\ ~Cancelled(p) /\ RunGoes(p, "running")
     \/ Cancelled(p) /\ RunGoes(p, "finished")
  /\ UNCHANGED <<main, elector, ready, busy, lease, cut, faults>>

(* A worker takes a request and calls Reconcile.  One that does so after   *)
(* the context is done makes no call that takes effect, and is left out.   *)
Work(p) ==
  /\ run[p] = "running" /\ p \notin busy /\ ~Cancelled(p)
  /\ busy' = busy \cup {p}
  /\ UNCHANGED <<main, elector, run, ready, lease, cut, faults>>

WorkDone(p) ==
  /\ p \in busy
  /\ busy' = busy \ {p}
  /\ UNCHANGED <<main, elector, run, ready, lease, cut, faults>>

(* The queues are shut down, the workers have returned, and so does Run. *)
Drained(p) ==
  /\ run[p] = "running" /\ Cancelled(p) /\ p \notin busy
  /\ RunGoes(p, "finished")
  /\ UNCHANGED <<main, elector, ready, busy, lease, cut, faults>>

-----------------------------------------------------------------------------
(* main, the signals and the network.                                      *)

Fault == faults < MaxFaults /\ faults' = faults + 1

(* SIGTERM: the kubelet takes the pod away. *)
Terminate(p) ==
  /\ Fault /\ main[p] = "up"
  /\ main' = [main EXCEPT ![p] = "stopping"]
  /\ UNCHANGED <<elector, run, ready, busy, lease, cut>>

(* What a process leaves behind is the lease.  A pod that is told to stop  *)
(* is replaced by one with another InstanceID.                             *)
Ends(p) ==
  /\ main' = [main EXCEPT ![p] = "down"]
  /\ elector' = [elector EXCEPT ![p] = "acquiring"]
  /\ run' = [run EXCEPT ![p] = "none"]
  /\ ready' = ready \ {p}
  /\ busy' = busy \ {p}
  /\ holder' = IF holder = p /\ main[p] = "stopping" THEN Departed ELSE holder
  /\ current' = current \ {p}
  /\ age' = [age EXCEPT ![p] = 0]
  /\ patience' = [patience EXCEPT ![p] = 0]
  /\ UNCHANGED cut

(* The goroutines main waits for have returned: the elector and the        *)
(* servers.  It does not wait for Run.                                     *)
Exit(p) ==
  /\ main[p] = "stopping" /\ elector[p] = "returned"
  /\ Ends(p)
  /\ UNCHANGED faults

(* The process is killed. *)
Crash(p) == Fault /\ Running(p) /\ Ends(p)

(* The container starts anew, in the same pod and so with its InstanceID,  *)
(* or the Deployment replaces the pod.  The liveness probe, which never    *)
(* fails, starts nothing.                                                  *)
Boot(p) ==
  /\ main[p] = "down"
  /\ main' = [main EXCEPT ![p] = "up"]
  /\ UNCHANGED <<elector, run, ready, busy, lease, cut, faults>>

CutOff(p) ==
  /\ Fault /\ p \notin cut
  /\ cut' = cut \cup {p}
  /\ UNCHANGED <<process, lease>>

Heal(p) ==
  /\ p \in cut
  /\ cut' = cut \ {p}
  /\ UNCHANGED <<process, lease, faults>>

(* Mutant: the attempts to renew go on without a deadline.                 *)
DueRenewal(p) ==
  elector[p] = "leading" /\ patience[p] >= RetryPeriod /\ holder = p /\ p \notin cut

(* Due before time goes on: the renewal of a leader that can make it, and  *)
(* the end of one whose deadline has passed.                               *)
Due(p) ==
  /\ elector[p] = "leading"
  /\ \/ patience[p] = Patience
     \/ patience[p] >= RetryPeriod /\ holder = p /\ p \notin cut

Tick ==
  /\ \A p \in Processes : ~Due(p)
  /\ age' = [p \in Processes |->
               IF p \in current /\ elector[p] = "acquiring"
               THEN IF age[p] < LeaseDuration THEN age[p] + 1 ELSE age[p]
               ELSE 0]
  /\ patience' = [p \in Processes |->
                    IF elector[p] = "leading" THEN patience[p] + 1 ELSE 0]
  /\ UNCHANGED <<process, holder, current, cut, faults>>

-----------------------------------------------------------------------------
ENext ==
  \/ \E p \in Processes :
       \/ Observe(p) \/ Acquire(p, TRUE) \/ Acquire(p, FALSE)
       \/ Renew(p, TRUE) \/ Renew(p, FALSE)
       \/ GiveUp(p) \/ Interrupted(p) \/ Release(p) \/ Stopped(p)
       \/ Enable(p) \/ CacheSynced(p) \/ Work(p) \/ WorkDone(p) \/ Drained(p)
       \/ Terminate(p) \/ Exit(p) \/ Crash(p) \/ Boot(p) \/ CutOff(p) \/ Heal(p)
  \/ Tick

ESpec == EInit /\ [][ENext]_evars

(* Goroutines are scheduled, timers go off, containers are started again   *)
(* and the network heals; that a worker gets work is up to the users.      *)
EFairness ==
  /\ WF_evars(Tick)
  /\ \A p \in Processes :
       /\ WF_evars(Observe(p)) /\ WF_evars(Acquire(p, TRUE)) /\ WF_evars(Renew(p, TRUE))
       /\ WF_evars(GiveUp(p)) /\ WF_evars(Interrupted(p))
       /\ WF_evars(Release(p)) /\ WF_evars(Stopped(p))
       /\ WF_evars(Enable(p)) /\ WF_evars(CacheSynced(p))
       /\ WF_evars(WorkDone(p)) /\ WF_evars(Drained(p))
       /\ WF_evars(Exit(p)) /\ WF_evars(Boot(p)) /\ WF_evars(Heal(p))

EFairSpec == ESpec /\ EFairness

-----------------------------------------------------------------------------
(* What the processes promise.                                             *)

Leading(p) == elector[p] = "leading"

(* No two processes believe at once that they lead: not after a crash and  *)
(* a restart with the same identity, not when one is cut off, a renewal    *)
(* lands without a reply or a late release meets a new holder.             *)
OneLeads == \A p, q \in Processes : Leading(p) /\ Leading(q) => p = q

(* The leader keeps the lease as long as it leads, and nobody else can     *)
(* think it expired: whoever has seen its last renewal has not waited      *)
(* longer than the leader has been trying to renew it.                     *)
LeaderIsSafe ==
  \A p \in Processes : Leading(p) =>
    /\ holder = p
    /\ \A q \in current \ {p} : age[q] <= patience[p]

(* The leader as the callbacks tell, and the processes that may work. *)
Leader == IF \E p \in Processes : Leading(p) THEN CHOOSE p \in Processes : Leading(p) ELSE None
MayWork == {p \in Processes : run[p] \notin {"none", "finished"} /\ ~Cancelled(p)}

Callbacks == INSTANCE Leadership WITH leader <- Leader, mayWork <- MayWork

(* The election keeps the promise of Leadership: OnStartedLeading is       *)
(* called for one process at a time and once in the life of a process, and *)
(* its context ends for good, whatever happens to the lease in between.    *)
ImplementsLeadership == Callbacks!LSpec

(* The probe as the kubelet sees it: ServeHTTP. *)
Answer(p) == IF p \in ready THEN 200 ELSE 503

Serving(p) == Leading(p) /\ run[p] = "running" /\ Answer(p) = 200

(* However a leader is lost, some process leads again, with its workers    *)
(* running and its readiness probe enabled, time and again: unless every   *)
(* replica has held the lease and lost it, for main does not start the     *)
(* elector anew and the liveness probe goes on to answer 200.              *)
SomeoneServesUntilAllReturned ==
  \/ []<>(\E p \in Processes : Serving(p))
  \/ <>[](\A p \in Processes : elector[p] = "returned")

(* What the operator's promise takes ("This operator automatically will    *)
(* create a DaemonSet", README.md:44): false, for the proviso of           *)
(* SomeoneServesUntilAllReturned can come true.                            *)
SomeoneServes == []<>(\E p \in Processes : Serving(p))

(* A process whose context is done stops working, and one that is told to  *)
(* stop ends: neither the lease, nor a cut, nor a worker keeps it.         *)
WorkStops ==
  \A p \in Processes :
    /\ elector[p] = "returned" ~> (p \notin busy /\ run[p] \in {"none", "finished"})
    /\ main[p] = "stopping" ~> main[p] = "down"
=============================================================================

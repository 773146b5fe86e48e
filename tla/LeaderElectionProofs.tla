------------------------ MODULE LeaderElectionProofs ------------------------
(***************************************************************************)
(* Theorems about LeaderElection, for any set of processes and any number  *)
(* of faults: that two processes never lead at once, and that the election *)
(* implements Leadership.                                                  *)
(***************************************************************************)
EXTENDS LeaderElection, TLAPS

(* A releasing process whose last read of the lease is current holds it,   *)
(* so that its release never takes the lease from a new leader.            *)
ReleasesItsOwn ==
  \A p \in Processes : elector[p] = "releasing" /\ p \in current => holder = p

(* A process that may be elected has not called OnStartedLeading in this   *)
(* life, and one that is down has no elector.                              *)
Fresh ==
  \A p \in Processes :
    /\ elector[p] = "acquiring" => run[p] = "none"
    /\ main[p] = "down" => elector[p] = "acquiring"

EInv == ETypeOK /\ LeaderIsSafe /\ ReleasesItsOwn /\ Fresh

-----------------------------------------------------------------------------
(* One step of one process, by the code it belongs to.                     *)
ElectorStep(p) ==
  \/ Observe(p) \/ Acquire(p, TRUE) \/ Acquire(p, FALSE)
  \/ Renew(p, TRUE) \/ Renew(p, FALSE)
  \/ GiveUp(p) \/ Interrupted(p) \/ Release(p) \/ Stopped(p)
RunStep(p) ==
  Enable(p) \/ CacheSynced(p) \/ Work(p) \/ WorkDone(p) \/ Drained(p)
LifeStep(p) ==
  Terminate(p) \/ Exit(p) \/ Crash(p) \/ Boot(p) \/ CutOff(p) \/ Heal(p)

LEMMA Steps ==
  ENext <=> Tick \/ \E p \in Processes : ElectorStep(p) \/ RunStep(p) \/ LifeStep(p)
BY DEF ENext, ElectorStep, RunStep, LifeStep

USE DEF RetryPeriod, RenewDeadline, LeaseDuration, Patience

(* The initial state is a good one. *)
LEMMA InitGood == EInit => EInv
BY ElectionAssumption
   DEF EInit, EInv, ETypeOK, LeaderIsSafe, ReleasesItsOwn, Fresh, Leading,
       ElectorStates, RunStates

(* The elector keeps the types. *)
LEMMA ElectorTypes ==
  ASSUME ETypeOK, NEW p \in Processes, ElectorStep(p)
  PROVE  ETypeOK'
<1> USE ElectionAssumption DEF ETypeOK, ElectorStates, RunStates, ElectorGoes, RunGoes, process, lease
<1>1. CASE Observe(p) BY <1>1 DEF Observe
<1>2. CASE Acquire(p, TRUE) BY <1>2 DEF Acquire
<1>3. CASE Acquire(p, FALSE) BY <1>3 DEF Acquire
<1>4. CASE Renew(p, TRUE) BY <1>4 DEF Renew
<1>5. CASE Renew(p, FALSE) BY <1>5 DEF Renew
<1>6. CASE GiveUp(p) BY <1>6 DEF GiveUp
<1>7. CASE Interrupted(p) BY <1>7 DEF Interrupted
<1>8. CASE Release(p) BY <1>8 DEF Release
<1>9. CASE Stopped(p) BY <1>9 DEF Stopped
<1> QED BY <1>1, <1>2, <1>3, <1>4, <1>5, <1>6, <1>7, <1>8, <1>9 DEF ElectorStep

(* So does OnStartedLeading. *)
LEMMA RunTypes ==
  ASSUME ETypeOK, NEW p \in Processes, RunStep(p)
  PROVE  ETypeOK'
<1> USE DEF ETypeOK, ElectorStates, RunStates, RunGoes, process, lease
<1>1. CASE Enable(p) BY <1>1 DEF Enable
<1>2. CASE CacheSynced(p) BY <1>2 DEF CacheSynced
<1>3. CASE Work(p) BY <1>3 DEF Work
<1>4. CASE WorkDone(p) BY <1>4 DEF WorkDone
<1>5. CASE Drained(p) BY <1>5 DEF Drained
<1> QED BY <1>1, <1>2, <1>3, <1>4, <1>5 DEF RunStep

(* So do the signals, the kubelet and the network. *)
LEMMA LifeTypes ==
  ASSUME ETypeOK, NEW p \in Processes, LifeStep(p)
  PROVE  ETypeOK'
<1> USE ElectionAssumption DEF ETypeOK, ElectorStates, RunStates, Fault, process, lease
<1>1. CASE Terminate(p) BY <1>1 DEF Terminate
<1>2. CASE Exit(p) BY <1>2 DEF Exit, Ends
<1>3. CASE Crash(p) BY <1>3 DEF Crash, Ends
<1>4. CASE Boot(p) BY <1>4 DEF Boot
<1>5. CASE CutOff(p) BY <1>5 DEF CutOff
<1>6. CASE Heal(p) BY <1>6 DEF Heal
<1> QED BY <1>1, <1>2, <1>3, <1>4, <1>5, <1>6 DEF LifeStep

(* A renewal that is due waits for no Tick, so patience is bounded. *)
LEMMA TickTypes ==
  ASSUME ETypeOK, Tick
  PROVE  ETypeOK'
BY DEF ETypeOK, Tick, Due, process, ElectorStates, RunStates

-----------------------------------------------------------------------------
(* The election of a process: nobody else leads, for whoever does holds    *)
(* the lease and has been trying to renew it for less time than it takes   *)
(* to expire.                                                              *)
LEMMA NobodyElseLeads ==
  ASSUME ETypeOK, LeaderIsSafe, NEW p \in Processes, NEW answered,
         Acquire(p, answered)
  PROVE  \A q \in Processes : ~Leading(q)
<1> SUFFICES ASSUME NEW q \in Processes, Leading(q) PROVE FALSE
  OBVIOUS
<1>1. p # q /\ p \in current \ {q}
  BY DEF Acquire, Leading
<1>2. holder = q /\ age[p] <= patience[q]
  BY <1>1 DEF LeaderIsSafe
<1>3. age[p] >= 12
  BY <1>1, <1>2, ElectionAssumption DEF Acquire, Free
<1>4. patience[q] \in 0..4 /\ age[p] \in 0..12
  BY DEF ETypeOK
<1> QED BY <1>2, <1>3, <1>4

(* Each step keeps the leader safe.                                        *)
LEMMA ElectorSafe ==
  ASSUME EInv, NEW p \in Processes, ElectorStep(p)
  PROVE  LeaderIsSafe' /\ ReleasesItsOwn'
<1> USE DEF EInv, ETypeOK, LeaderIsSafe, ReleasesItsOwn, Leading, ElectorGoes, RunGoes,
            process, lease
<1>1. CASE Observe(p) BY <1>1 DEF Observe
<1>2. CASE Acquire(p, TRUE) BY <1>2, NobodyElseLeads DEF Acquire
<1>3. CASE Acquire(p, FALSE) BY <1>3, NobodyElseLeads DEF Acquire
<1>4. CASE Renew(p, TRUE) BY <1>4 DEF Renew
<1>5. CASE Renew(p, FALSE) BY <1>5 DEF Renew
<1>6. CASE GiveUp(p) BY <1>6 DEF GiveUp
<1>7. CASE Interrupted(p) BY <1>7 DEF Interrupted
<1>8. CASE Release(p) BY <1>8 DEF Release, Releases
<1>9. CASE Stopped(p) BY <1>9 DEF Stopped
<1> QED BY <1>1, <1>2, <1>3, <1>4, <1>5, <1>6, <1>7, <1>8, <1>9 DEF ElectorStep

(* The other steps but Tick leave the lease and the elector of everyone    *)
(* else alone.                                                             *)
LEMMA LifeSafe ==
  ASSUME EInv, NEW p \in Processes, RunStep(p) \/ LifeStep(p)
  PROVE  LeaderIsSafe' /\ ReleasesItsOwn'
<1> USE DEF EInv, ETypeOK, LeaderIsSafe, ReleasesItsOwn, Leading, process, lease
<1>1. CASE RunStep(p)
  BY <1>1 DEF RunStep, Enable, CacheSynced, Work, WorkDone, Drained
<1>2. CASE Terminate(p) \/ Boot(p) \/ CutOff(p) \/ Heal(p)
  BY <1>2 DEF Terminate, Boot, CutOff, Heal
<1>3. CASE Exit(p) BY <1>3, ElectionAssumption DEF Exit, Ends
<1>4. CASE Crash(p) BY <1>4, ElectionAssumption DEF Crash, Ends
<1> QED BY <1>1, <1>2, <1>3, <1>4 DEF LifeStep

(* Time passes for those who wait as it does for the leader. *)
LEMMA TickSafe ==
  ASSUME EInv, Tick
  PROVE  LeaderIsSafe' /\ ReleasesItsOwn'
<1> USE DEF EInv, ETypeOK, process
<1>1. ASSUME NEW p \in Processes, Leading(p), NEW q \in current \ {p}
      PROVE  age'[q] <= patience'[p]
  <2>1. patience'[p] = patience[p] + 1
    BY <1>1 DEF Tick, Leading
  <2>2. q \in Processes /\ age[q] \in 0..12 /\ patience[p] \in 0..4
    BY <1>1
  <2>3. age'[q] <= age[q] + 1
    BY <2>2 DEF Tick
  <2>4. age[q] <= patience[p]
    BY <1>1 DEF LeaderIsSafe
  <2>5. age'[q] \in 0..12
    BY <2>2, TickTypes
  <2> QED BY <2>1, <2>2, <2>3, <2>4, <2>5
<1> QED BY <1>1 DEF Tick, LeaderIsSafe, ReleasesItsOwn, Leading

(* A process starts its goroutine when it is elected, and no sooner. *)
LEMMA StaysFresh ==
  ASSUME EInv, NEW p \in Processes, ElectorStep(p) \/ RunStep(p) \/ LifeStep(p)
  PROVE  Fresh'
<1> USE DEF EInv, ETypeOK, Fresh, ElectorGoes, RunGoes, process, lease
<1>1. CASE Observe(p) \/ Renew(p, TRUE) \/ Renew(p, FALSE) \/ Acquire(p, FALSE)
  BY <1>1 DEF Observe, Renew, Acquire
<1>2. CASE Acquire(p, TRUE) BY <1>2 DEF Acquire, Running
<1>3. CASE GiveUp(p) \/ Interrupted(p) \/ Release(p) \/ Stopped(p)
  BY <1>3 DEF GiveUp, Interrupted, Release, Stopped
<1>4. CASE RunStep(p)
  BY <1>4 DEF RunStep, Enable, CacheSynced, Work, WorkDone, Drained
<1>5. CASE Terminate(p) \/ Boot(p) \/ CutOff(p) \/ Heal(p)
  BY <1>5 DEF Terminate, Boot, CutOff, Heal
<1>6. CASE Exit(p) \/ Crash(p) BY <1>6 DEF Exit, Crash, Ends
<1> QED BY <1>1, <1>2, <1>3, <1>4, <1>5, <1>6 DEF ElectorStep, LifeStep

(* EInv is inductive. *)
LEMMA StepGood ==
  ASSUME EInv, [ENext]_evars
  PROVE  EInv'
<1>1. CASE Tick
  <2>1. Fresh'
    BY <1>1 DEF EInv, Fresh, Tick, process
  <2> QED BY <1>1, <2>1, TickTypes, TickSafe DEF EInv
<1>2. ASSUME NEW p \in Processes, ElectorStep(p) \/ RunStep(p) \/ LifeStep(p)
      PROVE  EInv'
  BY <1>2, ElectorTypes, RunTypes, LifeTypes, ElectorSafe, LifeSafe, StaysFresh DEF EInv
<1>3. CASE UNCHANGED evars
  BY <1>3 DEF evars, process, lease, EInv, ETypeOK, LeaderIsSafe, ReleasesItsOwn, Fresh, Leading
<1> QED BY <1>1, <1>2, <1>3, Steps

(* The inductive invariant. *)
LEMMA Good == ESpec => []EInv
BY InitGood, StepGood, PTL DEF ESpec

(* Every reachable state is well typed: no elector waits longer than its   *)
(* RenewDeadline.                                                          *)
THEOREM ElectionTypeCorrectness == ESpec => []ETypeOK
<1>1. EInv => ETypeOK BY DEF EInv
<1> QED BY <1>1, Good, PTL

(* For any number of processes and faults, whoever leads holds the lease   *)
(* and nobody can think it expired.                                        *)
THEOREM LeadersAreSafe == ESpec => []LeaderIsSafe
<1>1. EInv => LeaderIsSafe BY DEF EInv
<1> QED BY <1>1, Good, PTL

(* Two processes never lead at once: both would hold the lease. *)
THEOREM AtMostOneLeads == ESpec => []OneLeads
<1>1. EInv => OneLeads BY DEF EInv, LeaderIsSafe, OneLeads
<1> QED BY <1>1, Good, PTL

-----------------------------------------------------------------------------
(* The refinement of Leadership.                                           *)

(* The leader, of the electors e. *)
LeaderOf(e) ==
  IF \E p \in Processes : e[p] = "leading"
  THEN CHOOSE p \in Processes : e[p] = "leading" ELSE None

LEMMA LeaderIs ==
  ASSUME NEW e, NEW p \in Processes, e[p] = "leading",
         \A q \in Processes : e[q] = "leading" => q = p
  PROVE  LeaderOf(e) = p
BY DEF LeaderOf

LEMMA NoLeader ==
  ASSUME NEW e, \A q \in Processes : e[q] # "leading"
  PROVE  LeaderOf(e) = None
BY DEF LeaderOf

(* As long as the same processes lead, the leader stays. *)
LEMMA SameLeader ==
  ASSUME EInv, \A q \in Processes : elector'[q] = "leading" <=> elector[q] = "leading"
  PROVE  Leader' = Leader
<1>1. Leader = LeaderOf(elector) /\ Leader' = LeaderOf(elector')
  BY DEF Leader, LeaderOf, Leading
<1>2. CASE \E p \in Processes : elector[p] = "leading"
  <2>1. PICK p \in Processes : elector[p] = "leading"
    BY <1>2
  <2>2. \A q \in Processes : elector[q] = "leading" => q = p
    BY <2>1 DEF EInv, LeaderIsSafe, Leading
  <2>3. LeaderOf(elector) = p
    BY <2>1, <2>2, LeaderIs
  <2>4. LeaderOf(elector') = p
    BY <2>1, <2>2, LeaderIs
  <2> QED BY <1>1, <2>3, <2>4
<1>3. CASE \A p \in Processes : elector[p] # "leading"
  BY <1>1, <1>3, NoLeader
<1> QED BY <1>2, <1>3

(* Who may work, by process. *)
Works(p) == run[p] \notin {"none", "finished"} /\ ~Cancelled(p)

LEMMA SameWork ==
  ASSUME \A q \in Processes : Works(q)' <=> Works(q)
  PROVE  MayWork' = MayWork
BY DEF MayWork, Works

(* The steps that the abstraction does not see. *)
LEMMA Unseen ==
  ASSUME EInv, NEW p \in Processes,
         \/ Observe(p) \/ Acquire(p, FALSE) \/ Renew(p, TRUE) \/ Renew(p, FALSE)
         \/ Release(p) \/ RunStep(p) \/ Boot(p) \/ CutOff(p) \/ Heal(p) \/ Tick
  PROVE  UNCHANGED <<Leader, MayWork>>
<1> USE DEF EInv, ETypeOK, Works, Cancelled, process, lease, ElectorGoes, RunGoes
<1>1. CASE Observe(p) \/ Acquire(p, FALSE) \/ Renew(p, TRUE) \/ Renew(p, FALSE) \/ Tick
  <2>1. elector' = elector /\ run' = run /\ main' = main
    BY <1>1 DEF Observe, Acquire, Renew, Tick
  <2> QED BY <2>1, SameLeader, SameWork
<1>2. CASE Release(p)
  <2>1. \A q \in Processes : elector'[q] = "leading" <=> elector[q] = "leading"
    BY <1>2 DEF Release
  <2>2. \A q \in Processes : Works(q)' <=> Works(q)
    BY <1>2 DEF Release
  <2> QED BY <2>1, <2>2, SameLeader, SameWork
<1>3. CASE RunStep(p)
  <2>1. elector' = elector /\ main' = main
    BY <1>3 DEF RunStep, Enable, CacheSynced, Work, WorkDone, Drained
  <2>2. \A q \in Processes : Works(q)' <=> Works(q)
    BY <1>3 DEF RunStep, Enable, CacheSynced, Work, WorkDone, Drained, RunStates
  <2> QED BY <2>1, <2>2, SameLeader, SameWork
<1>4. CASE Boot(p) \/ CutOff(p) \/ Heal(p)
  <2>1. elector' = elector
    BY <1>4 DEF Boot, CutOff, Heal
  <2>2. \A q \in Processes : Works(q)' <=> Works(q)
    BY <1>4 DEF Boot, CutOff, Heal, Fresh
  <2> QED BY <2>1, <2>2, SameLeader, SameWork
<1> QED BY <1>1, <1>2, <1>3, <1>4

(* The election. *)
LEMMA AcquireElects ==
  ASSUME EInv, NEW p \in Processes, Acquire(p, TRUE)
  PROVE  Callbacks!Elect(p)
<1>1. \A q \in Processes : elector[q] # "leading"
  BY NobodyElseLeads DEF EInv, Leading
<1>2. Leader = None
  BY <1>1, NoLeader DEF Leader, LeaderOf, Leading
<1>3. p \notin MayWork
  BY DEF EInv, Fresh, Acquire, MayWork
<1>4. elector' = [elector EXCEPT ![p] = "leading"] /\ run' = [run EXCEPT ![p] = "enabling"]
      /\ main' = main
  BY DEF Acquire, ElectorGoes, RunGoes
<1>5. Leader' = p
  <2>1. elector'[p] = "leading" /\ \A q \in Processes : elector'[q] = "leading" => q = p
    BY <1>1, <1>4 DEF EInv, ETypeOK
  <2>2. LeaderOf(elector') = p
    BY <2>1, LeaderIs
  <2> QED BY <2>2 DEF Leader, LeaderOf, Leading
<1>6. \A q \in Processes \ {p} : Works(q)' <=> Works(q)
  BY <1>4 DEF EInv, ETypeOK, Works, Cancelled
<1>7. MayWork' \in {MayWork, MayWork \cup {p}}
  <2>1. MayWork' \ {p} = MayWork
    BY <1>3, <1>6 DEF MayWork, Works
  <2> QED BY <2>1
<1> QED BY <1>2, <1>3, <1>5, <1>7 DEF Callbacks!Elect

(* A leader that gives up, or is told to, is deposed. *)
LEMMA GiveUpDeposes ==
  ASSUME EInv, NEW p \in Processes, GiveUp(p) \/ Interrupted(p)
  PROVE  Callbacks!Depose(p) \/ UNCHANGED <<Leader, MayWork>>
<1>1. /\ run' = run /\ main' = main
      /\ elector'[p] \in {"releasing", "stopping"} /\ elector[p] \in {"acquiring", "leading"}
      /\ \A q \in Processes \ {p} : elector'[q] = elector[q]
  BY DEF GiveUp, Interrupted, ElectorGoes, EInv, ETypeOK
<1>2. MayWork' = MayWork
  <2>1. \A q \in Processes : Works(q)' <=> Works(q)
    BY <1>1 DEF Works, Cancelled
  <2> QED BY <2>1, SameWork
<1>3. CASE elector[p] = "leading"
  <2>1. \A q \in Processes : elector[q] = "leading" => q = p
    BY <1>3 DEF EInv, LeaderIsSafe, Leading
  <2>2. LeaderOf(elector) = p
    BY <1>3, <2>1, LeaderIs
  <2>3. \A q \in Processes : elector'[q] # "leading"
    BY <1>1, <2>1
  <2>4. LeaderOf(elector') = None
    BY <2>3, NoLeader
  <2> QED BY <1>2, <2>2, <2>4 DEF Callbacks!Depose, Leader, LeaderOf, Leading
<1>4. CASE elector[p] = "acquiring"
  BY <1>1, <1>2, <1>4, SameLeader
<1> QED BY <1>1, <1>3, <1>4

(* OnStoppedLeading, or SIGTERM, cancels the context. *)
LEMMA StoppedCancels ==
  ASSUME EInv, NEW p \in Processes, Stopped(p) \/ Terminate(p)
  PROVE  Callbacks!Cancel(p) \/ UNCHANGED <<Leader, MayWork>>
<1> USE DEF EInv, ETypeOK, Stopped, Terminate, ElectorGoes
<1>1. \A q \in Processes : elector'[q] = "leading" <=> elector[q] = "leading"
  OBVIOUS
<1>2. Leader' = Leader
  BY <1>1, SameLeader
<1>3. \A q \in Processes \ {p} : Works(q)' <=> Works(q)
  BY DEF Works, Cancelled
<1>4. ~Works(p)'
  BY DEF Works, Cancelled
<1>5. MayWork' = MayWork \ {p}
  BY <1>3, <1>4 DEF MayWork, Works
<1> QED BY <1>2, <1>5 DEF Callbacks!Cancel

(* A process that ends is gone for the others too. *)
LEMMA EndsDie ==
  ASSUME EInv, NEW p \in Processes, Exit(p) \/ Crash(p)
  PROVE  Callbacks!Die(p) \/ UNCHANGED <<Leader, MayWork>>
<1>1. Ends(p)
  BY DEF Exit, Crash
<1>2. /\ elector'[p] = "acquiring" /\ run'[p] = "none"
      /\ \A q \in Processes \ {p} :
           elector'[q] = elector[q] /\ run'[q] = run[q] /\ main'[q] = main[q]
  BY <1>1 DEF Ends, EInv, ETypeOK
<1>3. \A q \in Processes \ {p} : Works(q)' <=> Works(q)
  BY <1>2 DEF Works, Cancelled
<1>4. MayWork' = MayWork \ {p}
  BY <1>2, <1>3 DEF MayWork, Works
<1>5. CASE elector[p] = "leading"
  <2>1. \A q \in Processes : elector[q] = "leading" => q = p
    BY <1>5 DEF EInv, LeaderIsSafe, Leading
  <2>2. LeaderOf(elector) = p
    BY <1>5, <2>1, LeaderIs
  <2>3. \A q \in Processes : elector'[q] # "leading"
    BY <1>2, <2>1
  <2>4. LeaderOf(elector') = None
    BY <2>3, NoLeader
  <2> QED BY <1>4, <2>2, <2>4 DEF Callbacks!Die, Leader, LeaderOf, Leading
<1>6. CASE elector[p] # "leading"
  <2>1. Leader' = Leader
    BY <1>2, <1>6, SameLeader
  <2>2. Leader # p
    <3>1. CASE \E q \in Processes : elector[q] = "leading"
      BY <1>6, <3>1 DEF Leader, Leading
    <3>2. CASE \A q \in Processes : elector[q] # "leading"
      BY <3>2, NoLeader, ElectionAssumption DEF Leader, LeaderOf, Leading
    <3> QED BY <3>1, <3>2
  <2> QED BY <1>4, <2>1, <2>2 DEF Callbacks!Die
<1> QED BY <1>5, <1>6

(* For any number of processes and faults the election keeps the promise   *)
(* of Leadership, by which Failover runs the reconciler: OnStartedLeading  *)
(* is called for one process at a time and once in the life of a process,  *)
(* and its context ends for good.                                          *)
THEOREM ElectionImplementsLeadership == ESpec => ImplementsLeadership
<1>1. EInit => Callbacks!LInit
  <2> SUFFICES ASSUME EInit PROVE Leader = None /\ MayWork = {}
    BY DEF Callbacks!LInit
  <2>1. \A p \in Processes : elector[p] # "leading" /\ run[p] = "none"
    BY DEF EInit
  <2>2. LeaderOf(elector) = None
    BY <2>1, NoLeader
  <2> QED BY <2>1, <2>2 DEF Leader, LeaderOf, Leading, MayWork
<1>2. EInv /\ [ENext]_evars => [Callbacks!LNext]_(Callbacks!lvars)
  <2> SUFFICES ASSUME EInv, [ENext]_evars
               PROVE  Callbacks!LNext \/ UNCHANGED <<Leader, MayWork>>
    BY DEF Callbacks!lvars
  <2>1. CASE UNCHANGED evars
    BY <2>1 DEF evars, process, Leader, Leading, MayWork, Cancelled
  <2>2. CASE Tick
    <3>1. CASE Processes = {}
      BY <2>2, <3>1 DEF Leader, MayWork
    <3>2. CASE \E p \in Processes : TRUE
      BY <2>2, <3>2, Unseen
    <3> QED BY <3>1, <3>2
  <2>3. ASSUME NEW p \in Processes, ElectorStep(p) \/ RunStep(p) \/ LifeStep(p)
        PROVE  Callbacks!LNext \/ UNCHANGED <<Leader, MayWork>>
    BY <2>3, Unseen, AcquireElects, GiveUpDeposes, StoppedCancels, EndsDie
       DEF ElectorStep, LifeStep, Callbacks!LNext
  <2> QED BY <2>1, <2>2, <2>3, Steps
<1> QED BY <1>1, <1>2, Good, PTL DEF ESpec, ImplementsLeadership, Callbacks!LSpec
=============================================================================

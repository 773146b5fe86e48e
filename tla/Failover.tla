------------------------------ MODULE Failover ------------------------------
(***************************************************************************)
(* Reconciler under Leadership: every worker is the one of a process of    *)
(* its own that serves a name, and one process takes over from another.    *)
(*                                                                         *)
(* main.go hands the context of the election to Run, and processNextReq    *)
(* hands it to Reconcile, so a process that may no longer work makes no    *)
(* new call; the one it has sent may still take effect, and its answer is  *)
(* lost.  Nothing tells the API server who leads: it takes the calls of a  *)
(* process that has been deposed, as long as that one may work.            *)
(***************************************************************************)
EXTENDS Reconciler

VARIABLES
  leader, mayWork,  \* those of Leadership
  latest,           \* the process that was elected last, or None
  intruded          \* has a process that has a successor written?

election == <<leader, mayWork, latest>>
fvars == <<vars, election, intruded>>

Callbacks == INSTANCE Leadership WITH Processes <- Workers

FTypeOK ==
  /\ TypeOK
  /\ leader \in Workers \cup {None} /\ mayWork \subseteq Workers
  /\ latest \in Workers \cup {None} /\ intruded \in BOOLEAN

FInit == Init /\ Callbacks!LInit /\ latest = None /\ intruded = FALSE

(* A write of w takes effect after another process has been elected. *)
Intrudes(w) == w # latest /\ cluster' # cluster

(* processNextReq calls Reconcile with the context of the election. *)
TakeUp(w, n) ==
  /\ w \in mayWork /\ Start(w, n)
  /\ UNCHANGED <<election, intruded>>

(* A reconcile goes on with its next call. *)
GoOn(w) ==
  /\ w \in mayWork /\ Step(w)
  /\ intruded' = (intruded \/ Intrudes(w))
  /\ UNCHANGED election

(* The context is done, or the process is gone: the call in flight fails,  *)
(* or takes effect unanswered, and Reconcile returns.                      *)
BreakOff(w) ==
  /\ w \notin mayWork
  /\ Writes(w, FALSE) \/ CallFails(w) \/ Finish(w)
  /\ intruded' = (intruded \/ Intrudes(w))
  /\ UNCHANGED election

(* A process that is elected has a worker of its own, with nothing left    *)
(* over from an earlier life of the process.                               *)
Elections ==
  /\ Callbacks!LNext
  /\ leader' \notin {None, leader} => pc[leader'] = "idle"
  /\ latest' = IF leader' = None THEN latest ELSE leader'
  /\ UNCHANGED <<vars, intruded>>

Others == Environment /\ UNCHANGED <<election, intruded>>

FNext ==
  \/ \E w \in Workers, n \in Names : TakeUp(w, n)
  \/ \E w \in Workers : GoOn(w) \/ BreakOff(w)
  \/ Elections
  \/ Others

FSpec == FInit /\ [][FNext]_fvars

-----------------------------------------------------------------------------
(* A process may be deposed or die between any two calls, with a write in  *)
(* flight, and the next one takes over what it left half done: the         *)
(* finalizer still guards every entry, unless a write of the old process   *)
(* lands after the election of the new one.                                *)
ProtectsUnlessIntruded == ~intruded => FinalizerProtects

(* Without that proviso it is FinalizerProtects, of which the test says    *)
(* "Ensure annotation matches real data"                                   *)
(* (prepullimage_reconciller_test.go:106): false, for the lease is         *)
(* released while Run is still working (main.go:144).                      *)
ProtectsAcrossFailover == FinalizerProtects
=============================================================================

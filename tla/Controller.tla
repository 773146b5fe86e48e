----------------------------- MODULE Controller -----------------------------
(***************************************************************************)
(* PrePullImageController (internal/controller/prepullimage_controller.go  *)
(* and prepullimage_handlers.go) around Reconciler: the informer that      *)
(* watches PrePullImages, the three event handlers, the work queues and    *)
(* the worker goroutines.                                                  *)
(*                                                                         *)
(* Each worker has a queue of its own and a key goes to the queue that its *)
(* hash chooses, so here the queues are one set of keys, and Serves says   *)
(* which worker takes which.                                               *)
(***************************************************************************)
EXTENDS Reconciler, Sequences, Naturals

CONSTANTS
  WatchBreaks,  \* may the watch break, so that the informer lists afresh?
  MaxEdits,     \* how often users, other controllers and nodes act
  MaxFaults     \* how often a call fails, a reply is lost, the process dies
                \* or the watch breaks

ASSUME BoundsAssumption ==
  WatchBreaks \in BOOLEAN /\ MaxEdits \in Nat /\ MaxFaults \in Nat

VARIABLES
  cache,    \* [Names -> PrePullImage or None]: the informer's store
  pending,  \* [Names -> Seq]: versions the watch has yet to deliver
  queue,    \* the keys waiting in the work queues
  delayed,  \* the keys that AddRateLimited will add once their delay is over
  edits,    \* how often one of them has acted
  faults    \* how often one of these has happened

informer == <<cache, pending>>
queues == <<queue, delayed>>
cvars == <<vars, cache, pending, queue, delayed, edits, faults>>

CTypeOK ==
  /\ TypeOK
  /\ cache \in [Names -> PrePullImage \cup {None}]
  /\ pending \in [Names -> Seq(PrePullImage \cup {None})]
  /\ queue \subseteq Names
  /\ delayed \subseteq Names
  /\ edits \in 0..MaxEdits
  /\ faults \in 0..MaxFaults

CInit ==
  /\ Init
  /\ cache = [n \in Names |-> None]
  /\ pending = [n \in Names |-> <<>>]
  /\ queue = {}
  /\ delayed = {}
  /\ edits = 0
  /\ faults = 0

-----------------------------------------------------------------------------
(* The informer and the handlers.                                          *)

(* A stored version that differs from the one before goes down the watch.  *)
Watched ==
  pending' = [n \in Names |-> IF ppi'[n] = ppi[n] THEN pending[n]
                              ELSE Append(pending[n], ppi'[n])]

(* Mutant: changes of the image alone are overlooked.                      *)
SameSelector(old, new) == old.selector = new.selector

(* reflect.DeepEqual of the two specs. *)
SameSpec(old, new) == old.image = new.image /\ old.selector = new.selector

(* The events that the handlers turn into a request: addPrePullImage and   *)
(* deletePrePullImage always, updatePrePullImage if the spec has changed.  *)
Requests(old, new) ==
  \/ old = None /\ new # None
  \/ old # None /\ new = None
  \/ old # None /\ new # None /\ ~SameSpec(old, new)

(* queue.Add: a key is in the queue once; one that is being worked on      *)
(* comes up again when its worker is done with it.                         *)
Added(q, n) == q \cup {n}

(* The informer takes one version in and calls the handlers.               *)
Deliver(n) ==
  /\ pending[n] # <<>>
  /\ LET new == Head(pending[n])
     IN  /\ cache' = [cache EXCEPT ![n] = new]
         /\ queue' = IF Requests(cache[n], new) THEN Added(queue, n) ELSE queue
  /\ pending' = [pending EXCEPT ![n] = Tail(@)]
  /\ UNCHANGED <<vars, delayed, edits, faults>>

(* The watch breaks and the informer lists: of each PrePullImage it gets   *)
(* the present version only.  One that equals the version in the store is  *)
(* left out: the handler would drop it.                                    *)
Relist ==
  /\ WatchBreaks /\ faults < MaxFaults
  /\ \E n \in Names : Len(pending[n]) > 1
  /\ pending' = [n \in Names |-> IF ppi[n] = cache[n] THEN <<>> ELSE <<ppi[n]>>]
  /\ faults' = faults + 1
  /\ UNCHANGED <<vars, cache, queues, edits>>

-----------------------------------------------------------------------------
(* The workers.                                                            *)

(* processNextReq takes a key from the worker's queue. *)
Take(w) ==
  /\ \E n \in queue : Start(w, n) /\ queue' = queue \ {n}
  /\ UNCHANGED <<informer, delayed, edits, faults>>

(* Reconcile makes a call, which the API server answers or refuses. *)
Call(w) ==
  /\ Reads(w) \/ Writes(w, TRUE) \/ Refused(w)
  /\ Watched
  /\ UNCHANGED <<cache, queues, edits, faults>>

(* A call fails, or takes effect and its answer is lost. *)
Fault(w) ==
  /\ faults < MaxFaults
  /\ Writes(w, FALSE) \/ CallFails(w)
  /\ Watched
  /\ faults' = faults + 1
  /\ UNCHANGED <<cache, queues, edits>>

(* Mutant: a failed request is forgotten. *)
RequeuedNever(w) == delayed

(* Mutant: a request is requeued whatever Reconcile returned. *)
RequeuedAlways(w) == Added(delayed, req[w])

(* Mutant: the request is reset before it is requeued. *)
RequeuedAfterReset(w) == IF pc[w] = "failed" THEN Added(delayed, req'[w]) ELSE delayed

(* AddRateLimited after an error, Forget after a success. *)
Requeued(w) == IF pc[w] = "failed" THEN Added(delayed, req[w]) ELSE delayed

Done(w) ==
  /\ Finish(w)
  /\ delayed' = Requeued(w)
  /\ UNCHANGED <<informer, queue, edits, faults>>

(* The delay of AddRateLimited is over. *)
DelayOver(n) ==
  /\ n \in delayed
  /\ delayed' = delayed \ {n}
  /\ queue' = Added(queue, n)
  /\ UNCHANGED <<vars, informer, edits, faults>>

(* The process dies, its workers busy or not, and another one leads: its   *)
(* informer starts with a list of what is stored, its queues are empty.    *)
Restart ==
  /\ faults < MaxFaults
  /\ Crash \/ ((\A w \in Workers : pc[w] = "idle") /\ UNCHANGED vars)
  /\ cache' = [n \in Names |-> None]
  /\ pending' = [n \in Names |-> IF ppi[n] = None THEN <<>> ELSE <<ppi[n]>>]
  /\ queue' = {} /\ delayed' = {}
  /\ faults' = faults + 1
  /\ UNCHANGED edits

Edit ==
  /\ edits < MaxEdits
  /\ Environment
  /\ Watched
  /\ edits' = edits + 1
  /\ UNCHANGED <<cache, queues, faults>>

System ==
  \/ \E n \in Names : Deliver(n) \/ DelayOver(n)
  \/ \E w \in Workers : Take(w) \/ Call(w) \/ Done(w)

CNext ==
  \/ System
  \/ \E w \in Workers : Fault(w)
  \/ Relist
  \/ Restart
  \/ Edit

CSpec == CInit /\ [][CNext]_cvars

(* The informer delivers, delays end, and each goroutine that can go on    *)
(* does; nothing obliges users to act or calls to fail.                    *)
Fairness ==
  /\ \A n \in Names : WF_cvars(Deliver(n)) /\ WF_cvars(DelayOver(n))
  /\ \A w \in Workers : WF_cvars(Take(w)) /\ WF_cvars(Call(w)) /\ WF_cvars(Done(w))

FairSpec == CSpec /\ Fairness

-----------------------------------------------------------------------------
(* What the controller promises.                                           *)

(* Everything there was to do is done: nothing is being delivered, queued, *)
(* delayed or worked on.                                                   *)
Quiet ==
  /\ \A n \in Names : pending[n] = <<>>
  /\ queue = {} /\ delayed = {}
  /\ \A w \in Workers : pc[w] = "idle"

(* No request is lost: an edit that arrives while its key is being worked  *)
(* on, a failed call, a lost reply, a restart never leave a PrePullImage   *)
(* behind that is not pre-pulled as its spec asks ("Ensure daemonset       *)
(* really matches real data", prepullimage_reconciller_test.go:113).       *)
QuietMeansPulled ==
  Quiet => \A n \in Names : ppi[n] # None /\ ~ppi[n].deleting => Pulled(n)

(* A PrePullImage that was marked for deletion is let go ("daemonset       *)
(* should be deleted", prepullimage_reconciller_test.go:230).              *)
QuietMeansDeleted ==
  Quiet => \A n \in Names :
             ppi[n] # None /\ ppi[n].deleting => FinalizerName \notin ppi[n].finalizers

(* The pods can be scheduled on every selected node, but for builtin       *)
(* taints ("pre-pulling pods on every existing node", README.md:44).       *)
QuietMeansTolerated ==
  Quiet => \A n \in Names :
             Pulled(n) => TolerationsFor(ppi[n].selector)
                            \subseteq ds[DsName[ppi[n].selector]].tolerations

(* Conflicts, retries and the events that the controller's own writes      *)
(* cause do not keep the controller busy for ever.                         *)
Settles == <>[]Quiet

(* Once a PrePullImage is marked for deletion and its key is queued, the   *)
(* finalizer goes, whatever happens between.                               *)
QueuedDeletionCompletes ==
  \A n \in Names :
    (n \in queue /\ ppi[n] # None /\ ppi[n].deleting)
      ~> (ppi[n] = None \/ FinalizerName \notin ppi[n].finalizers)

BeingDeleted(n) ==
  ppi[n] # None /\ ppi[n].deleting /\ FinalizerName \in ppi[n].finalizers

(* Some Reconcile deals with the deletion or will: the key is queued or    *)
(* held back, its PrePullImage is new to the informer, or a worker has the *)
(* deletion before it or has failed.                                       *)
TakenUp(n) ==
  \/ n \in queue \cup delayed
  \/ cache[n] = None
  \/ \E w \in Workers : req[w] = n /\ pc[w] \in {"getPpi", "failed"} \cup Removing

(* A deletion that is taken up is not dropped before the finalizer is off: *)
(* not by a conflict with an edit, another worker, a failed call, a lost   *)
(* reply, a list after a broken watch or a restart, although no event ever *)
(* asks for it again (prepullimage_handlers.go:44).                        *)
DeletionKept ==
  [][\A n \in Names : BeingDeleted(n) /\ TakenUp(n) => (~BeingDeleted(n) \/ TakenUp(n))']_cvars
=============================================================================

-------------------------- MODULE LoneWorkerProofs --------------------------
(***************************************************************************)
(* What holds of Reconciler as long as one worker reconciles: its copy of  *)
(* the DaemonSet is always the stored one, so that success means pulled    *)
(* and reconciling one PrePullImage never disturbs another one.  Crashes,  *)
(* failed calls, lost replies and users remain.                            *)
(* Then how much of that several workers keep: they implement Registry, as *)
(* long as none of them deletes a DaemonSet that it has not seen.          *)
(***************************************************************************)
EXTENDS ReconcilerProofs

Alone == \A v, w \in Workers : v = w

LEMMA AloneMeansOnePerKey == ASSUME Alone PROVE OneWorkerPerKey
BY DEF Alone, OneWorkerPerKey

(* Reconcile has returned nil for a PrePullImage that it read and that was *)
(* not being deleted.                                                      *)
Succeeds(w) == pc[w] = "succeeded" /\ obj[w] # None /\ ~obj[w].deleting

(* Nobody else writes: the worker's copy is current.                       *)
Seen == \A w \in Workers : pc[w] \in WithDs \/ Succeeds(w) => w \in heldCurrent

(* ensurePrePulling or removeFromPrePulling, by the deletionTimestamp.     *)
Sides ==
  \A w \in Workers : pc[w] \in AfterGetPpi => (obj[w].deleting <=> pc[w] \in Removing)

(* The builtin taints are tolerated nowhere. *)
NoBuiltins ==
  /\ \A d \in DsNames : ds[d] # None => ds[d].tolerations \cap BuiltinTaints = {}
  /\ \A w \in Workers :
       /\ listed[w] \cap BuiltinTaints = {}
       /\ held[w] # None => held[w].tolerations \cap BuiltinTaints = {}

(* What is done when Reconcile gets to dropOrphans, and when it returns.   *)
Pulls ==
  \A w \in Workers :
    /\ pc[w] = "dropOrphans" \/ Succeeds(w) => listed[w] \subseteq held[w].tolerations
    /\ Succeeds(w) => /\ req[w] \in DOMAIN held[w].ann.index
                      /\ held[w].ann.index[req[w]] = obj[w].image
                      /\ Orphans(held[w]) = {}

LoneInv == Seen /\ Sides /\ NoBuiltins /\ Pulls

-----------------------------------------------------------------------------
LEMMA NoBuiltinTolerations ==
  ASSUME NEW s PROVE TolerationsFor(s) \cap BuiltinTaints = {}
<1> DEFINE all == UNION {taints[node] : node \in Selects[s]}
<1>1. TolerationsFor(s) = all \ BuiltinTaints
  BY DEF TolerationsFor
<1> HIDE DEF all
<1> QED BY <1>1

(* An update from a current copy: the copy stays current, wherever         *)
(* Reconcile goes next.                                                    *)
LEMMA LoneUpdate ==
  ASSUME IInv, LoneInv, Alone, NEW w \in Workers,
         NEW new \in DaemonSet, NEW next, NEW answered \in BOOLEAN,
         UpdateDs(w, new, next, answered),
         new.tolerations \cap BuiltinTaints = {},
         pc[w] \in AfterGetPpi, next \in Labels \ {"idle", "getPpi"},
         next \in AfterGetPpi => (obj[w].deleting <=> next \in Removing),
         next \in {"dropOrphans", "succeeded"} /\ ~obj[w].deleting =>
           listed[w] \subseteq new.tolerations,
         next = "succeeded" /\ ~obj[w].deleting =>
           /\ req[w] \in DOMAIN new.ann.index
           /\ new.ann.index[req[w]] = obj[w].image
           /\ Orphans(new) = {}
  PROVE  LoneInv'
<1> USE DEF IInv, TypeOK
<1>1. /\ held'[w] = new /\ obj' = obj /\ req' = req /\ listed' = listed
      /\ pc'[w] \in {next, "failed"} /\ w \in heldCurrent'
      /\ ds' = [ds EXCEPT ![Target(w)] = new]
  BY DEF UpdateDs, StoreDs
<1>2. \A v \in Workers : v = w
  BY DEF Alone
<1>3. Seen'
  BY <1>1, <1>2 DEF Seen
<1>4. Sides'
  BY <1>1, <1>2 DEF Sides, AfterGetPpi, Calls
<1>5. NoBuiltins'
  BY <1>1, <1>2 DEF NoBuiltins, LoneInv
<1>6. next = "dropOrphans" => ~obj[w].deleting
  BY DEF AfterGetPpi, Calls, Removing
<1>7. Pulls'
  BY <1>1, <1>2, <1>6 DEF Pulls, Succeeds, Orphans
<1> QED BY <1>3, <1>4, <1>5, <1>7 DEF LoneInv

(* The calls that read. *)
LEMMA LoneReads ==
  ASSUME IInv, LoneInv, Alone, NEW w \in Workers, Reads(w)
  PROVE  LoneInv'
<1> USE DEF IInv, TypeOK, LoneInv, Goto, cluster
<1>0. \A v \in Workers : v = w
  BY DEF Alone
<1>1. CASE GetPpi(w)
  <2>1. obj[w] = None /\ held[w] = None
    BY <1>1 DEF GetPpi, Phases
  <2>2. CASE ppi[req[w]] = None
    <3>1. pc'[w] = "succeeded" /\ obj' = obj /\ UNCHANGED <<cluster, req, held, heldCurrent, listed>>
      BY <1>1, <2>2 DEF GetPpi
    <3> QED
      BY <1>0, <2>1, <3>1 DEF Seen, Sides, NoBuiltins, Pulls, Succeeds, WithDs, AfterGetPpi, Calls
  <2>3. CASE ppi[req[w]] # None
    <3>1. /\ pc'[w] = AfterGet(ppi[req[w]]) /\ obj'[w] = ppi[req[w]]
          /\ UNCHANGED <<cluster, req, held, heldCurrent, listed>>
      BY <1>1, <2>3 DEF GetPpi
    <3>2. /\ ~obj'[w].deleting => pc'[w] \in {"getDs", "addFinalizer"}
          /\ obj'[w].deleting => pc'[w] \in {"getDsToRemove", "succeeded"}
      BY <3>1 DEF AfterGet
    <3> QED
      BY <1>0, <3>1, <3>2 DEF Seen, Sides, NoBuiltins, Pulls, Succeeds, WithDs, Removing, AfterGetPpi, Calls
  <2> QED BY <2>2, <2>3
<1>2. CASE GetDs(w)
  <2>1. pc[w] \in AfterGetPpi /\ ~obj[w].deleting
    BY <1>2 DEF GetDs, Sides, AfterGetPpi, Calls, Removing
  <2>2. CASE ds[Target(w)] = None
    <3>1. pc'[w] = "listNodesForCreate" /\ UNCHANGED <<ds, req, obj, held, heldCurrent, listed>>
      BY <1>2, <2>2 DEF GetDs
    <3> QED
      BY <1>0, <2>1, <3>1 DEF Seen, Sides, NoBuiltins, Pulls, Succeeds, WithDs, Removing
  <2>3. CASE ds[Target(w)] # None
    <3>1. /\ pc'[w] \in {"listNodes", "putContainer"} /\ held'[w] = ds[Target(w)]
          /\ w \in heldCurrent' /\ UNCHANGED <<ds, req, obj, listed>>
      BY <1>2, <2>3 DEF GetDs, AfterFetch
    <3>2. Target(w) \in DsNames
      BY <2>1, ConstantsAssumption DEF Target, Phases, PrePullImage
    <3> QED
      BY <1>0, <2>1, <2>3, <3>1, <3>2 DEF Seen, Sides, NoBuiltins, Pulls, Succeeds, WithDs, Removing
  <2> QED BY <2>2, <2>3
<1>3. CASE ListNodesForCreate(w)
  <2>1. /\ pc'[w] = "createDs" /\ listed'[w] = TolerationsFor(obj[w].selector)
        /\ UNCHANGED <<ds, req, obj, held, heldCurrent>>
    BY <1>3 DEF ListNodesForCreate
  <2>2. ~obj[w].deleting
    BY <1>3 DEF ListNodesForCreate, Sides, AfterGetPpi, Calls, Removing
  <2> QED
    BY <1>0, <2>1, <2>2, NoBuiltinTolerations
       DEF Seen, Sides, NoBuiltins, Pulls, Succeeds, WithDs, Removing
<1>4. CASE ListNodes(w)
  <2> DEFINE missing == TolerationsFor(obj[w].selector) \ held[w].tolerations
  <2>1. /\ listed'[w] = missing /\ UNCHANGED <<ds, req, obj, held, heldCurrent>>
        /\ pc'[w] = IF missing = {} THEN AfterTolerations(held[w]) ELSE "putTolerations"
    BY <1>4 DEF ListNodes
  <2>2. ~obj[w].deleting /\ w \in heldCurrent
    BY <1>4 DEF ListNodes, Sides, Seen, AfterGetPpi, Calls, Removing, WithDs
  <2>3. pc'[w] \in {"putTolerations", "dropOrphans", "succeeded"}
        /\ (pc'[w] # "putTolerations" => missing = {})
        /\ (pc'[w] = "succeeded" => Orphans(held[w]) = {})
    BY <2>1 DEF AfterTolerations
  <2>4. missing \cap BuiltinTaints = {}
    BY NoBuiltinTolerations
  <2>5. req[w] \in DOMAIN held[w].ann.index /\ held[w].ann.index[req[w]] = obj[w].image
    BY <1>4 DEF ListNodes, HeldWellFormed, WithEntry
  <2> HIDE DEF missing
  <2>6. Pulls'
    BY <1>0, <2>1, <2>3, <2>5 DEF Pulls, Succeeds, Orphans
  <2> QED
    BY <1>0, <2>1, <2>2, <2>3, <2>4, <2>6 DEF Seen, Sides, NoBuiltins, Succeeds, Removing
<1>5. CASE GetDsToRemove(w)
  <2>1. pc[w] \in AfterGetPpi /\ obj[w].deleting
    BY <1>5 DEF GetDsToRemove, Sides, AfterGetPpi, Calls, Removing
  <2>2. CASE ds[Target(w)] = None
    <3>1. pc'[w] = "removeFinalizer" /\ UNCHANGED <<ds, req, obj, held, heldCurrent, listed>>
      BY <1>5, <2>2 DEF GetDsToRemove
    <3> QED
      BY <1>0, <2>1, <3>1 DEF Seen, Sides, NoBuiltins, Pulls, Succeeds, WithDs, Removing
  <2>3. CASE ds[Target(w)] # None
    <3>1. /\ pc'[w] \in {"putWithdrawn", "deleteDs"} /\ held'[w] = ds[Target(w)]
          /\ w \in heldCurrent' /\ UNCHANGED <<ds, req, obj, listed>>
      BY <1>5, <2>3 DEF GetDsToRemove
    <3>2. Target(w) \in DsNames
      BY <2>1, ConstantsAssumption DEF Target, Phases, PrePullImage
    <3> QED
      BY <1>0, <2>1, <2>3, <3>1, <3>2 DEF Seen, Sides, NoBuiltins, Pulls, Succeeds, WithDs, Removing
  <2> QED BY <2>2, <2>3
<1> QED BY <1>1, <1>2, <1>3, <1>4, <1>5 DEF Reads

(* The calls that write. *)
LEMMA LoneWrites ==
  ASSUME IInv, LoneInv, Alone, NEW w \in Workers, NEW answered \in BOOLEAN,
         Writes(w, answered)
  PROVE  LoneInv'
<1> USE DEF IInv, TypeOK, LoneInv, Goto
<1>0. \A v \in Workers : v = w
  BY DEF Alone
<1>1. pc[w] \in AfterGetPpi
  BY DEF Writes, AddFinalizer, CreateDs, PutContainer, PutTolerations, DropOrphans,
         PutWithdrawn, DeleteDs, RemoveFinalizer, AfterGetPpi, Calls
<1>2. /\ obj[w] \in PrePullImage /\ obj[w].image \in Images /\ req[w] \in Names
      /\ Target(w) \in DsNames /\ listed[w] \in SUBSET Taints
      /\ pc[w] \in WithDs => held[w] \in DaemonSet /\ WellFormed(held[w])
      /\ obj[w].deleting <=> pc[w] \in Removing
  BY <1>1, ConstantsAssumption
     DEF Phases, HeldWellFormed, AfterGetPpi, Calls, PrePullImage, Target, Sides
<1>3. held[w] # None => held[w].tolerations \cap BuiltinTaints = {}
  BY DEF NoBuiltins
<1>4. CASE AddFinalizer(w, answered)
  <2>1. /\ obj'[w].deleting = obj[w].deleting /\ pc'[w] \in {"getDs", "failed"}
        /\ UNCHANGED <<ds, req, held, heldCurrent, listed>>
    BY <1>2, <1>4 DEF AddFinalizer, WithFinalizer, PrePullImage
  <2>2. ~obj[w].deleting
    BY <1>2, <1>4 DEF AddFinalizer, Removing
  <2> QED
    BY <1>0, <2>1, <2>2 DEF Seen, Sides, NoBuiltins, Pulls, Succeeds, WithDs, Removing, AfterGetPpi, Calls
<1>5. CASE CreateDs(w, answered)
  <2> DEFINE new == NewDaemonSet(obj[w].image, req[w], listed[w])
  <2>1. /\ new # None /\ new.tolerations = listed[w]
    BY <1>2, NewIsDaemonSet, NoneAssumption DEF NewDaemonSet
  <2>2. /\ ds' = [ds EXCEPT ![Target(w)] = new] /\ held'[w] = new /\ w \in heldCurrent'
        /\ pc'[w] \in {"listNodes", "putContainer", "failed"}
        /\ UNCHANGED <<req, obj, listed>>
    BY <1>5, <2>1 DEF CreateDs, StoreDs, AfterFetch
  <2>3. ~obj[w].deleting
    BY <1>2, <1>5 DEF CreateDs, Removing
  <2> HIDE DEF new
  <2>4. NoBuiltins'
    BY <1>0, <1>2, <2>1, <2>2 DEF NoBuiltins
  <2> QED
    BY <1>0, <2>2, <2>3, <2>4 DEF Seen, Sides, Pulls, Succeeds, WithDs, Removing, AfterGetPpi, Calls
<1>6. CASE PutContainer(w, answered)
  <2> DEFINE new == WithImage(held[w], obj[w].image, req[w])
  <2>1. pc[w] = "putContainer" /\ UpdateDs(w, new, "listNodes", answered)
    BY <1>6 DEF PutContainer
  <2>2. new \in DaemonSet /\ new.tolerations = held[w].tolerations /\ held[w] # None
    BY <1>2, <2>1, WithImageIsDaemonSet, NoneAssumption DEF WithDs, WithImage, DaemonSet
  <2> HIDE DEF new
  <2> QED
    BY <1>1, <1>2, <1>3, <2>1, <2>2, LoneUpdate DEF Labels, Calls, Removing
<1>7. CASE PutTolerations(w, answered)
  <2> DEFINE new == [held[w] EXCEPT !.tolerations = @ \cup listed[w]]
  <2>1. pc[w] = "putTolerations" /\ UpdateDs(w, new, AfterTolerations(new), answered)
    BY <1>7 DEF PutTolerations
  <2>2. held[w] \in DaemonSet /\ held[w] # None /\ WellFormed(held[w])
    BY <1>2, <2>1, NoneAssumption DEF WithDs
  <2>3. /\ new \in DaemonSet /\ new.ann = held[w].ann
        /\ new.tolerations = held[w].tolerations \cup listed[w]
    BY <1>2, <2>2, WithTolerationsWellFormed DEF DaemonSet
  <2>4. new.tolerations \cap BuiltinTaints = {}
    BY <1>3, <2>2, <2>3 DEF NoBuiltins
  <2>5. req[w] \in DOMAIN new.ann.index /\ new.ann.index[req[w]] = obj[w].image
    BY <2>1, <2>3 DEF HeldWellFormed, WithEntry
  <2>6. /\ AfterTolerations(new) \in {"succeeded", "dropOrphans"}
        /\ AfterTolerations(new) = "succeeded" => Orphans(new) = {}
    BY DEF AfterTolerations
  <2> HIDE DEF new
  <2> QED
    BY <1>1, <1>2, <2>1, <2>3, <2>4, <2>5, <2>6, LoneUpdate DEF Labels, Calls, Removing
<1>8. CASE DropOrphans(w, answered)
  <2> DEFINE new == WithoutOrphans(held[w])
  <2>1. pc[w] = "dropOrphans" /\ UpdateDs(w, new, "succeeded", answered)
    BY <1>8 DEF DropOrphans
  <2>2. held[w] \in DaemonSet /\ held[w] # None
    BY <1>2, <2>1, NoneAssumption DEF WithDs
  <2>3. /\ new \in DaemonSet /\ new.tolerations = held[w].tolerations
        /\ new.ann = held[w].ann /\ new.containers = held[w].containers \ Orphans(held[w])
    BY <2>2, WithoutOrphansIsDaemonSet DEF WithoutOrphans, DaemonSet
  <2>4. Orphans(new) = {}
    BY <2>3 DEF Orphans
  <2>5. req[w] \in DOMAIN new.ann.index /\ new.ann.index[req[w]] = obj[w].image
    BY <2>1, <2>3 DEF HeldWellFormed, WithEntry
  <2>6. listed[w] \subseteq new.tolerations
    BY <2>1, <2>3 DEF Pulls
  <2> HIDE DEF new
  <2> QED
    BY <1>1, <1>2, <1>3, <2>1, <2>2, <2>3, <2>4, <2>5, <2>6, LoneUpdate
       DEF Labels, Calls, Removing, AfterGetPpi
<1>9. CASE PutWithdrawn(w, answered)
  <2> DEFINE new == Withdrawn(held[w], obj[w].image, req[w])
  <2>1. pc[w] = "putWithdrawn" /\ UpdateDs(w, new, "removeFinalizer", answered)
    BY <1>9 DEF PutWithdrawn
  <2>2. held[w] \in DaemonSet /\ held[w] # None
    BY <1>2, <2>1, NoneAssumption DEF WithDs
  <2>3. new \in DaemonSet /\ new.tolerations = held[w].tolerations
    BY <1>2, <2>2, WithdrawnIsDaemonSet DEF Withdrawn, DaemonSet
  <2> HIDE DEF new
  <2> QED
    BY <1>1, <1>2, <1>3, <2>1, <2>2, <2>3, LoneUpdate DEF Labels, Calls, Removing
<1>10. CASE DeleteDs(w, answered)
  <2>1. /\ ds' = [ds EXCEPT ![Target(w)] = None] /\ pc'[w] \in {"removeFinalizer", "failed"}
        /\ UNCHANGED <<req, obj, held, listed>>
    BY <1>10 DEF DeleteDs
  <2>2. obj[w].deleting
    BY <1>2, <1>10 DEF DeleteDs, Removing
  <2> QED
    BY <1>0, <1>2, <2>1, <2>2
       DEF Seen, Sides, NoBuiltins, Pulls, Succeeds, WithDs, Removing, AfterGetPpi, Calls
<1>11. CASE RemoveFinalizer(w, answered)
  <2>1. /\ pc'[w] \in {"succeeded", "failed"} /\ UNCHANGED <<ds, req, obj, held, heldCurrent, listed>>
    BY <1>11 DEF RemoveFinalizer
  <2>2. obj[w].deleting
    BY <1>2, <1>11 DEF RemoveFinalizer, Removing
  <2> QED
    BY <1>0, <2>1, <2>2
       DEF Seen, Sides, NoBuiltins, Pulls, Succeeds, WithDs, Removing, AfterGetPpi, Calls
<1> QED BY <1>4, <1>5, <1>6, <1>7, <1>8, <1>9, <1>10, <1>11 DEF Writes

(* LoneInv is inductive, given IInv. *)
LEMMA NextKeepsLoneInv ==
  ASSUME IInv, LoneInv, Alone, [Next]_vars
  PROVE  LoneInv'
<1> USE DEF IInv, TypeOK, LoneInv, Goto, cluster, Seen, Sides, NoBuiltins, Pulls, Succeeds,
            WithDs, Removing, AfterGetPpi, Calls
<1>1. ASSUME NEW w \in Workers, Refused(w) \/ CallFails(w) PROVE LoneInv'
  BY <1>1 DEF Refused, CallFails, Alone
<1>2. ASSUME NEW w \in Workers, NEW n \in Names, Start(w, n) PROVE LoneInv'
  BY <1>2 DEF Start, Alone
<1>3. ASSUME NEW w \in Workers, Finish(w) PROVE LoneInv'
  BY <1>3 DEF Finish, Alone
<1>4. CASE Crash
  BY <1>4 DEF Crash
<1>5. CASE Environment \/ UNCHANGED vars
  <2>1. UNCHANGED <<ds, pc, req, obj, held, heldCurrent, listed>>
    BY <1>5 DEF Environment, UserCreates, UserEditsImage, UserEditsSelector, UserDeletes,
       ForeignFinalizerRemoved, NodeTainted, locals, vars
  <2> QED BY <2>1 DEF Orphans
<1> QED
  BY <1>1, <1>2, <1>3, <1>4, <1>5, LoneReads, LoneWrites DEF Next, Step

LEMMA LoneInvariance ==
  ASSUME Alone PROVE Spec => []LoneInv
<1>1. Init => LoneInv
  BY DEF Init, LoneInv, Seen, Sides, NoBuiltins, Pulls, Succeeds, WithDs, AfterGetPpi, Calls
<1>2. IInv /\ LoneInv /\ [Next]_vars => LoneInv'
  BY NextKeepsLoneInv
<1> QED BY <1>1, <1>2, Invariance, PTL DEF Spec

-----------------------------------------------------------------------------
(* A worker that is alone has seen every DaemonSet it deletes. *)
LEMMA LoneSees == LoneInv => \A w \in Workers : ~DeletesUnseen(w)
BY DEF LoneInv, Seen, WithDs, DeletesUnseen

(* A worker that is alone never takes away what another PrePullImage has:  *)
(* the Delete that could is made with a current copy.                      *)
THEOREM LoneWorkerKeepsBystanders ==
  ASSUME Alone PROVE Spec => BystandersStayPulled
<1>1. LoneInv /\ (KeepsBystanders \/ \E w \in Workers : DeletesUnseen(w)) => KeepsBystanders
  BY LoneSees
<1>2. LoneInv /\ [KeepsBystanders \/ \E w \in Workers : DeletesUnseen(w)]_vars
        => [KeepsBystanders]_vars
  BY <1>1
<1> QED
  BY <1>2, LoneInvariance, UnpulledOnlyByDelete, PTL
     DEF BystandersStayPulled, UnpulledOnlyByUnseenDelete

(* When Reconcile returns nil to a worker that is alone, the DaemonSet is  *)
(* what the PrePullImage asked for and has nothing besides.                *)
THEOREM LoneSuccessMeansPulled ==
  ASSUME Alone PROVE Spec => []SuccessMeansPulled
<1>1. IInv /\ LoneInv => SuccessMeansPulled
  <2> SUFFICES ASSUME IInv, LoneInv, NEW w \in Workers, Succeeds(w)
               PROVE  LET h == ds[Target(w)]
                      IN  /\ h # None
                          /\ req[w] \in DOMAIN h.ann.index /\ h.ann.index[req[w]] = obj[w].image
                          /\ h.containers = IndexedImages(h.ann.index)
                          /\ listed[w] \subseteq h.tolerations
                          /\ h.tolerations \cap BuiltinTaints = {}
    BY DEF SuccessMeansPulled, Succeeds
  <2> DEFINE h == held[w]
  <2>1. h # None /\ ds[Target(w)] = h
    BY DEF IInv, Copies, LoneInv, Seen
  <2>2. /\ req[w] \in DOMAIN h.ann.index /\ h.ann.index[req[w]] = obj[w].image
        /\ Orphans(h) = {} /\ listed[w] \subseteq h.tolerations
    BY DEF LoneInv, Pulls
  <2>3. h.tolerations \cap BuiltinTaints = {}
    BY <2>1 DEF LoneInv, NoBuiltins
  <2>4. WellFormed(h)
    BY <2>1 DEF IInv, HeldWellFormed
  <2>5. DOMAIN h.ann.inv = IndexedImages(h.ann.index)
    BY <2>4 DEF WellFormed, Consistent, Inverted
  <2> HIDE DEF h
  <2>6. h.containers \subseteq IndexedImages(h.ann.index)
    <3> SUFFICES ASSUME NEW i \in h.containers PROVE i \in IndexedImages(h.ann.index)
      OBVIOUS
    <3>1. PICK j \in IndexedImages(h.ann.index) : CtrName[i] = CtrName[j]
      BY <2>2, <2>5 DEF Orphans
    <3> QED
      BY <2>4, <3>1 DEF WellFormed, Accepted
  <2>7. h.containers = IndexedImages(h.ann.index)
    BY <2>4, <2>6 DEF WellFormed
  <2> QED BY <2>1, <2>2, <2>3, <2>7
<1> QED BY <1>1, Invariance, LoneInvariance, PTL

-----------------------------------------------------------------------------
(* Registry is implemented, if nodeSelectors are not edited: each step is  *)
(* a step of Registry for the PrePullImage it is about, or invisible       *)
(* there.  This holds of any number of workers with keys of their own, but *)
(* for one step: the Delete of a DaemonSet that its worker has not seen.   *)

(* The two sides of Reconcile, however many workers there are. *)
LEMMA NextKeepsSides ==
  ASSUME IInv, Sides, [Next]_vars
  PROVE  Sides'
<1> SUFFICES ASSUME NEW w \in Workers, pc'[w] \in AfterGetPpi
             PROVE  obj'[w].deleting <=> pc'[w] \in Removing
  BY DEF Sides
<1> USE DEF IInv, TypeOK, Goto
<1>1. ASSUME obj'[w] = obj[w], pc'[w] = pc[w] PROVE obj'[w].deleting <=> pc'[w] \in Removing
  BY <1>1 DEF Sides
<1>2. CASE GetPpi(w)
  <2>1. ppi[req[w]] # None /\ pc'[w] = AfterGet(ppi[req[w]]) /\ obj'[w] = ppi[req[w]]
    BY <1>2 DEF GetPpi, AfterGetPpi, Calls
  <2> QED BY <2>1 DEF AfterGet, Removing, AfterGetPpi, Calls
<1>3. CASE GetDs(w) \/ ListNodesForCreate(w) \/ ListNodes(w)
  BY <1>3 DEF GetDs, ListNodesForCreate, ListNodes, AfterFetch, AfterTolerations, Sides,
     Removing, AfterGetPpi, Calls
<1>4. CASE GetDsToRemove(w)
  BY <1>4 DEF GetDsToRemove, Sides, Removing, AfterGetPpi, Calls
<1>5. ASSUME NEW answered \in BOOLEAN,
             \/ CreateDs(w, answered) \/ PutContainer(w, answered)
             \/ PutTolerations(w, answered) \/ DropOrphans(w, answered)
             \/ PutWithdrawn(w, answered) \/ DeleteDs(w, answered)
             \/ RemoveFinalizer(w, answered)
      PROVE  obj'[w].deleting <=> pc'[w] \in Removing
  BY <1>5 DEF CreateDs, PutContainer, PutTolerations, DropOrphans, PutWithdrawn, DeleteDs,
     RemoveFinalizer, UpdateDs, AfterFetch, AfterTolerations, Sides, Removing, AfterGetPpi, Calls
<1>6. ASSUME NEW answered \in BOOLEAN, AddFinalizer(w, answered)
      PROVE  obj'[w].deleting <=> pc'[w] \in Removing
  <2>1. obj[w] \in PrePullImage
    BY <1>6 DEF AddFinalizer, Phases, AfterGetPpi, Calls
  <2>2. obj'[w].deleting = obj[w].deleting /\ pc'[w] \in {"getDs", "failed"}
        /\ pc[w] = "addFinalizer"
    BY <1>6, <2>1 DEF AddFinalizer, WithFinalizer, PrePullImage
  <2> QED BY <2>2 DEF Sides, Removing, AfterGetPpi, Calls
<1>7. ASSUME Refused(w) \/ CallFails(w) \/ Finish(w) \/ Crash \/ \E n \in Names : Start(w, n)
      PROVE  FALSE
  BY <1>7 DEF Refused, CallFails, Finish, Crash, Start, AfterGetPpi, Calls
<1>8. ASSUME NEW v \in Workers, v # w, Step(v) \/ \E n \in Names : Start(v, n)
      PROVE  pc'[w] = pc[w] /\ obj'[w] = obj[w]
  BY <1>8, OthersRest
<1>9. CASE Environment \/ UNCHANGED vars
  <2>1. UNCHANGED <<pc, obj>>
    BY <1>9 DEF Environment, UserCreates, UserEditsImage, UserEditsSelector, UserDeletes,
       ForeignFinalizerRemoved, NodeTainted, locals, vars
  <2> QED BY <1>1, <2>1
<1> QED
  BY <1>1, <1>2, <1>3, <1>4, <1>5, <1>6, <1>7, <1>8, <1>9 DEF Next, Step, Reads, Writes

(* A PrePullImage that is being withdrawn is still being deleted: deletion *)
(* is for good as long as the finalizer is there.                          *)
Leaving == \A w \in Workers : pc[w] \in Removing => ppi[req[w]].deleting

All == IInv /\ Sides /\ FInv /\ Leaving

LEMMA NextKeepsLeaving ==
  ASSUME IInv, FInv, FInv', Leaving, [Next]_vars
  PROVE  Leaving'
<1> SUFFICES ASSUME NEW w \in Workers, pc'[w] \in Removing PROVE ppi'[req'[w]].deleting
  BY DEF Leaving
<1> USE DEF IInv, TypeOK, Goto, Removing
<1>1. ASSUME pc'[w] = pc[w], req'[w] = req[w] PROVE ppi'[req'[w]].deleting
  <2>1. req[w] \in Names
    BY <1>1, ConstantsAssumption DEF Phases
  <2>2. ppi[req[w]] # None /\ ppi'[req[w]] # None
    BY <1>1 DEF FInv, Guarded, AfterFinalizer, AfterGetPpi, Calls
  <2> QED BY <1>1, <2>1, <2>2, DeletionStays DEF Leaving
<1>2. CASE GetPpi(w)
  BY <1>2 DEF GetPpi, AfterGet, cluster
<1>3. CASE GetDs(w) \/ ListNodesForCreate(w) \/ ListNodes(w)
  BY <1>3 DEF GetDs, ListNodesForCreate, ListNodes, AfterFetch, AfterTolerations
<1>4. ASSUME NEW answered \in BOOLEAN,
             \/ AddFinalizer(w, answered) \/ CreateDs(w, answered)
             \/ PutContainer(w, answered) \/ PutTolerations(w, answered)
             \/ DropOrphans(w, answered) \/ RemoveFinalizer(w, answered)
      PROVE  FALSE
  BY <1>4 DEF AddFinalizer, CreateDs, PutContainer, PutTolerations, DropOrphans, UpdateDs,
     RemoveFinalizer, AfterFetch, AfterTolerations
<1>5. ASSUME NEW answered \in BOOLEAN,
             GetDsToRemove(w) \/ PutWithdrawn(w, answered) \/ DeleteDs(w, answered)
      PROVE  ppi'[req'[w]].deleting
  BY <1>5 DEF GetDsToRemove, PutWithdrawn, UpdateDs, DeleteDs, Leaving, cluster
<1>6. CASE Refused(w) \/ CallFails(w) \/ Finish(w) \/ Crash \/ \E n \in Names : Start(w, n)
  BY <1>6 DEF Refused, CallFails, Finish, Crash, Start
<1>7. ASSUME NEW v \in Workers, v # w, Step(v) \/ \E n \in Names : Start(v, n)
      PROVE  pc'[w] = pc[w] /\ req'[w] = req[w]
  BY <1>7, OthersRest
<1>8. CASE Environment \/ UNCHANGED vars
  <2>1. UNCHANGED <<pc, req>>
    BY <1>8 DEF Environment, UserCreates, UserEditsImage, UserEditsSelector, UserDeletes,
       ForeignFinalizerRemoved, NodeTainted, locals, vars
  <2> QED BY <1>1, <2>1
<1> QED
  BY <1>1, <1>2, <1>3, <1>4, <1>5, <1>6, <1>7, <1>8 DEF Next, Step, Reads, Writes

-----------------------------------------------------------------------------
(* What Registry sees of the stored DaemonSets. *)

LEMMA IndexIsFunction ==
  ASSUME NEW h \in DaemonSet
  PROVE  /\ h.ann.index # None
         /\ h.ann.index = [m \in DOMAIN h.ann.index |-> h.ann.index[m]]
<1>1. h.ann.index \in Maps(Names, Images)
  BY LookupsAreMaps DEF DaemonSet
<1>2. PICK S \in SUBSET Names : h.ann.index \in [S -> Images]
  BY <1>1 DEF Maps
<1> QED BY <1>2, NoneAssumption

LEMMA ListingOf ==
  ASSUME TypeOK, NEW d \in DsNames
  PROVE  /\ Listing[d] = None <=> ds[d] = None
         /\ ds[d] # None => /\ ds[d] \in DaemonSet
                            /\ Listing[d] = ds[d].ann.index
BY IndexIsFunction DEF TypeOK, Listing

(* One stored DaemonSet changes. *)
LEMMA StoredListing ==
  ASSUME TypeOK, NEW d \in DsNames, NEW new \in DaemonSet, ds' = [ds EXCEPT ![d] = new]
  PROVE  Listing' = [Listing EXCEPT ![d] = new.ann.index]
<1>1. new # None
  BY NoneAssumption
<1>2. \A e \in DsNames : Listing'[e] = [Listing EXCEPT ![d] = new.ann.index][e]
  BY <1>1 DEF TypeOK, Listing
<1> QED BY <1>2 DEF Listing

(* An update that leaves the annotation alone is invisible. *)
LEMMA SameAnnotation ==
  ASSUME TypeOK, Copies, NEW w \in Workers, NEW new \in DaemonSet, NEW next, NEW answered,
         Target(w) \in DsNames, held[w] \in DaemonSet, new.ann = held[w].ann,
         UpdateDs(w, new, next, answered)
  PROVE  ppi' = ppi /\ Listing' = Listing
<1>1. /\ ds' = [ds EXCEPT ![Target(w)] = new] /\ ppi' = ppi
      /\ ds[Target(w)] = held[w] /\ held[w] # None
  BY DEF UpdateDs, StoreDs, Copies
<1>2. Listing' = [Listing EXCEPT ![Target(w)] = new.ann.index]
  BY <1>1, StoredListing
<1>3. Listing[Target(w)] = new.ann.index
  BY <1>1, ListingOf
<1> QED BY <1>1, <1>2, <1>3 DEF Listing

-----------------------------------------------------------------------------
(* The steps of a worker. *)

(* A worker past the finalizer, and what it holds. *)
LEMMA Holding ==
  ASSUME All, NEW w \in Workers, pc[w] \in AfterGetPpi
  PROVE  /\ req[w] \in Names /\ obj[w] \in PrePullImage /\ Target(w) \in DsNames
         /\ pc[w] \in WithDs => held[w] \in DaemonSet /\ WellFormed(held[w])
         /\ obj[w].deleting <=> pc[w] \in Removing
         /\ pc[w] # "addFinalizer" =>
              Registered!Protected(req[w]) /\ DsName[ppi[req[w]].selector] = Target(w)
<1>1. req[w] \in Names /\ obj[w] \in PrePullImage /\ Target(w) \in DsNames
  BY ConstantsAssumption
     DEF All, IInv, TypeOK, Phases, AfterGetPpi, Calls, PrePullImage, Target
<1>2. pc[w] \in WithDs => held[w] \in DaemonSet /\ WellFormed(held[w])
  BY DEF All, IInv, TypeOK, Phases, HeldWellFormed
<1>3. obj[w].deleting <=> pc[w] \in Removing
  BY DEF All, Sides
<1>4. pc[w] # "addFinalizer" =>
        Registered!Protected(req[w]) /\ DsName[ppi[req[w]].selector] = Target(w)
  BY DEF All, FInv, Guarded, AfterFinalizer, Registered!Protected, Target
<1> QED BY <1>1, <1>2, <1>3, <1>4

LEMMA AddFinalizerProtects ==
  ASSUME All, NEW w \in Workers, NEW answered \in BOOLEAN, AddFinalizer(w, answered)
  PROVE  Registered!Protect(req[w])
<1>1. pc[w] = "addFinalizer" /\ w \in objCurrent
  BY DEF AddFinalizer
<1>2. ppi[req[w]] = obj[w] /\ obj[w] # None /\ ~obj[w].deleting
  BY <1>1, Holding DEF All, IInv, Copies, AfterGetPpi, Calls, Removing
<1>3. Listing' = Listing
  BY DEF AddFinalizer, Listing
<1> QED
  BY <1>2, <1>3
     DEF AddFinalizer, StorePpi, Stored, WithFinalizer, Registered!Protect, Registered!Store

LEMMA CreateRegisters ==
  ASSUME All, NEW w \in Workers, NEW answered \in BOOLEAN, CreateDs(w, answered)
  PROVE  Registered!Register(Target(w), req[w])
<1> DEFINE new == NewDaemonSet(obj[w].image, req[w], listed[w])
           d == Target(w)
<1>1. /\ pc[w] = "createDs" /\ ds[d] = None
      /\ ds' = [ds EXCEPT ![d] = new] /\ ppi' = ppi
  BY DEF CreateDs, StoreDs
<1>2. /\ req[w] \in Names /\ obj[w].image \in Images /\ d \in DsNames
      /\ Registered!Protected(req[w]) /\ DsName[ppi[req[w]].selector] = d
  BY <1>1, Holding DEF AfterGetPpi, Calls, PrePullImage
<1>3. new \in DaemonSet /\ new.ann.index = [m \in {req[w]} |-> obj[w].image]
  BY <1>2, NewIsDaemonSet DEF All, IInv, TypeOK, NewDaemonSet, SingleImageName
<1> HIDE DEF new, d
<1>4. Listing' = [Listing EXCEPT ![d] = [m \in {req[w]} |-> obj[w].image]]
  BY <1>1, <1>2, <1>3, StoredListing DEF All, IInv
<1>5. Listing[d] = None
  BY <1>1, <1>2, ListingOf DEF All, IInv
<1> QED BY <1>1, <1>2, <1>4, <1>5 DEF Registered!Register, d

LEMMA PutRegisters ==
  ASSUME All, NEW w \in Workers, NEW answered \in BOOLEAN, PutContainer(w, answered)
  PROVE  Registered!Register(Target(w), req[w])
<1> DEFINE new == WithImage(held[w], obj[w].image, req[w])
           d == Target(w)
           f == held[w].ann.index
<1>1. /\ pc[w] = "putContainer" /\ w \in heldCurrent /\ Accepted(new)
      /\ ds' = [ds EXCEPT ![d] = new] /\ ppi' = ppi
  BY DEF PutContainer, UpdateDs, StoreDs
<1>2. /\ req[w] \in Names /\ obj[w].image \in Images /\ d \in DsNames
      /\ held[w] \in DaemonSet /\ WellFormed(held[w])
      /\ Registered!Protected(req[w]) /\ DsName[ppi[req[w]].selector] = d
  BY <1>1, Holding DEF AfterGetPpi, Calls, WithDs, PrePullImage
<1>3. new \in DaemonSet /\ new.ann.index = Put(f, req[w], obj[w].image)
  BY <1>1, <1>2, WithImageIsDaemonSet, WithImageWellFormed
<1>4. ds[d] = held[w] /\ held[w] # None
  BY <1>1 DEF All, IInv, Copies
<1> HIDE DEF new, d
<1>5. Listing' = [Listing EXCEPT ![d] = Put(f, req[w], obj[w].image)]
  <2>1. Listing' = [Listing EXCEPT ![d] = new.ann.index]
    BY <1>1, <1>2, <1>3, StoredListing DEF All, IInv
  <2> QED BY <1>3, <2>1
<1>6. Listing[d] = f /\ Listing[d] # None
  BY <1>2, <1>4, ListingOf DEF All, IInv
<1> QED BY <1>1, <1>2, <1>5, <1>6 DEF Registered!Register, Put, d

LEMMA PutWithdraws ==
  ASSUME All, NEW w \in Workers, NEW answered \in BOOLEAN, PutWithdrawn(w, answered)
  PROVE  Registered!Withdraw(Target(w), req[w])
<1> DEFINE new == Withdrawn(held[w], obj[w].image, req[w])
           d == Target(w)
           f == held[w].ann.index
<1>1. /\ pc[w] = "putWithdrawn" /\ w \in heldCurrent
      /\ ds' = [ds EXCEPT ![d] = new] /\ ppi' = ppi
  BY DEF PutWithdrawn, UpdateDs, StoreDs
<1>2. /\ req[w] \in Names /\ obj[w].image \in Images /\ d \in DsNames
      /\ held[w] \in DaemonSet /\ WellFormed(held[w]) /\ obj[w].deleting
      /\ Registered!Protected(req[w])
  BY <1>1, Holding DEF AfterGetPpi, Calls, WithDs, PrePullImage, Removing
<1>3. /\ new \in DaemonSet
      /\ new.ann.index = IF req[w] \in DOMAIN f THEN Without(f, req[w]) ELSE f
  BY <1>2, WithdrawnIsDaemonSet, WithdrawnCovers
<1>4. f = [m \in DOMAIN f |-> f[m]]
  BY <1>2, IndexIsFunction
<1>5. new.ann.index = [m \in DOMAIN f \ {req[w]} |-> f[m]]
  <2> HIDE DEF new, f
  <2>1. CASE req[w] \in DOMAIN f
    BY <1>3, <2>1 DEF Without, Restrict
  <2>2. CASE req[w] \notin DOMAIN f
    BY <1>3, <1>4, <2>2
  <2> QED BY <2>1, <2>2
<1>6. ds[d] = held[w] /\ held[w] # None
  BY <1>1 DEF All, IInv, Copies
<1>7. ppi[req[w]].deleting
  BY <1>1 DEF All, Leaving, Removing
<1> HIDE DEF new, d
<1>8. Listing' = [Listing EXCEPT ![d] = [m \in DOMAIN f \ {req[w]} |-> f[m]]]
  <2>1. Listing' = [Listing EXCEPT ![d] = new.ann.index]
    BY <1>1, <1>2, <1>3, StoredListing DEF All, IInv
  <2> QED BY <1>5, <2>1
<1>9. Listing[d] = f /\ Listing[d] # None
  BY <1>2, <1>6, ListingOf DEF All, IInv
<1> QED BY <1>1, <1>2, <1>7, <1>8, <1>9 DEF Registered!Withdraw, d

LEMMA DeleteWithdraws ==
  ASSUME All, NEW w \in Workers, NEW answered \in BOOLEAN, DeleteDs(w, answered),
         ~DeletesUnseen(w)
  PROVE  Registered!Withdraw(Target(w), req[w])
<1> DEFINE new == Withdrawn(held[w], obj[w].image, req[w])
           d == Target(w)
           f == held[w].ann.index
<1>1. /\ pc[w] = "deleteDs" /\ ds[d] # None
      /\ ppi' = ppi /\ ds' = [ds EXCEPT ![d] = None]
  BY DEF DeleteDs
<1>2. /\ req[w] \in Names /\ obj[w].image \in Images /\ d \in DsNames
      /\ held[w] \in DaemonSet /\ WellFormed(held[w])
      /\ Registered!Protected(req[w])
  BY <1>1, Holding DEF AfterGetPpi, Calls, WithDs, PrePullImage
<1>3. ds[d] = held[w] /\ held[w] # None
  <2>1. ds'[d] = None
    BY <1>1, <1>2 DEF All, IInv, TypeOK
  <2>2. w \in heldCurrent
    BY <1>1, <2>1 DEF DeletesUnseen
  <2> QED BY <2>2 DEF All, IInv, Copies
<1>4. new.containers = {}
  BY <1>1 DEF All, IInv, HeldWellFormed
<1>5. /\ new.ann.index = IF req[w] \in DOMAIN f THEN Without(f, req[w]) ELSE f
      /\ IndexedImages(new.ann.index) \subseteq new.containers
  BY <1>2, WithdrawnCovers
<1>6. ppi[req[w]].deleting
  BY <1>1 DEF All, Leaving, Removing
<1> HIDE DEF new
<1>7. DOMAIN new.ann.index = {}
  BY <1>4, <1>5 DEF IndexedImages
<1>8. DOMAIN f \subseteq {req[w]}
  BY <1>5, <1>7 DEF Without, Restrict
<1>9. Listing[d] = f /\ Listing[d] # None
  BY <1>2, <1>3, ListingOf DEF All, IInv
<1> HIDE DEF d, f
<1>10. Listing' = [Listing EXCEPT ![d] = None]
  BY <1>1, <1>2 DEF Listing, All, IInv, TypeOK
<1> QED BY <1>1, <1>2, <1>6, <1>8, <1>9, <1>10 DEF Registered!Withdraw, d

LEMMA RemoveReleases ==
  ASSUME All, NEW w \in Workers, NEW answered \in BOOLEAN, RemoveFinalizer(w, answered)
  PROVE  Registered!Release(req[w])
<1>1. pc[w] = "removeFinalizer" /\ w \in objCurrent
  BY DEF RemoveFinalizer
<1>2. ppi[req[w]] = obj[w] /\ ppi[req[w]].deleting /\ Registered!Protected(req[w])
  BY <1>1, Holding DEF All, IInv, Copies, AfterGetPpi, Calls, Removing
<1>3. \A d \in DsNames : ~Registered!Listed(d, req[w])
  BY <1>1, ListingOf DEF All, IInv, FInv, Unlisted, Registered!Listed
<1>4. Listing' = Listing
  BY DEF RemoveFinalizer, Listing
<1> QED
  BY <1>2, <1>3, <1>4
     DEF RemoveFinalizer, StorePpi, Stored, WithoutFinalizer, Registered!Release, Registered!Store

-----------------------------------------------------------------------------
LEMMA WorkerStep ==
  ASSUME All, NEW w \in Workers, Step(w), ~DeletesUnseen(w)
  PROVE  Registered!RNext \/ UNCHANGED <<ppi, Listing>>
<1>1. CASE Reads(w) \/ Refused(w) \/ CallFails(w) \/ Finish(w)
  BY <1>1 DEF Reads, GetPpi, GetDs, ListNodesForCreate, ListNodes, GetDsToRemove, Refused,
     CallFails, Finish, cluster, Listing
<1>2. ASSUME NEW answered \in BOOLEAN, Writes(w, answered)
      PROVE  Registered!RNext \/ UNCHANGED <<ppi, Listing>>
  <2>1. pc[w] \in AfterGetPpi
    BY <1>2 DEF Writes, AddFinalizer, CreateDs, PutContainer, PutTolerations, DropOrphans,
       PutWithdrawn, DeleteDs, RemoveFinalizer, AfterGetPpi, Calls
  <2>2. req[w] \in Names /\ Target(w) \in DsNames
    BY <2>1, Holding
  <2>3. CASE \/ AddFinalizer(w, answered) \/ CreateDs(w, answered)
             \/ PutContainer(w, answered) \/ PutWithdrawn(w, answered)
             \/ DeleteDs(w, answered) \/ RemoveFinalizer(w, answered)
    BY <2>2, <2>3, AddFinalizerProtects, CreateRegisters, PutRegisters, PutWithdraws,
       DeleteWithdraws, RemoveReleases DEF Registered!RNext
  <2>4. CASE PutTolerations(w, answered)
    <3> DEFINE new == [held[w] EXCEPT !.tolerations = @ \cup listed[w]]
    <3>1. UpdateDs(w, new, AfterTolerations(new), answered) /\ held[w] \in DaemonSet
      BY <2>1, <2>4, Holding DEF PutTolerations, WithDs
    <3>2. new \in DaemonSet /\ new.ann = held[w].ann
      BY <3>1 DEF All, IInv, TypeOK, DaemonSet
    <3> HIDE DEF new
    <3> QED BY <2>2, <3>1, <3>2, SameAnnotation DEF All, IInv
  <2>5. CASE DropOrphans(w, answered)
    <3> DEFINE new == WithoutOrphans(held[w])
    <3>1. UpdateDs(w, new, "succeeded", answered) /\ held[w] \in DaemonSet
      BY <2>1, <2>5, Holding DEF DropOrphans, WithDs
    <3>2. new \in DaemonSet /\ new.ann = held[w].ann
      BY <3>1, WithoutOrphansIsDaemonSet DEF WithoutOrphans, DaemonSet
    <3> HIDE DEF new
    <3> QED BY <2>2, <3>1, <3>2, SameAnnotation DEF All, IInv
  <2> QED BY <1>2, <2>3, <2>4, <2>5 DEF Writes
<1> QED BY <1>1, <1>2 DEF Step

(* The users and the other controllers. *)
LEMMA UsersStep ==
  ASSUME IInv, ~SelectorsMutable, Environment
  PROVE  Registered!RNext \/ UNCHANGED <<ppi, Listing>>
<1>1. Listing' = Listing
  BY DEF Environment, UserCreates, UserEditsImage, UserEditsSelector, UserDeletes,
     ForeignFinalizerRemoved, NodeTainted, Listing
<1>2. \A m \in Names : ppi[m] # None => ppi[m] \in PrePullImage
  BY DEF IInv, TypeOK
<1>3. ASSUME NEW n \in Names, UserCreates(n) PROVE Registered!UserCreates(n)
  <2>1. PICK i \in Images, s \in Selectors, f \in SUBSET Foreign :
          ppi' = [ppi EXCEPT ![n] =
            Stored([image |-> i, selector |-> s, deleting |-> FALSE, finalizers |-> f])]
    BY <1>3 DEF UserCreates, StorePpi
  <2> DEFINE o == [image |-> i, selector |-> s, deleting |-> FALSE, finalizers |-> f]
  <2>2. o \in Registered!PrePullImage /\ ~o.deleting /\ FinalizerName \notin o.finalizers
    BY ConstantsAssumption DEF Registered!PrePullImage
  <2> HIDE DEF o
  <2> QED
    BY <1>1, <1>3, <2>1, <2>2
       DEF UserCreates, Registered!UserCreates, Registered!Store, Stored, o
<1>4. ASSUME NEW n \in Names, ppi[n] # None, NEW o \in PrePullImage,
             o.selector = ppi[n].selector, ppi[n].deleting => o.deleting,
             FinalizerName \in o.finalizers <=> FinalizerName \in ppi[n].finalizers,
             ppi' = [ppi EXCEPT ![n] = Stored(o)]
      PROVE  Registered!UserChanges(n)
  BY <1>1, <1>4
     DEF Registered!UserChanges, Registered!Store, Stored, PrePullImage, Registered!PrePullImage
<1>5. ASSUME NEW n \in Names, UserEditsImage(n) PROVE Registered!UserChanges(n)
  <2>1. PICK i \in Images :
          ppi[n] # None /\ ppi' = [ppi EXCEPT ![n] = Stored([ppi[n] EXCEPT !.image = i])]
    BY <1>5 DEF UserEditsImage, StorePpi
  <2> DEFINE o == [ppi[n] EXCEPT !.image = i]
  <2>2. /\ o \in PrePullImage /\ o.selector = ppi[n].selector
        /\ o.deleting = ppi[n].deleting /\ o.finalizers = ppi[n].finalizers
    BY <1>2, <2>1 DEF PrePullImage
  <2> HIDE DEF o
  <2> QED BY <1>4, <2>1, <2>2 DEF o
<1>6. ASSUME NEW n \in Names, UserDeletes(n) PROVE Registered!UserChanges(n)
  <2> DEFINE o == [ppi[n] EXCEPT !.deleting = TRUE]
  <2>1. ppi[n] # None /\ ppi' = [ppi EXCEPT ![n] = Stored(o)]
    BY <1>6 DEF UserDeletes, StorePpi
  <2>2. /\ o \in PrePullImage /\ o.selector = ppi[n].selector
        /\ o.deleting /\ o.finalizers = ppi[n].finalizers
    BY <1>2, <2>1 DEF PrePullImage
  <2> HIDE DEF o
  <2> QED BY <1>4, <2>1, <2>2 DEF o
<1>7. ASSUME NEW n \in Names, ForeignFinalizerRemoved(n) PROVE Registered!UserChanges(n)
  <2>1. PICK f \in Foreign :
          /\ ppi[n] # None
          /\ ppi' = [ppi EXCEPT ![n] = Stored([ppi[n] EXCEPT !.finalizers = @ \ {f}])]
    BY <1>7 DEF ForeignFinalizerRemoved, StorePpi
  <2> DEFINE o == [ppi[n] EXCEPT !.finalizers = @ \ {f}]
  <2>2. /\ o \in PrePullImage /\ o.selector = ppi[n].selector
        /\ o.deleting = ppi[n].deleting /\ o.finalizers = ppi[n].finalizers \ {f}
    BY <1>2, <2>1 DEF PrePullImage
  <2>3. f # FinalizerName
    BY ConstantsAssumption
  <2> HIDE DEF o
  <2> QED BY <1>4, <2>1, <2>2, <2>3 DEF o
<1>8. ASSUME NEW node \in Nodes, NodeTainted(node) PROVE UNCHANGED <<ppi, Listing>>
  BY <1>1, <1>8 DEF NodeTainted
<1> QED
  BY <1>3, <1>5, <1>6, <1>7, <1>8 DEF Environment, UserEditsSelector, Registered!RNext

(* Workers with keys of their own do what Registry says, whatever crashes, *)
(* fails or is edited between their calls: nothing is listed unprotected,  *)
(* only what is being deleted is withdrawn, and nobody who is listed is    *)
(* released.  A DaemonSet goes only if it lists nobody else, provided that *)
(* no worker deletes one that has changed since it was read.               *)
THEOREM WorkersImplementRegistry ==
  ASSUME OneWorkerPerKey, ~SelectorsMutable
  PROVE  Spec /\ [][\A w \in Workers : ~DeletesUnseen(w)]_vars => ImplementsRegistry
<1> DEFINE Seeing == \A w \in Workers : ~DeletesUnseen(w)
<1>1. Init => Registered!RInit
  BY DEF Init, Registered!RInit, Listing
<1>2. Init => Sides /\ Leaving
  BY DEF Init, Sides, Leaving, Removing, AfterGetPpi, Calls
<1>3. IInv /\ Sides /\ FInv /\ FInv' /\ Leaving /\ [Next]_vars => Sides' /\ Leaving'
  BY NextKeepsSides, NextKeepsLeaving
<1>4. IInv /\ Sides /\ FInv /\ Leaving /\ [Next]_vars /\ [Seeing]_vars
        => [Registered!RNext]_(Registered!rvars)
  <2> SUFFICES ASSUME All, [Next]_vars, [Seeing]_vars
               PROVE  Registered!RNext \/ UNCHANGED <<ppi, Listing>>
    BY DEF All, Registered!rvars
  <2>1. CASE Crash \/ UNCHANGED vars \/ \E w \in Workers, n \in Names : Start(w, n)
    BY <2>1 DEF Crash, vars, Start, cluster, Listing
  <2>2. ASSUME ~UNCHANGED vars, NEW w \in Workers, Step(w)
        PROVE  Registered!RNext \/ UNCHANGED <<ppi, Listing>>
    BY <2>2, WorkerStep
  <2> QED BY <2>1, <2>2, UsersStep DEF Next, All
<1> HIDE DEF Seeing
<1>5. Spec /\ [][Seeing]_vars => ImplementsRegistry
  BY <1>1, <1>2, <1>3, <1>4, Invariance, FInvariance, PTL
     DEF Spec, ImplementsRegistry, Registered!RSpec
<1> QED BY <1>5 DEF Seeing

(* So a lone worker does all that Registry says.                           *)
THEOREM ReconcilerImplementsRegistry ==
  ASSUME Alone, ~SelectorsMutable
  PROVE  Spec => ImplementsRegistry
<1>1. Spec => [][\A w \in Workers : ~DeletesUnseen(w)]_vars
  BY LoneInvariance, LoneSees, PTL
<1> QED BY <1>1, AloneMeansOnePerKey, WorkersImplementRegistry
=============================================================================

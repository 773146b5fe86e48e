----------------------------- MODULE Reconciler -----------------------------
(***************************************************************************)
(* prePullImageReconciller.Reconcile of                                    *)
(* internal/controller/prepullimage_reconciller.go, run by several workers *)
(* at once against the Kubernetes API server.                              *)
(*                                                                         *)
(* One action is one call to the API server together with the local        *)
(* computation up to the next call, so two workers, the users who edit     *)
(* PrePullImages and the controllers that share the cluster interleave     *)
(* between any two calls.  pc names the call a worker is about to make.    *)
(*                                                                         *)
(* Namespaces do not interact (a PrePullImage and its DaemonSet live in    *)
(* the same one), so the model is of one namespace.                        *)
(***************************************************************************)
EXTENDS ImageIndex

CONSTANTS
  Names,             \* the names a PrePullImage may have
  Images,            \* the images a spec may ask for
  Selectors,         \* the nodeSelectors a spec may have
  SelectorsMutable,  \* may users edit the nodeSelector of a PrePullImage?
  Foreign,           \* finalizers that other controllers put on PrePullImages
  FinalizerName,     \* the finalizer of this controller
  Nodes,             \* the nodes of the cluster
  Selects,           \* [Selectors -> SUBSET Nodes]: whose labels match
  Taints,            \* the taints a node may have
  BuiltinTaints,     \* those of them whose key is under node.kubernetes.io
  DsNames,           \* the names a DaemonSet may have
  DsName,            \* [Selectors -> DsNames]: makeDaemonSetName
  CtrNames,          \* the names an init container may have
  CtrName,           \* [Images -> CtrNames]: makePrePullContainerNameFromString
  Workers,           \* the goroutines that call Reconcile
  Serves,            \* [Workers -> SUBSET Names]: the keys each of them gets
  None               \* no object (nil, or NotFound)

ASSUME ConstantsAssumption ==
  /\ SelectorsMutable \in BOOLEAN
  /\ FinalizerName \notin Foreign
  /\ Selects \in [Selectors -> SUBSET Nodes]
  /\ BuiltinTaints \subseteq Taints
  /\ DsName \in [Selectors -> DsNames]
  /\ CtrName \in [Images -> CtrNames]
  /\ Serves \in [Workers -> SUBSET Names]
  /\ None \notin Names

VARIABLES
  ppi,         \* [Names -> PrePullImage or None]: what the API server stores
  ds,          \* [DsNames -> DaemonSet or None]: what the API server stores
  taints,      \* [Nodes -> SUBSET Taints]
  pc,          \* [Workers -> Labels]: the call each worker makes next
  req,         \* [Workers -> Names or None]: the request being reconciled
  obj,         \* the worker's copy of the PrePullImage
  objCurrent,  \* the workers whose obj has the stored resourceVersion
  held,        \* the worker's copy of the DaemonSet
  heldCurrent, \* the workers whose held has the stored resourceVersion
  listed       \* the tolerations the worker got from listing the nodes

vars == <<ppi, ds, taints, pc, req, obj, objCurrent, held, heldCurrent, listed>>
cluster == <<ppi, ds, taints>>

PrePullImage ==
  [image : Images, selector : Selectors, deleting : BOOLEAN,
   finalizers : SUBSET (Foreign \cup {FinalizerName})]

(* ann and podAnn are the image-names annotations of the DaemonSet and of  *)
(* its pod template.  An init container is known by its image, a           *)
(* toleration by the taint it was made from (the conversion is injective). *)
DaemonSet ==
  [ann : Lookups(Names, Images), podAnn : Lookups(Names, Images),
   containers : SUBSET Images, tolerations : SUBSET Taints]

ASSUME NoneAssumption ==
  /\ None \notin PrePullImage \cup DaemonSet
  /\ \A S \in SUBSET Names : None \notin [S -> Images]

Calls == {"getPpi", "addFinalizer", "getDs", "listNodesForCreate", "createDs",
          "putContainer", "listNodes", "putTolerations", "dropOrphans",
          "getDsToRemove", "putWithdrawn", "deleteDs", "removeFinalizer"}
Labels == Calls \cup {"idle", "succeeded", "failed"}

(* The calls for a PrePullImage that was found deleted. *)
Removing == {"getDsToRemove", "putWithdrawn", "deleteDs", "removeFinalizer"}

TypeOK ==
  /\ ppi \in [Names -> PrePullImage \cup {None}]
  /\ ds \in [DsNames -> DaemonSet \cup {None}]
  /\ taints \in [Nodes -> SUBSET Taints]
  /\ pc \in [Workers -> Labels]
  /\ req \in [Workers -> Names \cup {None}]
  /\ obj \in [Workers -> PrePullImage \cup {None}]
  /\ objCurrent \subseteq Workers
  /\ held \in [Workers -> DaemonSet \cup {None}]
  /\ heldCurrent \subseteq Workers
  /\ listed \in [Workers -> SUBSET Taints]

Init ==
  /\ ppi = [n \in Names |-> None]
  /\ ds = [d \in DsNames |-> None]
  /\ taints \in [Nodes -> SUBSET Taints]
  /\ pc = [w \in Workers |-> "idle"]
  /\ req = [w \in Workers |-> None]
  /\ obj = [w \in Workers |-> None]
  /\ objCurrent = {}
  /\ held = [w \in Workers |-> None]
  /\ heldCurrent = {}
  /\ listed = [w \in Workers |-> {}]

-----------------------------------------------------------------------------
(* What Reconcile computes locally.                                        *)

(* ContainsFinalizer, AddFinalizer and RemoveFinalizer of utils.           *)
HasFinalizer(o) == FinalizerName \in o.finalizers
WithFinalizer(o) == [o EXCEPT !.finalizers = @ \cup {FinalizerName}]
WithoutFinalizer(o) == [o EXCEPT !.finalizers = @ \ {FinalizerName}]

(* The DaemonSet of the PrePullImage a worker holds. *)
Target(w) == DsName[obj[w].selector]

(* getTolerationsByNodeSelector: one toleration for each taint of a        *)
(* selected node, the builtin taints left out.                             *)
TolerationsFor(selector) ==
  (UNION {taints[node] : node \in Selects[selector]}) \ BuiltinTaints

(* The DaemonSet ensurePrePullContainerInDaemonSet sends. *)
WithImage(h, image, name) ==
  LET ann == AddImageName(h.ann, image, name)
  IN  [h EXCEPT !.ann = ann, !.podAnn = ann, !.containers = h.containers \cup {image}]

(* Mutant: a container that is declared is taken to be annotated too. *)
HasContainer(h, image, name) == image \in h.containers

(* Its early return: the container is declared and the name annotated. *)
HasImage(h, image, name) ==
  image \in h.containers /\ HasImageName(h.ann, image, name)

(* The containers ensureDaemonsetPrepullOnlyImagesFromAnnotation drops:    *)
(* those whose name is not made from an image of the inverted index.       *)
Orphans(h) ==
  {image \in h.containers :
     CtrName[image] \notin {CtrName[i] : i \in DOMAIN h.ann.inv}}

WithoutOrphans(h) == [h EXCEPT !.containers = h.containers \ Orphans(h)]

(* Mutant: the container of the image goes with the first of its names. *)
WithdrawnAlways(h, image, name) ==
  LET ann == RemoveImageName(h.ann, image, name)
  IN  [h EXCEPT !.ann = ann, !.podAnn = ann, !.containers = h.containers \ {image}]

(* The DaemonSet removeFromPrePulling computes: the name leaves the        *)
(* annotation, the container of the image in the PrePullImage's spec goes  *)
(* if no other name is listed under it.                                    *)
Withdrawn(h, image, name) ==
  LET ann == RemoveImageName(h.ann, image, name)
  IN  [h EXCEPT
         !.ann = ann,
         !.podAnn = ann,
         !.containers = IF ListedUnder(ann.inv, image) = {} THEN @ \ {image} ELSE @]

(* createDaemonSetForPrePulling *)
NewDaemonSet(image, name, tolerations) ==
  [ann |-> SingleImageName(image, name), podAnn |-> SingleImageName(image, name),
   containers |-> {image}, tolerations |-> tolerations]

(* The next call once the DaemonSet h has been fetched or created ...      *)
AfterFetch(h, o, name) ==
  IF HasImage(h, o.image, name) THEN "listNodes" ELSE "putContainer"
(* ... and once its tolerations are in order. *)
AfterTolerations(h) == IF Orphans(h) = {} THEN "succeeded" ELSE "dropOrphans"

-----------------------------------------------------------------------------
(* What the API server does.                                               *)

(* It refuses a pod template with two init containers of one name. *)
Accepted(h) ==
  \A i, j \in h.containers : CtrName[i] = CtrName[j] => i = j

(* An object whose last finalizer goes while it is being deleted is gone.  *)
Stored(o) == IF o.deleting /\ o.finalizers = {} THEN None ELSE o

(* Storing a PrePullImage gives it a new resourceVersion, which makes      *)
(* every copy of it stale, except that of the worker who gets the reply.   *)
StorePpi(n, o, writers) ==
  /\ ppi' = [ppi EXCEPT ![n] = Stored(o)]
  /\ objCurrent' = {v \in objCurrent : req[v] # n} \cup writers

(* So does storing a DaemonSet, if anything in it changes. *)
StoreDs(w, new) ==
  /\ ds' = [ds EXCEPT ![Target(w)] = new]
  /\ heldCurrent' = IF new = ds[Target(w)] THEN heldCurrent
                    ELSE {v \in heldCurrent : Target(v) # Target(w)} \cup {w}

(* Mutant: an update that carries no resourceVersion. *)
UpdateDsBlindly(w, new, next, answered) ==
  /\ ds[Target(w)] # None /\ Accepted(new)
  /\ StoreDs(w, new)
  /\ held' = [held EXCEPT ![w] = new]
  /\ pc' = [pc EXCEPT ![w] = IF answered THEN next ELSE "failed"]
  /\ UNCHANGED <<ppi, taints, req, obj, objCurrent, listed>>

(* DaemonSets().Update with the resourceVersion the worker read: stored    *)
(* only from a copy that is current.  The reply becomes the copy; when it  *)
(* is lost the worker sees an error of a call that took effect.            *)
UpdateDs(w, new, next, answered) ==
  /\ w \in heldCurrent /\ Accepted(new)
  /\ StoreDs(w, new)
  /\ held' = [held EXCEPT ![w] = new]
  /\ pc' = [pc EXCEPT ![w] = IF answered THEN next ELSE "failed"]
  /\ UNCHANGED <<ppi, taints, req, obj, objCurrent, listed>>

-----------------------------------------------------------------------------
(* Reconcile, call by call.                                                *)

Goto(w, label) == pc' = [pc EXCEPT ![w] = label]

(* Reconcile is called with a request for n. *)
Start(w, n) ==
  /\ pc[w] = "idle" /\ n \in Serves[w]
  /\ Goto(w, "getPpi")
  /\ req' = [req EXCEPT ![w] = n]
  /\ UNCHANGED <<cluster, obj, objCurrent, held, heldCurrent, listed>>

(* Mutant: the finalizer is never added. *)
AfterGetWithoutFinalizer(o) ==
  IF ~o.deleting THEN "getDs"
  ELSE IF HasFinalizer(o) THEN "getDsToRemove" ELSE "succeeded"

(* Mutant: the finalizer goes before the entry does. *)
AfterGetReleasing(o) ==
  IF ~o.deleting
  THEN IF HasFinalizer(o) THEN "getDs" ELSE "addFinalizer"
  ELSE IF HasFinalizer(o) THEN "removeFinalizer" ELSE "succeeded"

(* Where Reconcile goes with the PrePullImage it read. *)
AfterGet(o) ==
  IF ~o.deleting
  THEN IF HasFinalizer(o) THEN "getDs" ELSE "addFinalizer"
  ELSE IF HasFinalizer(o) THEN "getDsToRemove" ELSE "succeeded"

(* PrePullImages().Get; a PrePullImage that is not there is a success. *)
GetPpi(w) ==
  /\ pc[w] = "getPpi"
  /\ \/ /\ ppi[req[w]] = None
        /\ Goto(w, "succeeded")
        /\ UNCHANGED <<obj, objCurrent>>
     \/ /\ ppi[req[w]] # None
        /\ Goto(w, AfterGet(ppi[req[w]]))
        /\ obj' = [obj EXCEPT ![w] = ppi[req[w]]]
        /\ objCurrent' = objCurrent \cup {w}
  /\ UNCHANGED <<cluster, req, held, heldCurrent, listed>>

(* PrePullImages().Update with the finalizer; the reply becomes obj. *)
AddFinalizer(w, answered) ==
  /\ pc[w] = "addFinalizer" /\ w \in objCurrent
  /\ StorePpi(req[w], WithFinalizer(obj[w]), {w})
  /\ obj' = [obj EXCEPT ![w] = WithFinalizer(obj[w])]
  /\ Goto(w, IF answered THEN "getDs" ELSE "failed")
  /\ UNCHANGED <<ds, taints, req, held, heldCurrent, listed>>

(* DaemonSets().Get of ensurePrePulling. *)
GetDs(w) ==
  /\ pc[w] = "getDs"
  /\ \/ /\ ds[Target(w)] = None
        /\ Goto(w, "listNodesForCreate")
        /\ UNCHANGED <<held, heldCurrent>>
     \/ /\ ds[Target(w)] # None
        /\ Goto(w, AfterFetch(ds[Target(w)], obj[w], req[w]))
        /\ held' = [held EXCEPT ![w] = ds[Target(w)]]
        /\ heldCurrent' = heldCurrent \cup {w}
  /\ UNCHANGED <<cluster, req, obj, objCurrent, listed>>

(* Nodes().List of createDaemonSetForPrePulling. *)
ListNodesForCreate(w) ==
  /\ pc[w] = "listNodesForCreate"
  /\ listed' = [listed EXCEPT ![w] = TolerationsFor(obj[w].selector)]
  /\ Goto(w, "createDs")
  /\ UNCHANGED <<cluster, req, obj, objCurrent, held, heldCurrent>>

(* DaemonSets().Create *)
CreateDs(w, answered) ==
  /\ pc[w] = "createDs" /\ ds[Target(w)] = None
  /\ LET new == NewDaemonSet(obj[w].image, req[w], listed[w])
     IN  /\ StoreDs(w, new)
         /\ held' = [held EXCEPT ![w] = new]
         /\ Goto(w, IF answered THEN AfterFetch(new, obj[w], req[w]) ELSE "failed")
  /\ UNCHANGED <<ppi, taints, req, obj, objCurrent, listed>>

(* DaemonSets().Update of ensurePrePullContainerInDaemonSet. *)
PutContainer(w, answered) ==
  /\ pc[w] = "putContainer"
  /\ UpdateDs(w, WithImage(held[w], obj[w].image, req[w]), "listNodes", answered)

(* Nodes().List of ensureDaemonsetHasProperTolerations; the tolerations    *)
(* the DaemonSet has already are not added again.                          *)
ListNodes(w) ==
  /\ pc[w] = "listNodes"
  /\ LET missing == TolerationsFor(obj[w].selector) \ held[w].tolerations
     IN  /\ listed' = [listed EXCEPT ![w] = missing]
         /\ Goto(w, IF missing = {} THEN AfterTolerations(held[w]) ELSE "putTolerations")
  /\ UNCHANGED <<cluster, req, obj, objCurrent, held, heldCurrent>>

(* DaemonSets().Update of ensureDaemonsetHasProperTolerations. *)
PutTolerations(w, answered) ==
  /\ pc[w] = "putTolerations"
  /\ LET new == [held[w] EXCEPT !.tolerations = @ \cup listed[w]]
     IN  UpdateDs(w, new, AfterTolerations(new), answered)

(* DaemonSets().Update of ensureDaemonsetPrepullOnlyImagesFromAnnotation. *)
DropOrphans(w, answered) ==
  /\ pc[w] = "dropOrphans"
  /\ UpdateDs(w, WithoutOrphans(held[w]), "succeeded", answered)

(* DaemonSets().Get of removeFromPrePulling, and the choice it makes       *)
(* between updating the DaemonSet and deleting it.                         *)
GetDsToRemove(w) ==
  /\ pc[w] = "getDsToRemove"
  /\ \/ /\ ds[Target(w)] = None
        /\ Goto(w, "removeFinalizer")
        /\ UNCHANGED <<held, heldCurrent>>
     \/ /\ ds[Target(w)] # None
        /\ held' = [held EXCEPT ![w] = ds[Target(w)]]
        /\ heldCurrent' = heldCurrent \cup {w}
        /\ Goto(w, IF Withdrawn(held'[w], obj[w].image, req[w]).containers # {}
                   THEN "putWithdrawn" ELSE "deleteDs")
  /\ UNCHANGED <<cluster, req, obj, objCurrent, listed>>

(* DaemonSets().Update of removeFromPrePulling. *)
PutWithdrawn(w, answered) ==
  /\ pc[w] = "putWithdrawn"
  /\ UpdateDs(w, Withdrawn(held[w], obj[w].image, req[w]), "removeFinalizer", answered)

(* DaemonSets().Delete of removeFromPrePulling: by name, with no           *)
(* precondition on the version of the DaemonSet the worker looked at.      *)
DeleteDs(w, answered) ==
  /\ pc[w] = "deleteDs" /\ ds[Target(w)] # None
  /\ ds' = [ds EXCEPT ![Target(w)] = None]
  /\ heldCurrent' = {v \in heldCurrent : Target(v) # Target(w)}
  /\ Goto(w, IF answered THEN "removeFinalizer" ELSE "failed")
  /\ UNCHANGED <<ppi, taints, req, obj, objCurrent, held, listed>>

(* PrePullImages().Update without the finalizer, the reply ignored. *)
RemoveFinalizer(w, answered) ==
  /\ pc[w] = "removeFinalizer" /\ w \in objCurrent
  /\ StorePpi(req[w], WithoutFinalizer(obj[w]), {})
  /\ Goto(w, IF answered THEN "succeeded" ELSE "failed")
  /\ UNCHANGED <<ds, taints, req, obj, held, heldCurrent, listed>>

(* The API server refuses the call: a stale resourceVersion (Conflict, or  *)
(* NotFound when the object has gone), a DaemonSet that is there already   *)
(* or not there any more, or one with two containers of a name.            *)
Refused(w) ==
  /\ \/ pc[w] \in {"addFinalizer", "removeFinalizer"} /\ w \notin objCurrent
     \/ /\ pc[w] \in {"putContainer", "putTolerations", "dropOrphans", "putWithdrawn"}
        /\ w \notin heldCurrent
     \/ /\ pc[w] = "putContainer"
        /\ ~Accepted(WithImage(held[w], obj[w].image, req[w]))
     \/ pc[w] = "createDs" /\ ds[Target(w)] # None
     \/ pc[w] = "deleteDs" /\ ds[Target(w)] = None
  /\ Goto(w, "failed")
  /\ UNCHANGED <<cluster, req, obj, objCurrent, held, heldCurrent, listed>>

(* Any call may fail without taking effect: a timeout, a connection        *)
(* refused, a DaemonSet status written in between.                         *)
CallFails(w) ==
  /\ pc[w] \in Calls
  /\ Goto(w, "failed")
  /\ UNCHANGED <<cluster, req, obj, objCurrent, held, heldCurrent, listed>>

(* Reconcile has returned; its locals are garbage. *)
Finish(w) ==
  /\ pc[w] \in {"succeeded", "failed"}
  /\ Goto(w, "idle")
  /\ req' = [req EXCEPT ![w] = None]
  /\ obj' = [obj EXCEPT ![w] = None]
  /\ held' = [held EXCEPT ![w] = None]
  /\ listed' = [listed EXCEPT ![w] = {}]
  /\ objCurrent' = objCurrent \ {w}
  /\ heldCurrent' = heldCurrent \ {w}
  /\ UNCHANGED cluster

(* The process dies: every worker forgets what it was doing. *)
Crash ==
  /\ \E w \in Workers : pc[w] # "idle"
  /\ pc' = [w \in Workers |-> "idle"]
  /\ req' = [w \in Workers |-> None]
  /\ obj' = [w \in Workers |-> None]
  /\ held' = [w \in Workers |-> None]
  /\ listed' = [w \in Workers |-> {}]
  /\ objCurrent' = {}
  /\ heldCurrent' = {}
  /\ UNCHANGED cluster

(* The calls that read, and those that write. *)
Reads(w) ==
  GetPpi(w) \/ GetDs(w) \/ ListNodesForCreate(w) \/ ListNodes(w) \/ GetDsToRemove(w)

Writes(w, answered) ==
  \/ AddFinalizer(w, answered) \/ CreateDs(w, answered)
  \/ PutContainer(w, answered) \/ PutTolerations(w, answered)
  \/ DropOrphans(w, answered) \/ PutWithdrawn(w, answered)
  \/ DeleteDs(w, answered) \/ RemoveFinalizer(w, answered)

Step(w) ==
  \/ Reads(w)
  \/ \E answered \in BOOLEAN : Writes(w, answered)
  \/ Refused(w) \/ CallFails(w) \/ Finish(w)

-----------------------------------------------------------------------------
(* The users, the other controllers and the nodes.                         *)

locals == <<pc, req, obj, held, heldCurrent, listed>>

UserCreates(n) ==
  /\ ppi[n] = None
  /\ \E i \in Images, s \in Selectors, f \in SUBSET Foreign :
       StorePpi(n, [image |-> i, selector |-> s, deleting |-> FALSE, finalizers |-> f], {})
  /\ UNCHANGED <<ds, taints, locals>>

UserEditsImage(n) ==
  /\ ppi[n] # None
  /\ \E i \in Images \ {ppi[n].image} : StorePpi(n, [ppi[n] EXCEPT !.image = i], {})
  /\ UNCHANGED <<ds, taints, locals>>

(* The CRD does not make spec.nodeSelector immutable. *)
UserEditsSelector(n) ==
  /\ ppi[n] # None /\ SelectorsMutable
  /\ \E s \in Selectors \ {ppi[n].selector} : StorePpi(n, [ppi[n] EXCEPT !.selector = s], {})
  /\ UNCHANGED <<ds, taints, locals>>

UserDeletes(n) ==
  /\ ppi[n] # None /\ ~ppi[n].deleting
  /\ StorePpi(n, [ppi[n] EXCEPT !.deleting = TRUE], {})
  /\ UNCHANGED <<ds, taints, locals>>

ForeignFinalizerRemoved(n) ==
  /\ ppi[n] # None
  /\ \E f \in ppi[n].finalizers \cap Foreign :
       StorePpi(n, [ppi[n] EXCEPT !.finalizers = @ \ {f}], {})
  /\ UNCHANGED <<ds, taints, locals>>

NodeTainted(node) ==
  /\ \E T \in (SUBSET Taints) \ {taints[node]} : taints' = [taints EXCEPT ![node] = T]
  /\ UNCHANGED <<ppi, ds, objCurrent, locals>>

Environment ==
  \/ \E n \in Names :
       \/ UserCreates(n) \/ UserEditsImage(n) \/ UserEditsSelector(n)
       \/ UserDeletes(n) \/ ForeignFinalizerRemoved(n)
  \/ \E node \in Nodes : NodeTainted(node)

Next ==
  \/ \E w \in Workers, n \in Names : Start(w, n)
  \/ \E w \in Workers : Step(w)
  \/ Crash
  \/ Environment

Spec == Init /\ [][Next]_vars

-----------------------------------------------------------------------------
(* What the code promises.                                                 *)

(* The key of a PrePullImage goes to one worker only: what the hash of     *)
(* getWorkerQueue gives as long as one process leads.                      *)
OneWorkerPerKey == \A v, w \in Workers : v # w => Serves[v] \cap Serves[w] = {}

(* A DaemonSet pre-pulls everything its annotation lists, and the two maps *)
(* of the annotation, and its copy on the pod template, tell one story.    *)
WellFormed(h) ==
  /\ Consistent(h.ann)
  /\ h.podAnn = h.ann
  /\ IndexedImages(h.ann.index) \subseteq h.containers
  /\ h.containers # {}
  /\ Accepted(h)

(* No interleaving of reconciles, failed calls, lost replies and crashes   *)
(* ever leaves a stored DaemonSet whose annotation names an image that no  *)
(* container pulls, whose two maps disagree or whose pods carry another    *)
(* annotation ("We should have same annotations on pod").                  *)
DsWellFormed == \A d \in DsNames : ds[d] # None => WellFormed(ds[d])

(* The finalizer does its work: as long as a DaemonSet lists a             *)
(* PrePullImage, that PrePullImage is stored, carries the finalizer and    *)
(* belongs to that DaemonSet.  So no DaemonSet keeps pulling for a         *)
(* PrePullImage that is gone.                                              *)
FinalizerProtects ==
  \A d \in DsNames : ds[d] # None =>
    \A n \in DOMAIN ds[d].ann.index :
      /\ ppi[n] # None
      /\ FinalizerName \in ppi[n].finalizers
      /\ DsName[ppi[n].selector] = d

(* The names whose entry differs between two indexes. *)
EntriesChanged(a, b) ==
  {n \in DOMAIN a \cup DOMAIN b :
     ~(n \in DOMAIN a /\ n \in DOMAIN b /\ a[n] = b[n])}

(* No lost update: a step that leaves a DaemonSet in place touches the     *)
(* entry of one PrePullImage only, the one that the worker who takes the   *)
(* step is reconciling, so a worker never writes back what it read before  *)
(* another worker changed it.                                              *)
ChangesOneEntry ==
  \A d \in DsNames :
    ds[d] # None /\ ds'[d] # None =>
      \/ ds'[d].ann.index = ds[d].ann.index
      \/ \E w \in Workers :
           /\ pc'[w] # pc[w] /\ Target(w) = d
           /\ EntriesChanged(ds[d].ann.index, ds'[d].ann.index) = {req[w]}

OneEntryAtATime == [][ChangesOneEntry]_vars

(* The PrePullImage n is pre-pulled as its spec asks. *)
Pulled(n) ==
  /\ ppi[n] # None
  /\ LET h == ds[DsName[ppi[n].selector]]
     IN  /\ h # None
         /\ n \in DOMAIN h.ann.index
         /\ h.ann.index[n] = ppi[n].image
         /\ ppi[n].image \in h.containers

(* A PrePullImage that nobody edits, deletes or reconciles. *)
Bystander(n) ==
  /\ ppi[n] # None /\ ~ppi[n].deleting
  /\ ppi'[n] = ppi[n]
  /\ \A w \in Workers : req[w] # n

(* Reconciling one PrePullImage never takes the image of another one away. *)
KeepsBystanders == \A n \in Names : Bystander(n) /\ Pulled(n) => Pulled(n)'

BystandersStayPulled == [][KeepsBystanders]_vars

(* With several workers the one thing that can take it away is the Delete  *)
(* of removeFromPrePulling, issued after the DaemonSet got an entry that   *)
(* the deleting worker has not seen.                                       *)
DeletesUnseen(w) ==
  /\ pc[w] = "deleteDs" /\ ds[Target(w)] # None /\ ds'[Target(w)] = None
  /\ w \notin heldCurrent

UnpulledOnlyByUnseenDelete ==
  [][KeepsBystanders \/ \E w \in Workers : DeletesUnseen(w)]_vars

(* What the annotations of the DaemonSets say. *)
Listing == [d \in DsNames |-> IF ds[d] = None THEN None ELSE ds[d].ann.index]

Registered == INSTANCE Registry WITH listing <- Listing

(* A lone worker, with crashes, lost replies and users between any two of  *)
(* its calls, does what Registry says: nothing is listed unprotected, only *)
(* what is being deleted is withdrawn, a DaemonSet goes only if it lists   *)
(* nobody else, and nobody who is listed is released.  So do several, as   *)
(* long as no step DeletesUnseen.                                          *)
ImplementsRegistry == Registered!RSpec

(* What a worker that is alone knows when Reconcile returns nil: the       *)
(* PrePullImage it read, unless it was being deleted, is pre-pulled by a   *)
(* DaemonSet that tolerates the taints that were missing when the nodes    *)
(* were listed, none of them builtin, and that has no container besides    *)
(* those of its annotation.                                                *)
SuccessMeansPulled ==
  \A w \in Workers :
    pc[w] = "succeeded" /\ obj[w] # None /\ ~obj[w].deleting =>
      LET h == ds[Target(w)]
      IN  /\ h # None
          /\ req[w] \in DOMAIN h.ann.index /\ h.ann.index[req[w]] = obj[w].image
          /\ h.containers = IndexedImages(h.ann.index)
          /\ listed[w] \subseteq h.tolerations
          /\ h.tolerations \cap BuiltinTaints = {}

(* After a reconcile no other DaemonSet lists the PrePullImage ("Ensure    *)
(* annotation matches real data", prepullimage_reconciller_test.go:106):   *)
(* true as long as no nodeSelector is edited, whatever is deleted, created *)
(* anew, crashes or fails; false after an edit, for the DaemonSet of the   *)
(* old nodeSelector is never looked at again.                              *)
ListedInItsDaemonSetOnly ==
  \A w \in Workers :
    pc[w] = "succeeded" /\ obj[w] # None =>
      \A d \in DsNames \ {Target(w)} :
        ds[d] # None => req[w] \notin DOMAIN ds[d].ann.index

(* A DaemonSet that no PrePullImage is listed in is deleted               *)
(* ("daemonset should be deleted", prepullimage_reconciller_test.go:230):  *)
(* false when the image was edited and the PrePullImage deleted before the *)
(* edit was reconciled.                                                    *)
NoDaemonSetWithoutImages ==
  \A d \in DsNames : ds[d] # None => DOMAIN ds[d].ann.index # {}
=============================================================================

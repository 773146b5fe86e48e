-------------------------- MODULE ReconcilerProofs --------------------------
(***************************************************************************)
(* Proofs about Reconciler, for any number of workers, names, images,      *)
(* nodeSelectors, nodes and taints.                                        *)
(***************************************************************************)
EXTENDS Reconciler, ImageIndexProofs

-----------------------------------------------------------------------------
(* The DaemonSets that a worker computes.                                  *)

LEMMA TolerationsAreTaints ==
  ASSUME taints \in [Nodes -> SUBSET Taints], NEW s \in Selectors
  PROVE  TolerationsFor(s) \in SUBSET Taints
BY ConstantsAssumption DEF TolerationsFor

LEMMA NewIsDaemonSet ==
  ASSUME NEW i \in Images, NEW n \in Names, NEW T \in SUBSET Taints
  PROVE  /\ NewDaemonSet(i, n, T) \in DaemonSet
         /\ WellFormed(NewDaemonSet(i, n, T))
<1> DEFINE h == NewDaemonSet(i, n, T)
<1>1. h.ann \in Lookups(Names, Images) /\ Consistent(h.ann)
  BY SingleIsLookup DEF NewDaemonSet
<1>2. IndexedImages(h.ann.index) = {i} /\ h.containers = {i}
  BY DEF NewDaemonSet, SingleImageName, IndexedImages
<1> QED
  BY <1>1, <1>2 DEF NewDaemonSet, DaemonSet, WellFormed, Accepted

LEMMA WithImageIsDaemonSet ==
  ASSUME NEW h \in DaemonSet, NEW i \in Images, NEW n \in Names
  PROVE  WithImage(h, i, n) \in DaemonSet
<1>1. h.ann \in Lookups(Names, Images)
  BY DEF DaemonSet
<1>2. AddImageName(h.ann, i, n) \in Lookups(Names, Images)
  BY <1>1, AddIsLookup
<1> QED
  BY <1>2 DEF WithImage, DaemonSet

LEMMA WithdrawnIsDaemonSet ==
  ASSUME NEW h \in DaemonSet, NEW i \in Images, NEW n \in Names
  PROVE  Withdrawn(h, i, n) \in DaemonSet
<1>1. h.ann \in Lookups(Names, Images)
  BY DEF DaemonSet
<1>2. RemoveImageName(h.ann, i, n) \in Lookups(Names, Images)
  BY <1>1, RemoveIsLookup
<1> QED
  BY <1>2 DEF Withdrawn, DaemonSet

LEMMA WithoutOrphansIsDaemonSet ==
  ASSUME NEW h \in DaemonSet
  PROVE  WithoutOrphans(h) \in DaemonSet
BY DEF WithoutOrphans, DaemonSet

(* After WithImage the name has the image, and the container is there.     *)
LEMMA WithImageWellFormed ==
  ASSUME NEW h \in DaemonSet, WellFormed(h), NEW i \in Images, NEW n \in Names,
         Accepted(WithImage(h, i, n))
  PROVE  /\ WellFormed(WithImage(h, i, n))
         /\ HasImageName(h.ann, i, n) => WithImage(h, i, n).ann.index = h.ann.index
         /\ WithImage(h, i, n).ann.index = Put(h.ann.index, n, i)
<1> DEFINE new == WithImage(h, i, n)
<1>1. new.ann = AddImageName(h.ann, i, n) /\ new.podAnn = new.ann
      /\ new.containers = h.containers \cup {i}
  BY DEF WithImage, DaemonSet
<1>2. /\ Consistent(new.ann)
      /\ new.ann.index = IF HasImageName(h.ann, i, n) THEN h.ann.index
                         ELSE Put(h.ann.index, n, i)
  BY <1>1, AddKeepsConsistent DEF WellFormed
<1>3. HasImageName(h.ann, i, n) => Put(h.ann.index, n, i) = h.ann.index
  <2> SUFFICES ASSUME HasImageName(h.ann, i, n) PROVE Put(h.ann.index, n, i) = h.ann.index
    OBVIOUS
  <2>1. h.ann \in [index : Maps(Names, Images), inv : Maps(Images, SUBSET Names)]
    BY LookupsAreMaps DEF DaemonSet
  <2>2. h.ann.index = [x \in DOMAIN h.ann.index |-> h.ann.index[x]]
    BY <2>1 DEF Maps
  <2> QED
    BY <2>2 DEF HasImageName, Put
<1>4. new.ann.index = Put(h.ann.index, n, i)
  BY <1>2, <1>3
<1>5. IndexedImages(new.ann.index) \subseteq IndexedImages(h.ann.index) \cup {i}
  BY <1>4 DEF IndexedImages, Put
<1> QED
  BY <1>1, <1>2, <1>4, <1>5 DEF WellFormed

(* After Withdrawn the name is in the annotation no more; every image that *)
(* is still listed has its container.                                      *)
LEMMA WithdrawnCovers ==
  ASSUME NEW h \in DaemonSet, WellFormed(h), NEW i \in Images, NEW n \in Names
  PROVE  LET new == Withdrawn(h, i, n)
         IN  /\ Consistent(new.ann) /\ new.podAnn = new.ann
             /\ new.ann.index = IF n \in DOMAIN h.ann.index THEN Without(h.ann.index, n)
                                ELSE h.ann.index
             /\ IndexedImages(new.ann.index) \subseteq new.containers
             /\ Accepted(new)
<1> DEFINE new == Withdrawn(h, i, n)
           gone == IF ListedUnder(new.ann.inv, i) = {} THEN {i} ELSE {}
<1>1. /\ new.ann = RemoveImageName(h.ann, i, n) /\ new.podAnn = new.ann
      /\ new.containers = h.containers \ gone
  BY DEF Withdrawn, DaemonSet
<1>2. /\ Consistent(new.ann)
      /\ new.ann.index = IF n \in DOMAIN h.ann.index THEN Without(h.ann.index, n)
                         ELSE h.ann.index
  BY <1>1, RemoveKeepsConsistent DEF WellFormed
<1>3. IndexedImages(new.ann.index) \subseteq IndexedImages(h.ann.index)
  BY <1>2 DEF IndexedImages, Without, Restrict
<1>4. ASSUME NEW x \in IndexedImages(new.ann.index) PROVE x \notin gone
  <2>1. ListedUnder(new.ann.inv, x) = {m \in DOMAIN new.ann.index : new.ann.index[m] = x}
    BY <1>2, ListedUnderInverted DEF Consistent
  <2>2. ListedUnder(new.ann.inv, x) # {}
    BY <2>1 DEF IndexedImages
  <2> QED
    BY <2>2
<1>5. IndexedImages(new.ann.index) \subseteq new.containers
  BY <1>1, <1>3, <1>4 DEF WellFormed
<1>6. Accepted(new)
  BY <1>1 DEF WellFormed, Accepted
<1> QED
  BY <1>1, <1>2, <1>5, <1>6

(* Dropping the orphans of a DaemonSet with an entry drops no image that   *)
(* is listed.                                                              *)
LEMMA WithoutOrphansWellFormed ==
  ASSUME NEW h \in DaemonSet, WellFormed(h), NEW n \in DOMAIN h.ann.index
  PROVE  /\ WellFormed(WithoutOrphans(h))
         /\ WithoutOrphans(h).ann = h.ann
<1> DEFINE new == WithoutOrphans(h)
<1>1. new.ann = h.ann /\ new.podAnn = h.podAnn /\ new.containers = h.containers \ Orphans(h)
  BY DEF WithoutOrphans, DaemonSet
<1>2. DOMAIN h.ann.inv = IndexedImages(h.ann.index)
  BY DEF WellFormed, Consistent, Inverted
<1>3. IndexedImages(h.ann.index) \cap Orphans(h) = {}
  BY <1>2 DEF Orphans
<1>4. h.ann.index[n] \in IndexedImages(h.ann.index)
  BY DEF IndexedImages
<1> QED
  BY <1>1, <1>3, <1>4 DEF WellFormed, Accepted

(* More tolerations change nothing else. *)
LEMMA WithTolerationsWellFormed ==
  ASSUME NEW h \in DaemonSet, WellFormed(h), NEW T \in SUBSET Taints
  PROVE  LET new == [h EXCEPT !.tolerations = @ \cup T]
         IN  new \in DaemonSet /\ WellFormed(new) /\ new.ann = h.ann
BY DEF DaemonSet, WellFormed, Accepted

-----------------------------------------------------------------------------
(* The inductive invariant.                                                *)

AfterGetPpi == Calls \ {"getPpi"}
WithDs == {"putContainer", "listNodes", "putTolerations", "dropOrphans",
           "putWithdrawn", "deleteDs"}
WithEntry == {"listNodes", "putTolerations", "dropOrphans"}

(* What a worker holds at each point of Reconcile. *)
Phases ==
  \A w \in Workers :
    /\ pc[w] # "idle" => req[w] \in Serves[w]
    /\ pc[w] \in {"idle", "getPpi"} => obj[w] = None /\ held[w] = None
    /\ pc[w] \in AfterGetPpi => obj[w] # None
    /\ pc[w] \in WithDs => held[w] # None

(* A copy with the stored resourceVersion equals what is stored. *)
Copies ==
  /\ \A w \in objCurrent : obj[w] # None /\ ppi[req[w]] = obj[w]
  /\ \A w \in heldCurrent : obj[w] # None /\ held[w] # None /\ ds[Target(w)] = held[w]

(* A worker's copy is well formed, current or not; past putContainer it    *)
(* has the entry of the request.                                           *)
HeldWellFormed ==
  \A w \in Workers :
    /\ held[w] # None => WellFormed(held[w])
    /\ pc[w] \in WithEntry => /\ req[w] \in DOMAIN held[w].ann.index
                              /\ held[w].ann.index[req[w]] = obj[w].image
    /\ pc[w] = "putWithdrawn" => Withdrawn(held[w], obj[w].image, req[w]).containers # {}
    /\ pc[w] = "deleteDs" => Withdrawn(held[w], obj[w].image, req[w]).containers = {}

IInv == TypeOK /\ Phases /\ Copies /\ DsWellFormed /\ HeldWellFormed

(* Storing an accepted DaemonSet from a current copy keeps the invariant,  *)
(* wherever Reconcile goes next.                                           *)
LEMMA UpdateDsKeepsIInv ==
  ASSUME IInv, NEW w \in Workers, NEW new \in DaemonSet,
         NEW next \in WithEntry \cup {"removeFinalizer", "succeeded"},
         NEW answered \in BOOLEAN,
         pc[w] \in Calls,
         WellFormed(new), UpdateDs(w, new, next, answered),
         next \in WithEntry => /\ req[w] \in DOMAIN new.ann.index
                              /\ new.ann.index[req[w]] = obj[w].image
  PROVE  IInv'
<1> USE DEF UpdateDs, StoreDs
<1>1. w \in heldCurrent /\ obj[w] # None /\ held[w] # None /\ new # None
  BY NoneAssumption DEF IInv, Copies
<1>2. TypeOK'
  BY DEF IInv, TypeOK, WithEntry, Labels, Calls
<1>3. Phases'
  BY <1>1 DEF IInv, TypeOK, Phases, AfterGetPpi, WithDs, WithEntry, Calls
<1>4. Copies'
  <2>1. \A v \in objCurrent' : obj'[v] # None /\ ppi'[req'[v]] = obj'[v]
    BY DEF IInv, Copies
  <2>2. ds'[Target(w)] = new
    BY <1>1, ConstantsAssumption DEF IInv, TypeOK, Target, PrePullImage
  <2>3. ASSUME NEW v \in heldCurrent'
        PROVE  obj'[v] # None /\ held'[v] # None /\ ds'[Target(v)'] = held'[v]
    <3>1. Target(v)' = Target(v)
      BY DEF Target
    <3>2. CASE v = w
      BY <1>1, <2>2, <3>1, <3>2 DEF IInv, TypeOK
    <3>3. CASE v # w
      <4>1. v \in heldCurrent /\ (new = ds[Target(w)] \/ Target(v) # Target(w))
        BY <3>3
      <4>2. held'[v] = held[v] /\ obj'[v] # None /\ held[v] # None
        BY <3>3, <4>1 DEF IInv, Copies, TypeOK
      <4>3. ds'[Target(v)] = ds[Target(v)]
        BY <4>1, <2>2 DEF IInv, TypeOK
      <4> QED
        BY <3>1, <4>1, <4>2, <4>3 DEF IInv, Copies
    <3> QED
      BY <3>2, <3>3
  <2> QED
    BY <2>1, <2>3 DEF Copies
<1>5. DsWellFormed'
  BY DEF IInv, TypeOK, DsWellFormed
<1>6. HeldWellFormed'
  <2>1. held'[w] = new /\ pc'[w] \in {next, "failed"}
    BY DEF IInv, TypeOK
  <2>2. \A v \in Workers \ {w} : held'[v] = held[v] /\ pc'[v] = pc[v]
    BY DEF IInv, TypeOK
  <2> QED
    BY <2>1, <2>2 DEF IInv, HeldWellFormed, WithEntry
<1> QED
  BY <1>2, <1>3, <1>4, <1>5, <1>6 DEF IInv

(* Storing a PrePullImage, by a user or by a worker, keeps the parts of    *)
(* the invariant about PrePullImages, if the writer's copy is what it      *)
(* stored.                                                                 *)
LEMMA StorePpiKeepsCopies ==
  ASSUME TypeOK, Copies, NEW n \in Names, NEW o \in PrePullImage,
         StorePpi(n, o, {}),
         req' = req, obj' = obj
  PROVE  /\ ppi' \in [Names -> PrePullImage \cup {None}]
         /\ objCurrent' \subseteq Workers
         /\ \A v \in objCurrent' : obj'[v] # None /\ ppi'[req'[v]] = obj'[v]
<1>1. ppi' \in [Names -> PrePullImage \cup {None}] /\ objCurrent' \subseteq objCurrent
  BY DEF TypeOK, StorePpi, Stored
<1>2. ASSUME NEW v \in objCurrent' PROVE obj'[v] # None /\ ppi'[req'[v]] = obj'[v]
  <2>1. v \in objCurrent /\ req[v] # n
    BY DEF StorePpi
  <2>2. obj[v] # None /\ ppi[req[v]] = obj[v]
    BY <2>1 DEF Copies
  <2>3. ppi'[req[v]] = ppi[req[v]]
    BY <2>1 DEF StorePpi, TypeOK
  <2> QED
    BY <2>2, <2>3
<1> QED
  BY <1>1, <1>2 DEF TypeOK

(* Nothing of what the workers and the DaemonSets are changes. *)
LEMMA EnvironmentKeepsIInv ==
  ASSUME IInv, Environment
  PROVE  IInv'
<1> USE DEF IInv
<1>1. ASSUME NEW n \in Names, NEW o \in PrePullImage, StorePpi(n, o, {}),
             UNCHANGED <<ds, taints, locals>>
      PROVE  IInv'
  <2>1. req' = req /\ obj' = obj
    BY <1>1 DEF locals
  <2>2. /\ ppi' \in [Names -> PrePullImage \cup {None}]
        /\ objCurrent' \subseteq Workers
        /\ \A v \in objCurrent' : obj'[v] # None /\ ppi'[req'[v]] = obj'[v]
    BY <1>1, <2>1, StorePpiKeepsCopies
  <2>3. TypeOK'
    BY <1>1, <2>2 DEF TypeOK, locals
  <2>4. Phases' /\ DsWellFormed' /\ HeldWellFormed'
    BY <1>1 DEF locals, Phases, DsWellFormed, HeldWellFormed
  <2>5. Copies'
    BY <1>1, <2>2 DEF locals, Copies, Target
  <2> QED
    BY <2>3, <2>4, <2>5
<1>2. ASSUME NEW n \in Names, UserCreates(n) PROVE IInv'
  BY <1>1, <1>2 DEF UserCreates, PrePullImage
<1>3. ASSUME NEW n \in Names, ppi[n] # None PROVE ppi[n] \in PrePullImage
  BY <1>3 DEF TypeOK
<1>4. ASSUME NEW n \in Names, UserEditsImage(n) PROVE IInv'
  BY <1>1, <1>3, <1>4 DEF UserEditsImage, PrePullImage
<1>5. ASSUME NEW n \in Names, UserEditsSelector(n) PROVE IInv'
  BY <1>1, <1>3, <1>5 DEF UserEditsSelector, PrePullImage
<1>6. ASSUME NEW n \in Names, UserDeletes(n) PROVE IInv'
  BY <1>1, <1>3, <1>6 DEF UserDeletes, PrePullImage
<1>7. ASSUME NEW n \in Names, ForeignFinalizerRemoved(n) PROVE IInv'
  BY <1>1, <1>3, <1>7 DEF ForeignFinalizerRemoved, PrePullImage
<1>8. ASSUME NEW node \in Nodes, NodeTainted(node) PROVE IInv'
  <2> USE <1>8 DEF NodeTainted, locals
  <2>1. TypeOK'
    BY DEF TypeOK
  <2>2. Phases' /\ Copies' /\ DsWellFormed' /\ HeldWellFormed'
    BY DEF Phases, Copies, DsWellFormed, HeldWellFormed, Target
  <2> QED
    BY <2>1, <2>2
<1> QED
  BY <1>2, <1>4, <1>5, <1>6, <1>7, <1>8 DEF Environment

LEMMA AfterGetIsCall ==
  ASSUME NEW o
  PROVE  AfterGet(o) \in {"getDs", "addFinalizer", "getDsToRemove", "succeeded"}
BY DEF AfterGet, HasFinalizer

(* Each step of a worker keeps the invariant. *)
LEMMA StepKeepsIInv ==
  ASSUME IInv, NEW w \in Workers, Step(w)
  PROVE  IInv'
<1> USE DEF IInv, Goto
<1>0. w \in Workers /\ (pc[w] \in AfterGetPpi => obj[w] \in PrePullImage /\ req[w] \in Names)
      /\ (pc[w] \in WithDs => held[w] \in DaemonSet /\ WellFormed(held[w]))
      /\ (pc[w] # "idle" => req[w] \in Names)
  BY ConstantsAssumption DEF TypeOK, Phases, HeldWellFormed, AfterGetPpi, Calls, WithDs
<1>1. CASE GetPpi(w)
  <2> USE <1>1 DEF GetPpi, cluster
  <2>1. TypeOK'
    BY <1>0, AfterGetIsCall DEF TypeOK, Labels, Calls
  <2>2. Phases'
    BY <1>0, AfterGetIsCall DEF TypeOK, Phases, AfterGetPpi, WithDs, Calls
  <2>3. w \notin heldCurrent
    BY DEF Phases, Copies
  <2>4. Copies'
    BY <2>3 DEF TypeOK, Copies, Target
  <2>5. DsWellFormed'
    BY DEF DsWellFormed
  <2>6. HeldWellFormed'
    <3>1. pc'[w] \in {"getDs", "addFinalizer", "getDsToRemove", "succeeded"}
      BY AfterGetIsCall DEF TypeOK
    <3>2. \A v \in Workers \ {w} : pc'[v] = pc[v] /\ obj'[v] = obj[v]
      BY DEF TypeOK
    <3> QED
      BY <3>1, <3>2 DEF HeldWellFormed, WithEntry
  <2> QED
    BY <2>1, <2>2, <2>4, <2>5, <2>6
<1>2. CASE GetDs(w)
  <2> USE <1>2 DEF GetDs, cluster
  <2>0. obj[w] \in PrePullImage /\ req[w] \in Names /\ Target(w) \in DsNames
    BY <1>0, ConstantsAssumption DEF AfterGetPpi, Calls, Target, PrePullImage
  <2>1. TypeOK'
    BY <2>0 DEF TypeOK, Labels, Calls, AfterFetch
  <2>2. Phases'
    BY <2>0 DEF TypeOK, Phases, AfterGetPpi, WithDs, Calls, AfterFetch
  <2>3. Copies'
    BY <2>0, NoneAssumption DEF TypeOK, Copies, Target
  <2>4. DsWellFormed'
    BY DEF DsWellFormed
  <2>5. HeldWellFormed'
    BY <2>0 DEF TypeOK, HeldWellFormed, WithEntry, DsWellFormed, AfterFetch, HasImage, HasImageName
  <2> QED
    BY <2>1, <2>2, <2>3, <2>4, <2>5
<1>3. CASE ListNodesForCreate(w)
  <2> USE <1>3 DEF ListNodesForCreate, cluster
  <2>0. obj[w] \in PrePullImage /\ TolerationsFor(obj[w].selector) \in SUBSET Taints
    BY <1>0, TolerationsAreTaints DEF AfterGetPpi, Calls, PrePullImage, TypeOK
  <2>1. TypeOK'
    BY <2>0 DEF TypeOK, Labels, Calls
  <2>2. Phases'
    BY <2>0 DEF TypeOK, Phases, AfterGetPpi, WithDs, Calls
  <2>3. Copies' /\ DsWellFormed' /\ HeldWellFormed'
    BY DEF TypeOK, Copies, Target, DsWellFormed, HeldWellFormed, WithEntry
  <2> QED
    BY <2>1, <2>2, <2>3
<1>4. CASE ListNodes(w)
  <2> USE <1>4 DEF ListNodes, cluster
  <2>0. obj[w] \in PrePullImage /\ TolerationsFor(obj[w].selector) \in SUBSET Taints
    BY <1>0, TolerationsAreTaints DEF AfterGetPpi, Calls, PrePullImage, TypeOK
  <2>1. TypeOK'
    BY <2>0 DEF TypeOK, Labels, Calls, AfterTolerations
  <2>2. Phases'
    BY <2>0 DEF TypeOK, Phases, AfterGetPpi, WithDs, Calls, AfterTolerations
  <2>3. Copies' /\ DsWellFormed'
    BY DEF TypeOK, Copies, Target, DsWellFormed
  <2>4. HeldWellFormed'
    BY DEF TypeOK, HeldWellFormed, WithEntry, AfterTolerations
  <2> QED
    BY <2>1, <2>2, <2>3, <2>4
<1>5. CASE GetDsToRemove(w)
  <2> USE <1>5 DEF GetDsToRemove, cluster
  <2>0. obj[w] \in PrePullImage /\ req[w] \in Names /\ Target(w) \in DsNames
    BY <1>0, ConstantsAssumption DEF AfterGetPpi, Calls, Target, PrePullImage
  <2>1. TypeOK'
    BY <2>0 DEF TypeOK, Labels, Calls
  <2>2. Phases'
    BY <2>0 DEF TypeOK, Phases, AfterGetPpi, WithDs, Calls
  <2>3. Copies'
    <3>1. \A v \in heldCurrent' : Target(v)' = Target(v) /\ obj'[v] # None
      BY <2>0, NoneAssumption DEF Target, Copies
    <3>2. CASE ds[Target(w)] = None
      BY <3>1, <3>2 DEF Copies, Target
    <3>3. CASE ds[Target(w)] # None
      <4>1. held' = [held EXCEPT ![w] = ds[Target(w)]] /\ heldCurrent' = heldCurrent \cup {w}
        BY <3>3
      <4> QED
        BY <3>1, <3>3, <4>1 DEF TypeOK, Copies, Target
    <3> QED
      BY <3>2, <3>3
  <2>4. DsWellFormed'
    BY DEF DsWellFormed
  <2>5. HeldWellFormed'
    BY <2>0 DEF TypeOK, HeldWellFormed, WithEntry, DsWellFormed
  <2> QED
    BY <2>1, <2>2, <2>3, <2>4, <2>5
<1>6. ASSUME NEW answered \in BOOLEAN, AddFinalizer(w, answered) PROVE IInv'
  <2> DEFINE new == [obj[w] EXCEPT !.finalizers = @ \cup {FinalizerName}]
  <2> USE <1>6 DEF AddFinalizer, WithFinalizer
  <2>0. obj[w] \in PrePullImage /\ req[w] \in Names
    BY <1>0 DEF AfterGetPpi, Calls
  <2>1. new \in PrePullImage /\ Stored(new) = new /\ new # None /\ new.selector = obj[w].selector
    BY <2>0, NoneAssumption DEF PrePullImage, Stored
  <2>2. ppi' = [ppi EXCEPT ![req[w]] = new] /\ obj' = [obj EXCEPT ![w] = new]
        /\ objCurrent' = {v \in objCurrent : req[v] # req[w]} \cup {w}
    BY <2>1 DEF StorePpi
  <2> HIDE DEF new
  <2>3. TypeOK'
    BY <2>0, <2>1, <2>2 DEF TypeOK, Labels, Calls
  <2>4. Phases'
    BY <2>1, <2>2 DEF TypeOK, Phases, AfterGetPpi, WithDs, Calls
  <2>5. Copies'
    <3>1. \A v \in objCurrent' : obj'[v] # None /\ ppi'[req'[v]] = obj'[v]
      <4>1. req' = req /\ ppi'[req[w]] = new /\ obj'[w] = new
        BY <2>0, <2>2 DEF TypeOK
      <4>2. ASSUME NEW v \in objCurrent', v # w PROVE obj'[v] # None /\ ppi'[req[v]] = obj'[v]
        <5>1. v \in objCurrent /\ req[v] # req[w]
          BY <2>2, <4>2
        <5>2. obj'[v] = obj[v] /\ ppi'[req[v]] = ppi[req[v]]
          BY <2>2, <4>2, <5>1 DEF TypeOK
        <5> QED
          BY <5>1, <5>2 DEF Copies
      <4> QED
        BY <2>1, <4>1, <4>2
    <3>2. \A v \in heldCurrent : Target(v)' = Target(v)
      BY <2>1, <2>2 DEF TypeOK, Target
    <3>3. \A v \in heldCurrent : obj'[v] # None
      BY <2>1, <2>2 DEF TypeOK, Copies
    <3> QED
      BY <3>1, <3>2, <3>3 DEF Copies
  <2>6. DsWellFormed' /\ HeldWellFormed'
    BY <2>2 DEF TypeOK, DsWellFormed, HeldWellFormed, WithEntry
  <2> QED
    BY <2>3, <2>4, <2>5, <2>6
<1>7. ASSUME NEW answered \in BOOLEAN, CreateDs(w, answered) PROVE IInv'
  <2> DEFINE new == NewDaemonSet(obj[w].image, req[w], listed[w])
  <2> USE <1>7 DEF CreateDs
  <2>0. obj[w] \in PrePullImage /\ req[w] \in Names /\ Target(w) \in DsNames
    BY <1>0, ConstantsAssumption DEF AfterGetPpi, Calls, Target, PrePullImage
  <2>1. new \in DaemonSet /\ WellFormed(new)
    BY <2>0, NewIsDaemonSet DEF TypeOK, PrePullImage
  <2>2. new # None /\ AfterFetch(new, obj[w], req[w]) \in {"listNodes", "putContainer"}
    BY <2>1, NoneAssumption DEF AfterFetch
  <2>3. AfterFetch(new, obj[w], req[w]) = "listNodes" =>
          req[w] \in DOMAIN new.ann.index /\ new.ann.index[req[w]] = obj[w].image
    BY DEF AfterFetch, HasImage, HasImageName
  <2>4. /\ ds' = [ds EXCEPT ![Target(w)] = new]
        /\ held' = [held EXCEPT ![w] = new]
        /\ heldCurrent' = {v \in heldCurrent : Target(v) # Target(w)} \cup {w}
        /\ pc' = [pc EXCEPT ![w] = IF answered THEN AfterFetch(new, obj[w], req[w]) ELSE "failed"]
    BY <2>2 DEF StoreDs
  <2> HIDE DEF new
  <2>5. TypeOK'
    BY <2>0, <2>1, <2>2, <2>4 DEF TypeOK, Labels, Calls
  <2>6. Phases'
    BY <2>0, <2>2, <2>4 DEF TypeOK, Phases, AfterGetPpi, WithDs, Calls
  <2>7. Copies'
    BY <2>0, <2>2, <2>4, NoneAssumption DEF TypeOK, Copies, Target
  <2>8. DsWellFormed'
    BY <2>0, <2>1, <2>4 DEF TypeOK, DsWellFormed
  <2>9. HeldWellFormed'
    <3>1. held'[w] = new /\ pc'[w] \in {AfterFetch(new, obj[w], req[w]), "failed"}
      BY <2>4 DEF TypeOK
    <3>2. \A v \in Workers \ {w} : held'[v] = held[v] /\ pc'[v] = pc[v]
      BY <2>4 DEF TypeOK
    <3> QED
      BY <2>1, <2>2, <2>3, <3>1, <3>2 DEF HeldWellFormed, WithEntry
  <2> QED
    BY <2>5, <2>6, <2>7, <2>8, <2>9
<1>8. ASSUME NEW answered \in BOOLEAN, PutContainer(w, answered) PROVE IInv'
  <2> DEFINE new == WithImage(held[w], obj[w].image, req[w])
  <2> USE <1>8 DEF PutContainer
  <2>0. /\ held[w] \in DaemonSet /\ WellFormed(held[w])
        /\ obj[w].image \in Images /\ req[w] \in Names /\ pc[w] \in Calls
    BY <1>0 DEF AfterGetPpi, WithDs, Calls, PrePullImage
  <2>1. new \in DaemonSet /\ WellFormed(new)
    BY <2>0, WithImageIsDaemonSet, WithImageWellFormed DEF UpdateDs
  <2>2. req[w] \in DOMAIN new.ann.index /\ new.ann.index[req[w]] = obj[w].image
    <3>1. new.ann.index = Put(held[w].ann.index, req[w], obj[w].image)
      BY <2>0, WithImageWellFormed DEF UpdateDs
    <3> QED
      BY <3>1 DEF Put
  <2> QED
    BY <2>0, <2>1, <2>2, UpdateDsKeepsIInv DEF WithEntry
<1>9. ASSUME NEW answered \in BOOLEAN, PutTolerations(w, answered) PROVE IInv'
  <2> DEFINE new == [held[w] EXCEPT !.tolerations = @ \cup listed[w]]
  <2> USE <1>9 DEF PutTolerations
  <2>0. /\ held[w] \in DaemonSet /\ WellFormed(held[w]) /\ pc[w] \in Calls
        /\ listed[w] \in SUBSET Taints
    BY <1>0 DEF WithDs, Calls, TypeOK
  <2>1. new \in DaemonSet /\ WellFormed(new) /\ new.ann = held[w].ann
    BY <2>0, WithTolerationsWellFormed
  <2>2. req[w] \in DOMAIN new.ann.index /\ new.ann.index[req[w]] = obj[w].image
    BY <2>1 DEF HeldWellFormed, WithEntry
  <2>3. AfterTolerations(new) \in WithEntry \cup {"removeFinalizer", "succeeded"}
    BY DEF AfterTolerations, WithEntry
  <2> QED
    BY <2>0, <2>1, <2>2, <2>3, UpdateDsKeepsIInv
<1>10. ASSUME NEW answered \in BOOLEAN, DropOrphans(w, answered) PROVE IInv'
  <2> USE <1>10 DEF DropOrphans
  <2>0. held[w] \in DaemonSet /\ WellFormed(held[w]) /\ pc[w] \in Calls
    BY <1>0 DEF WithDs, Calls
  <2>1. req[w] \in DOMAIN held[w].ann.index
    BY DEF HeldWellFormed, WithEntry
  <2>2. WithoutOrphans(held[w]) \in DaemonSet /\ WellFormed(WithoutOrphans(held[w]))
    BY <2>0, <2>1, WithoutOrphansIsDaemonSet, WithoutOrphansWellFormed
  <2> QED
    BY <2>0, <2>2, UpdateDsKeepsIInv DEF WithEntry
<1>11. ASSUME NEW answered \in BOOLEAN, PutWithdrawn(w, answered) PROVE IInv'
  <2> DEFINE new == Withdrawn(held[w], obj[w].image, req[w])
  <2> USE <1>11 DEF PutWithdrawn
  <2>0. /\ held[w] \in DaemonSet /\ WellFormed(held[w])
        /\ obj[w].image \in Images /\ req[w] \in Names /\ pc[w] \in Calls
    BY <1>0 DEF AfterGetPpi, WithDs, Calls, PrePullImage
  <2>1. new \in DaemonSet
    BY <2>0, WithdrawnIsDaemonSet
  <2>2. new.containers # {}
    BY DEF HeldWellFormed
  <2>3. WellFormed(new)
    BY <2>0, <2>2, WithdrawnCovers DEF WellFormed
  <2> QED
    BY <2>0, <2>1, <2>3, UpdateDsKeepsIInv DEF WithEntry
<1>12. ASSUME NEW answered \in BOOLEAN, DeleteDs(w, answered) PROVE IInv'
  <2> USE <1>12 DEF DeleteDs
  <2>1. TypeOK'
    BY DEF TypeOK, Labels, Calls
  <2>2. Phases'
    BY DEF TypeOK, Phases, AfterGetPpi, WithDs, Calls
  <2>3. Copies'
    BY DEF TypeOK, Copies, Target
  <2>4. DsWellFormed' /\ HeldWellFormed'
    BY DEF TypeOK, DsWellFormed, HeldWellFormed, WithEntry
  <2> QED
    BY <2>1, <2>2, <2>3, <2>4
<1>13. ASSUME NEW answered \in BOOLEAN, RemoveFinalizer(w, answered) PROVE IInv'
  <2> DEFINE new == [obj[w] EXCEPT !.finalizers = @ \ {FinalizerName}]
  <2> USE <1>13 DEF RemoveFinalizer, WithoutFinalizer
  <2>0. obj[w] \in PrePullImage /\ req[w] \in Names
    BY <1>0 DEF AfterGetPpi, Calls
  <2>1. new \in PrePullImage
    BY <2>0 DEF PrePullImage
  <2>2. /\ ppi' \in [Names -> PrePullImage \cup {None}]
        /\ objCurrent' \subseteq Workers
        /\ \A v \in objCurrent' : obj'[v] # None /\ ppi'[req'[v]] = obj'[v]
    BY <2>0, <2>1, StorePpiKeepsCopies
  <2>3. TypeOK'
    BY <2>2 DEF TypeOK, Labels, Calls
  <2>4. Phases'
    BY DEF TypeOK, Phases, AfterGetPpi, WithDs, Calls
  <2>5. Copies'
    BY <2>2 DEF Copies, Target
  <2>6. DsWellFormed' /\ HeldWellFormed'
    BY DEF TypeOK, DsWellFormed, HeldWellFormed, WithEntry
  <2> QED
    BY <2>3, <2>4, <2>5, <2>6
<1>14. CASE Refused(w) \/ CallFails(w)
  <2>1. /\ pc[w] \in Calls /\ pc' = [pc EXCEPT ![w] = "failed"]
        /\ UNCHANGED <<cluster, req, obj, objCurrent, held, heldCurrent, listed>>
    BY <1>14 DEF Refused, CallFails, Calls
  <2> USE <2>1 DEF cluster
  <2>2. TypeOK'
    BY DEF TypeOK, Labels
  <2>3. Phases'
    BY DEF TypeOK, Phases, AfterGetPpi, WithDs, Calls
  <2>4. Copies' /\ DsWellFormed'
    BY DEF Copies, Target, DsWellFormed
  <2>5. HeldWellFormed'
    BY DEF TypeOK, HeldWellFormed, WithEntry
  <2> QED
    BY <2>2, <2>3, <2>4, <2>5
<1>15. CASE Finish(w)
  <2> USE <1>15 DEF Finish, cluster
  <2>1. TypeOK'
    BY DEF TypeOK, Labels
  <2>2. Phases'
    BY DEF TypeOK, Phases, AfterGetPpi, WithDs, Calls
  <2>3. Copies'
    BY DEF TypeOK, Copies, Target
  <2>4. DsWellFormed' /\ HeldWellFormed'
    BY DEF TypeOK, DsWellFormed, HeldWellFormed, WithEntry
  <2> QED
    BY <2>1, <2>2, <2>3, <2>4
<1> QED
  BY <1>1, <1>2, <1>3, <1>4, <1>5, <1>6, <1>7, <1>8, <1>9, <1>10, <1>11, <1>12, <1>13,
     <1>14, <1>15 DEF Step, Reads, Writes

LEMMA InitIInv == Init => IInv
<1> SUFFICES ASSUME Init PROVE IInv
  OBVIOUS
<1> USE DEF Init
<1>1. TypeOK
  BY DEF TypeOK, Labels
<1>2. Phases
  BY DEF Phases, AfterGetPpi, WithDs, Calls
<1>3. Copies /\ DsWellFormed /\ HeldWellFormed
  BY DEF Copies, DsWellFormed, HeldWellFormed, WithEntry
<1> QED
  BY <1>1, <1>2, <1>3 DEF IInv

LEMMA NextKeepsIInv == IInv /\ [Next]_vars => IInv'
<1> SUFFICES ASSUME IInv, [Next]_vars PROVE IInv'
  OBVIOUS
<1>1. ASSUME NEW w \in Workers, NEW n \in Names, Start(w, n) PROVE IInv'
  <2> USE <1>1 DEF Start, Goto, cluster, IInv
  <2>1. TypeOK'
    BY DEF TypeOK, Labels, Calls
  <2>2. Phases'
    BY DEF TypeOK, Phases, AfterGetPpi, WithDs, Calls
  <2>3. Copies'
    <3>1. w \notin objCurrent
      BY DEF Phases, Copies
    <3> QED
      BY <3>1 DEF TypeOK, Copies, Target
  <2>4. DsWellFormed' /\ HeldWellFormed'
    BY DEF TypeOK, DsWellFormed, HeldWellFormed, WithEntry
  <2> QED
    BY <2>1, <2>2, <2>3, <2>4
<1>2. CASE Crash
  <2> USE <1>2 DEF Crash, cluster, IInv
  <2>1. TypeOK'
    BY DEF TypeOK, Labels
  <2>2. Phases'
    BY DEF Phases, AfterGetPpi, WithDs, Calls
  <2>3. Copies' /\ DsWellFormed' /\ HeldWellFormed'
    BY DEF Copies, DsWellFormed, HeldWellFormed, WithEntry
  <2> QED
    BY <2>1, <2>2, <2>3
<1>3. CASE UNCHANGED vars
  <2> USE <1>3 DEF vars, IInv
  <2>1. TypeOK' /\ Phases'
    BY DEF TypeOK, Phases
  <2>2. Copies' /\ DsWellFormed' /\ HeldWellFormed'
    BY DEF Copies, Target, DsWellFormed, HeldWellFormed
  <2> QED
    BY <2>1, <2>2
<1> QED
  BY <1>1, <1>2, <1>3, StepKeepsIInv, EnvironmentKeepsIInv DEF Next

(* The inductive invariant holds. *)
THEOREM Invariance == Spec => []IInv
BY InitIInv, NextKeepsIInv, PTL DEF Spec

(* Every variable keeps its type. *)
THEOREM TypeCorrectness == Spec => []TypeOK
BY Invariance, PTL DEF IInv

(* However many workers reconcile, crash and lose replies, each stored     *)
(* DaemonSet is well formed.                                               *)
THEOREM DaemonSetsWellFormed == Spec => []DsWellFormed
BY Invariance, PTL DEF IInv

-----------------------------------------------------------------------------
(* A step of a worker on a DaemonSet.                                      *)

(* A step that changes what is stored: worker w puts its entry into its    *)
(* DaemonSet, or takes it out, or leaves the entries alone.                *)
Puts(w) ==
  /\ pc[w] \in {"createDs", "putContainer", "putTolerations", "dropOrphans"}
  /\ \E new \in DaemonSet :
       /\ ds' = [ds EXCEPT ![Target(w)] = new]
       /\ IF ds[Target(w)] = None
          THEN DOMAIN new.ann.index = {req[w]}
          ELSE new.ann.index \in {ds[Target(w)].ann.index,
                                  Put(ds[Target(w)].ann.index, req[w], obj[w].image)}
TakesOut(w) ==
  /\ pc[w] = "putWithdrawn" /\ ds[Target(w)] # None
  /\ \E new \in DaemonSet :
       /\ ds' = [ds EXCEPT ![Target(w)] = new]
       /\ new.ann.index = IF req[w] \in DOMAIN ds[Target(w)].ann.index
                          THEN Without(ds[Target(w)].ann.index, req[w])
                          ELSE ds[Target(w)].ann.index
Deletes(w) ==
  /\ pc[w] = "deleteDs" /\ ds[Target(w)] # None
  /\ ds' = [ds EXCEPT ![Target(w)] = None]

(* These are all the ways a worker changes a DaemonSet. *)
LEMMA StepChangesDs ==
  ASSUME IInv, NEW w \in Workers, Step(w), ds' # ds
  PROVE  pc[w] \in AfterGetPpi /\ (Puts(w) \/ TakesOut(w) \/ Deletes(w))
<1> USE DEF IInv
<1>1. Step(w)
  OBVIOUS
<1>2. PICK answered \in BOOLEAN :
        \/ CreateDs(w, answered)
        \/ PutContainer(w, answered) \/ PutTolerations(w, answered)
        \/ DropOrphans(w, answered) \/ PutWithdrawn(w, answered)
        \/ DeleteDs(w, answered)
  BY <1>1 DEF Step, Reads, Writes, GetPpi, GetDs, ListNodesForCreate, ListNodes, GetDsToRemove,
     AddFinalizer, WithFinalizer, RemoveFinalizer, WithoutFinalizer, Refused, CallFails, Finish, cluster
<1>3. pc[w] \in AfterGetPpi
  BY <1>2 DEF CreateDs, PutContainer, PutTolerations, DropOrphans, PutWithdrawn, DeleteDs,
     AfterGetPpi, Calls
<1>4. /\ obj[w] \in PrePullImage /\ obj[w].image \in Images /\ req[w] \in Names
      /\ pc[w] \in WithDs => held[w] \in DaemonSet /\ WellFormed(held[w])
      /\ listed[w] \in SUBSET Taints
  BY <1>3, ConstantsAssumption DEF TypeOK, Phases, HeldWellFormed, AfterGetPpi, Calls, WithDs, PrePullImage
<1>5. w \in heldCurrent => ds[Target(w)] = held[w] /\ ds[Target(w)] # None
  BY DEF Copies
<1>6. CASE CreateDs(w, answered)
  <2>1. NewDaemonSet(obj[w].image, req[w], listed[w]) \in DaemonSet
    BY <1>4, NewIsDaemonSet
  <2>2. DOMAIN NewDaemonSet(obj[w].image, req[w], listed[w]).ann.index = {req[w]}
    BY DEF NewDaemonSet, SingleImageName
  <2> QED
    BY <1>3, <1>6, <2>1, <2>2 DEF CreateDs, StoreDs, Puts
<1>7. CASE PutContainer(w, answered)
  <2>1. pc[w] = "putContainer" /\ w \in heldCurrent /\ held[w] \in DaemonSet /\ WellFormed(held[w])
        /\ Accepted(WithImage(held[w], obj[w].image, req[w]))
        /\ ds' = [ds EXCEPT ![Target(w)] = WithImage(held[w], obj[w].image, req[w])]
    BY <1>4, <1>7 DEF PutContainer, UpdateDs, StoreDs, WithDs
  <2>2. WithImage(held[w], obj[w].image, req[w]).ann.index
          = Put(held[w].ann.index, req[w], obj[w].image)
    BY <1>4, <2>1, WithImageWellFormed
  <2>3. WithImage(held[w], obj[w].image, req[w]) \in DaemonSet
    BY <1>4, <2>1, WithImageIsDaemonSet
  <2> QED
    BY <1>3, <1>5, <2>1, <2>2, <2>3 DEF Puts
<1>8. CASE PutTolerations(w, answered)
  <2> DEFINE new == [held[w] EXCEPT !.tolerations = @ \cup listed[w]]
  <2>1. pc[w] = "putTolerations" /\ w \in heldCurrent /\ held[w] \in DaemonSet
        /\ WellFormed(held[w]) /\ ds' = [ds EXCEPT ![Target(w)] = new]
    BY <1>4, <1>8 DEF PutTolerations, UpdateDs, StoreDs, WithDs
  <2>2. new \in DaemonSet /\ new.ann = held[w].ann
    BY <1>4, <2>1, WithTolerationsWellFormed
  <2> QED
    BY <1>3, <1>5, <2>1, <2>2 DEF Puts
<1>9. CASE DropOrphans(w, answered)
  <2>1. pc[w] = "dropOrphans" /\ w \in heldCurrent /\ held[w] \in DaemonSet
        /\ ds' = [ds EXCEPT ![Target(w)] = WithoutOrphans(held[w])]
    BY <1>4, <1>9 DEF DropOrphans, UpdateDs, StoreDs, WithDs
  <2>2. WithoutOrphans(held[w]) \in DaemonSet /\ WithoutOrphans(held[w]).ann = held[w].ann
    BY <2>1, WithoutOrphansIsDaemonSet DEF WithoutOrphans, DaemonSet
  <2> QED
    BY <1>3, <1>5, <2>1, <2>2 DEF Puts
<1>10. CASE PutWithdrawn(w, answered)
  <2>1. pc[w] = "putWithdrawn" /\ w \in heldCurrent /\ held[w] \in DaemonSet /\ WellFormed(held[w])
        /\ ds' = [ds EXCEPT ![Target(w)] = Withdrawn(held[w], obj[w].image, req[w])]
    BY <1>4, <1>10 DEF PutWithdrawn, UpdateDs, StoreDs, WithDs
  <2>2. Withdrawn(held[w], obj[w].image, req[w]) \in DaemonSet
    BY <1>4, <2>1, WithdrawnIsDaemonSet
  <2>3. Withdrawn(held[w], obj[w].image, req[w]).ann.index
          = IF req[w] \in DOMAIN held[w].ann.index THEN Without(held[w].ann.index, req[w])
            ELSE held[w].ann.index
    BY <1>4, <2>1, WithdrawnCovers
  <2> QED
    BY <1>3, <1>5, <2>1, <2>2, <2>3 DEF TakesOut
<1>11. CASE DeleteDs(w, answered)
  BY <1>3, <1>11 DEF DeleteDs, Deletes
<1> QED
  BY <1>2, <1>6, <1>7, <1>8, <1>9, <1>10, <1>11

(* The worker goes on from the call. *)
LEMMA StepMoves ==
  ASSUME TypeOK, NEW w \in Workers, Step(w)
  PROVE  pc'[w] # pc[w]
<1>1. CASE Reads(w)
  BY <1>1 DEF TypeOK, Reads, GetPpi, GetDs, ListNodesForCreate, ListNodes, GetDsToRemove,
     Goto, AfterGet, AfterFetch, AfterTolerations
<1>2. ASSUME NEW answered \in BOOLEAN, Writes(w, answered) PROVE pc'[w] # pc[w]
  BY <1>2 DEF TypeOK, Writes, AddFinalizer, CreateDs, PutContainer, PutTolerations, DropOrphans,
     PutWithdrawn, DeleteDs, RemoveFinalizer, UpdateDs, Goto, AfterFetch, AfterTolerations
<1>3. CASE Refused(w) \/ CallFails(w) \/ Finish(w)
  BY <1>3 DEF TypeOK, Refused, CallFails, Finish, Calls, Goto
<1> QED
  BY <1>1, <1>2, <1>3 DEF Step

(* And nobody else changes it. *)
LEMMA WhoChangesDs ==
  ASSUME IInv, [Next]_vars, ds' # ds
  PROVE  \E w \in Workers : /\ pc[w] \in AfterGetPpi /\ pc'[w] # pc[w]
                            /\ Puts(w) \/ TakesOut(w) \/ Deletes(w)
<1>1. PICK w \in Workers : Step(w)
  BY DEF Next, vars, Start, Crash, Environment, UserCreates, UserEditsImage,
         UserEditsSelector, UserDeletes, ForeignFinalizerRemoved, NodeTainted, cluster
<1> QED
  BY <1>1, StepChangesDs, StepMoves DEF IInv

(* Only Puts adds an entry, and only that of the request.                  *)
LEMMA WhoAddsEntries ==
  ASSUME TypeOK, NEW w \in Workers, Puts(w) \/ TakesOut(w) \/ Deletes(w),
         NEW d \in DsNames, ds'[d] # None, NEW n \in DOMAIN ds'[d].ann.index,
         ~(ds[d] # None /\ n \in DOMAIN ds[d].ann.index)
  PROVE  Puts(w) /\ d = Target(w) /\ n = req[w]
<1>1. PICK new : ds' = [ds EXCEPT ![Target(w)] = new]
  BY DEF Puts, TakesOut, Deletes
<1>2. d = Target(w) /\ ds'[d] = new
  BY <1>1 DEF TypeOK
<1>3. ~Deletes(w)
  BY <1>2 DEF Deletes, TypeOK
<1>4. ~TakesOut(w)
  <2> SUFFICES ASSUME TakesOut(w) PROVE FALSE
    OBVIOUS
  <2>1. ds[d] # None /\ DOMAIN ds'[d].ann.index \subseteq DOMAIN ds[d].ann.index
    BY <1>2 DEF TakesOut, TypeOK, Without, Restrict
  <2> QED
    BY <2>1
<1>5. n = req[w]
  <2>1. CASE ds[d] = None
    BY <1>2, <1>3, <1>4, <2>1 DEF Puts, TypeOK
  <2>2. CASE ds[d] # None
    <3>1. DOMAIN ds'[d].ann.index \subseteq DOMAIN ds[d].ann.index \cup {req[w]}
      BY <1>2, <1>3, <1>4, <2>2 DEF Puts, TypeOK, Put
    <3> QED
      BY <2>2, <3>1
  <2> QED
    BY <2>1, <2>2
<1> QED
  BY <1>2, <1>3, <1>4, <1>5

(* No step changes the entries of two PrePullImages in a DaemonSet that    *)
(* stays, or the entry of one that is not the writer's.                    *)
THEOREM NoLostUpdates == Spec => OneEntryAtATime
<1>1. ASSUME IInv, [Next]_vars, NEW d \in DsNames, ds[d] # None, ds'[d] # None,
             ds'[d].ann.index # ds[d].ann.index
      PROVE  \E w \in Workers :
               /\ pc'[w] # pc[w] /\ Target(w) = d
               /\ EntriesChanged(ds[d].ann.index, ds'[d].ann.index) = {req[w]}
  <2> USE DEF IInv
  <2>1. PICK w \in Workers : pc'[w] # pc[w] /\ (Puts(w) \/ TakesOut(w) \/ Deletes(w))
    BY <1>1, WhoChangesDs
  <2>2. d = Target(w) /\ ~Deletes(w)
    BY <1>1, <2>1 DEF Puts, TakesOut, Deletes, TypeOK
  <2> DEFINE old == ds[d].ann.index
             new == ds'[d].ann.index
  <2>3. new \in {Put(old, req[w], obj[w].image), Without(old, req[w])}
    BY <1>1, <2>1, <2>2 DEF Puts, TakesOut, TypeOK
  <2>4. old \in Maps(Names, Images)
    BY <1>1, LookupsAreMaps DEF TypeOK, DaemonSet
  <2>5. EntriesChanged(old, new) \subseteq {req[w]}
    BY <2>3 DEF EntriesChanged, Put, Without, Restrict
  <2>6. req[w] \in EntriesChanged(old, new)
    <3> SUFFICES ASSUME req[w] \notin EntriesChanged(old, new) PROVE new = old
      BY <1>1
    <3>1. old = [n \in DOMAIN old |-> old[n]]
      BY <2>4 DEF Maps
    <3>2. CASE new = Put(old, req[w], obj[w].image)
      <4>1. DOMAIN new = DOMAIN old \cup {req[w]}
        BY <3>2 DEF Put
      <4>2. req[w] \in DOMAIN old /\ old[req[w]] = new[req[w]]
        BY <4>1 DEF EntriesChanged
      <4>3. new[req[w]] = obj[w].image
        BY <3>2 DEF Put
      <4> QED
        BY <3>1, <3>2, <4>2, <4>3 DEF Put
    <3>3. CASE new = Without(old, req[w])
      <4>1. DOMAIN new = DOMAIN old \ {req[w]}
        BY <3>3 DEF Without, Restrict
      <4>2. req[w] \notin DOMAIN old
        BY <4>1 DEF EntriesChanged
      <4> QED
        BY <3>1, <3>3, <4>2 DEF Without, Restrict
    <3> QED
      BY <2>3, <3>2, <3>3
  <2> QED
    BY <2>1, <2>2, <2>5, <2>6
<1>2. IInv /\ [Next]_vars => ChangesOneEntry
  BY <1>1 DEF ChangesOneEntry
<1> QED
  BY <1>2, Invariance, PTL DEF Spec, OneEntryAtATime

(* With several workers, the one thing that can take a PrePullImage off    *)
(* the DaemonSet that pulls it is a Delete of a DaemonSet that the worker  *)
(* has not seen; unless a worker reconciles it, and that from another spec *)
(* or because it was being deleted.                                        *)
LEMMA EntryStays ==
  ASSUME IInv, IInv', [Next]_vars, NEW n \in Names, Pulled(n),
         ppi'[n] # None, ppi'[n].image = ppi[n].image, ppi'[n].selector = ppi[n].selector,
         \A w \in Workers : req[w] = n /\ pc[w] \in AfterGetPpi =>
           pc[w] \notin {"putWithdrawn", "deleteDs"} /\ obj[w].image = ppi[n].image
  PROVE  Pulled(n)' \/ \E w \in Workers : DeletesUnseen(w)
<1> SUFFICES ASSUME ~Pulled(n)' PROVE \E w \in Workers : DeletesUnseen(w)
  OBVIOUS
<1> DEFINE d == DsName[ppi[n].selector]
<1> USE DEF IInv
<1>1. ppi[n] \in PrePullImage /\ d \in DsNames
      /\ ds[d] \in DaemonSet /\ ds[d] # None /\ n \in DOMAIN ds[d].ann.index
      /\ ds[d].ann.index[n] = ppi[n].image
  BY ConstantsAssumption DEF TypeOK, Pulled, PrePullImage
<1>2. ~(/\ ds'[d] # None /\ n \in DOMAIN ds'[d].ann.index
        /\ ds'[d].ann.index[n] = ppi[n].image)
  <2> SUFFICES ASSUME ds'[d] # None, n \in DOMAIN ds'[d].ann.index,
                      ds'[d].ann.index[n] = ppi[n].image
               PROVE  FALSE
    OBVIOUS
  <2>1. WellFormed(ds'[d])
    BY <1>1 DEF DsWellFormed, WellFormed, Consistent, Accepted
  <2>2. ppi[n].image \in ds'[d].containers
    BY <2>1 DEF WellFormed, IndexedImages
  <2> QED
    BY <1>1, <2>2 DEF Pulled
<1> HIDE DEF d
<1>3. ds'[d] # ds[d]
  BY <1>1, <1>2
<1>4. PICK w \in Workers : pc[w] \in AfterGetPpi /\ (Puts(w) \/ TakesOut(w) \/ Deletes(w))
  BY <1>3, WhoChangesDs
<1>5. d = Target(w)
  <2>1. PICK new : ds' = [ds EXCEPT ![Target(w)] = new]
    BY <1>4 DEF Puts, TakesOut, Deletes
  <2> QED
    BY <1>1, <1>3, <2>1 DEF TypeOK
<1>6. req[w] = n => ~TakesOut(w) /\ ~Deletes(w) /\ obj[w].image = ppi[n].image
  BY <1>4 DEF TakesOut, Deletes
<1>7. ~Puts(w) /\ ~TakesOut(w)
  <2>1. ds[Target(w)] # None
    BY <1>1, <1>5, NoneAssumption
  <2>2. ASSUME NEW new \in DaemonSet, ds' = [ds EXCEPT ![Target(w)] = new],
               \/ new.ann.index \in {ds[d].ann.index, Put(ds[d].ann.index, req[w], obj[w].image)}
               \/ req[w] # n /\ new.ann.index = Without(ds[d].ann.index, req[w])
        PROVE  FALSE
    <3>1. ds'[d] = new /\ new # None
      BY <1>1, <1>5, <2>2, NoneAssumption DEF TypeOK
    <3>2. n \in DOMAIN new.ann.index /\ new.ann.index[n] = ppi[n].image
      BY <1>1, <1>6, <2>2, <1>4 DEF Put, Without, Restrict
    <3> QED
      BY <1>2, <3>1, <3>2
  <2> QED
    BY <1>5, <1>6, <2>1, <2>2 DEF Puts, TakesOut
<1>8. Deletes(w) /\ ds'[Target(w)] = None /\ req[w] # n
  BY <1>1, <1>4, <1>5, <1>6, <1>7 DEF Deletes, TypeOK
<1>9. w \notin heldCurrent
  <2> SUFFICES ASSUME w \in heldCurrent PROVE FALSE
    OBVIOUS
  <2>1. held[w] = ds[d] /\ WellFormed(held[w]) /\ held[w] \in DaemonSet
    BY <1>1, <1>5, NoneAssumption DEF Copies, DsWellFormed
  <2>2. Withdrawn(held[w], obj[w].image, req[w]).containers = {}
    BY <1>8 DEF HeldWellFormed, Deletes
  <2>3. obj[w].image \in Images /\ req[w] \in Names
    BY <1>8, ConstantsAssumption
       DEF Deletes, TypeOK, Phases, AfterGetPpi, Calls, PrePullImage
  <2>4. LET new == Withdrawn(held[w], obj[w].image, req[w])
        IN  /\ new.ann.index = IF req[w] \in DOMAIN held[w].ann.index
                               THEN Without(held[w].ann.index, req[w])
                               ELSE held[w].ann.index
            /\ IndexedImages(new.ann.index) \subseteq new.containers
    BY <2>1, <2>3, WithdrawnCovers
  <2>5. n \in DOMAIN Withdrawn(held[w], obj[w].image, req[w]).ann.index
    BY <1>1, <1>8, <2>1, <2>4 DEF Without, Restrict
  <2> QED
    BY <2>2, <2>4, <2>5 DEF IndexedImages
<1> QED
  BY <1>8, <1>9 DEF Deletes, DeletesUnseen

(* With several workers, a PrePullImage that nobody touches stops being    *)
(* pre-pulled only when a worker deletes a DaemonSet it has not seen.      *)
THEOREM UnpulledOnlyByDelete == Spec => UnpulledOnlyByUnseenDelete
<1>1. IInv /\ IInv' /\ [Next]_vars => KeepsBystanders \/ \E w \in Workers : DeletesUnseen(w)
  BY EntryStays DEF KeepsBystanders, Bystander
<1> QED
  BY <1>1, Invariance, PTL DEF Spec, UnpulledOnlyByUnseenDelete

-----------------------------------------------------------------------------
(* Storing a copy that is current, or that a user has just edited, does    *)
(* not take the deletionTimestamp away.                                    *)
LEMMA DeletionStays ==
  ASSUME IInv, [Next]_vars, NEW n \in Names, ppi[n] # None, ppi'[n] # None,
         ppi[n].deleting
  PROVE  ppi'[n].deleting
<1> USE DEF IInv, TypeOK
<1>1. ASSUME NEW m \in Names, NEW o, ppi' = [ppi EXCEPT ![m] = Stored(o)],
             m = n => o.deleting
      PROVE  ppi'[n].deleting
  BY <1>1 DEF Stored
<1>2. \A m \in Names : ppi[m] # None => ppi[m] \in PrePullImage
  OBVIOUS
<1>3. ASSUME NEW w \in Workers, NEW answered \in BOOLEAN,
             AddFinalizer(w, answered) \/ RemoveFinalizer(w, answered)
      PROVE  ppi'[n].deleting
  <2>1. obj[w] \in PrePullImage /\ obj[w] = ppi[req[w]] /\ req[w] \in Names
    BY <1>3, ConstantsAssumption DEF AddFinalizer, RemoveFinalizer, Copies, Phases
  <2>2. \E o \in {WithFinalizer(obj[w]), WithoutFinalizer(obj[w])} :
          ppi' = [ppi EXCEPT ![req[w]] = Stored(o)]
    BY <1>3 DEF AddFinalizer, RemoveFinalizer, StorePpi
  <2>3. \A o \in {WithFinalizer(obj[w]), WithoutFinalizer(obj[w])} : o.deleting = obj[w].deleting
    BY <2>1 DEF WithFinalizer, WithoutFinalizer, PrePullImage
  <2> QED BY <1>1, <2>1, <2>2, <2>3
<1>4. ASSUME NEW m \in Names, UserCreates(m) PROVE ppi'[n].deleting
  <2>1. m # n /\ \E o \in PrePullImage : ppi' = [ppi EXCEPT ![m] = Stored(o)]
    BY <1>4 DEF UserCreates, StorePpi, PrePullImage
  <2> QED BY <1>1, <2>1
<1>5. ASSUME NEW m \in Names,
             \/ UserEditsImage(m) \/ UserEditsSelector(m)
             \/ UserDeletes(m) \/ ForeignFinalizerRemoved(m)
      PROVE  \E o \in PrePullImage : /\ ppi' = [ppi EXCEPT ![m] = Stored(o)]
                                     /\ ppi[m].deleting => o.deleting
  <2>0. ppi[m] \in PrePullImage
    BY <1>2, <1>5 DEF UserEditsImage, UserEditsSelector, UserDeletes, ForeignFinalizerRemoved
  <2>1. CASE UserEditsImage(m)
    <3>1. PICK i \in Images : ppi' = [ppi EXCEPT ![m] = Stored([ppi[m] EXCEPT !.image = i])]
      BY <2>1 DEF UserEditsImage, StorePpi
    <3>2. /\ [ppi[m] EXCEPT !.image = i] \in PrePullImage
          /\ [ppi[m] EXCEPT !.image = i].deleting = ppi[m].deleting
      BY <2>0 DEF PrePullImage
    <3> QED BY <3>1, <3>2
  <2>2. CASE UserEditsSelector(m)
    <3>1. PICK s \in Selectors : ppi' = [ppi EXCEPT ![m] = Stored([ppi[m] EXCEPT !.selector = s])]
      BY <2>2 DEF UserEditsSelector, StorePpi
    <3>2. /\ [ppi[m] EXCEPT !.selector = s] \in PrePullImage
          /\ [ppi[m] EXCEPT !.selector = s].deleting = ppi[m].deleting
      BY <2>0 DEF PrePullImage
    <3> QED BY <3>1, <3>2
  <2>3. CASE UserDeletes(m)
    <3>1. ppi' = [ppi EXCEPT ![m] = Stored([ppi[m] EXCEPT !.deleting = TRUE])]
      BY <2>3 DEF UserDeletes, StorePpi
    <3> QED BY <2>0, <3>1 DEF PrePullImage
  <2>4. CASE ForeignFinalizerRemoved(m)
    <3>1. PICK f \in Foreign :
            ppi' = [ppi EXCEPT ![m] = Stored([ppi[m] EXCEPT !.finalizers = @ \ {f}])]
      BY <2>4 DEF ForeignFinalizerRemoved, StorePpi
    <3>2. /\ [ppi[m] EXCEPT !.finalizers = @ \ {f}] \in PrePullImage
          /\ [ppi[m] EXCEPT !.finalizers = @ \ {f}].deleting = ppi[m].deleting
      BY <2>0 DEF PrePullImage
    <3> QED BY <3>1, <3>2
  <2> QED BY <1>5, <2>1, <2>2, <2>3, <2>4
<1>6. CASE Environment
  <2>1. CASE ppi' = ppi
    BY <2>1
  <2>2. ASSUME NEW m \in Names, NEW o \in PrePullImage, ppi' = [ppi EXCEPT ![m] = Stored(o)],
               ppi[m].deleting => o.deleting
        PROVE  ppi'[n].deleting
    BY <1>1, <2>2
  <2> QED BY <1>4, <1>5, <1>6, <2>1, <2>2 DEF Environment, NodeTainted
<1>7. ASSUME NEW w \in Workers, Step(w)
      PROVE  \/ ppi' = ppi
             \/ \E answered \in BOOLEAN : AddFinalizer(w, answered) \/ RemoveFinalizer(w, answered)
  BY <1>7 DEF Step, Reads, Writes, GetPpi, GetDs, ListNodesForCreate, ListNodes, GetDsToRemove,
     CreateDs, PutContainer, PutTolerations, DropOrphans, PutWithdrawn, DeleteDs, UpdateDs,
     Refused, CallFails, Finish, cluster
<1> QED
  BY <1>3, <1>6, <1>7 DEF Next, Start, Crash, cluster, vars

-----------------------------------------------------------------------------
(* The finalizer.                                                          *)

AfterFinalizer == AfterGetPpi \ {"addFinalizer"}

(* Past the point where the finalizer is in place, it is, and the          *)
(* nodeSelector is the one the worker read.                                *)
Guarded ==
  \A w \in Workers :
    pc[w] \in AfterFinalizer =>
      /\ ppi[req[w]] # None
      /\ FinalizerName \in ppi[req[w]].finalizers
      /\ ppi[req[w]].selector = obj[w].selector

(* A worker about to remove the finalizer has seen to it that no DaemonSet *)
(* lists the PrePullImage.                                                 *)
Unlisted ==
  \A w \in Workers :
    pc[w] = "removeFinalizer" =>
      \A d \in DsNames : ds[d] # None => req[w] \notin DOMAIN ds[d].ann.index

FInv == FinalizerProtects /\ Guarded /\ Unlisted

(* Only the worker that removes the finalizer takes it away.               *)
LEMMA FinalizerStays ==
  ASSUME IInv, ~SelectorsMutable, [Next]_vars, NEW n \in Names,
         ppi[n] # None, FinalizerName \in ppi[n].finalizers,
         \A w \in Workers : req[w] = n /\ pc[w] = "removeFinalizer" => pc'[w] = pc[w]
  PROVE  /\ ppi'[n] # None
         /\ FinalizerName \in ppi'[n].finalizers
         /\ ppi'[n].selector = ppi[n].selector
<1> USE DEF IInv
<1>0. ppi[n] \in PrePullImage
  BY DEF TypeOK
<1>1. CASE ppi' = ppi
  BY <1>1
<1>2. ASSUME NEW m \in Names, NEW o \in PrePullImage,
             ppi' = [ppi EXCEPT ![m] = Stored(o)],
             m = n => FinalizerName \in o.finalizers /\ o.selector = ppi[n].selector
      PROVE  /\ ppi'[n] # None
             /\ FinalizerName \in ppi'[n].finalizers
             /\ ppi'[n].selector = ppi[n].selector
  BY <1>2, NoneAssumption DEF Stored, TypeOK
<1>3. ASSUME NEW m \in Names, ppi[m] # None PROVE ppi[m] \in PrePullImage
  BY <1>3 DEF TypeOK
<1>4. ASSUME NEW w \in Workers, NEW answered \in BOOLEAN, AddFinalizer(w, answered)
      PROVE  /\ ppi'[n] # None
             /\ FinalizerName \in ppi'[n].finalizers
             /\ ppi'[n].selector = ppi[n].selector
  <2>1. w \in objCurrent /\ req[w] \in Names /\ obj[w] = ppi[req[w]] /\ obj[w] # None
    BY <1>4, ConstantsAssumption DEF AddFinalizer, WithFinalizer, Copies, Phases, TypeOK
  <2> DEFINE new == [obj[w] EXCEPT !.finalizers = @ \cup {FinalizerName}]
  <2>2. new \in PrePullImage /\ new.selector = ppi[req[w]].selector /\ FinalizerName \in new.finalizers
    BY <1>3, <2>1 DEF PrePullImage
  <2>3. ppi' = [ppi EXCEPT ![req[w]] = Stored(new)]
    BY <1>4 DEF AddFinalizer, WithFinalizer, StorePpi
  <2> QED
    BY <1>2, <2>1, <2>2, <2>3
<1>5. ASSUME NEW w \in Workers, NEW answered \in BOOLEAN, RemoveFinalizer(w, answered)
      PROVE  ppi'[n] = ppi[n]
  <2>1. pc[w] = "removeFinalizer" /\ pc'[w] # pc[w]
    BY <1>5 DEF RemoveFinalizer, WithoutFinalizer, Goto, TypeOK
  <2>2. req[w] # n
    BY <2>1
  <2> QED
    BY <1>5, <2>2 DEF RemoveFinalizer, WithoutFinalizer, StorePpi, TypeOK
<1>6. ASSUME NEW w \in Workers, Step(w)
      PROVE  /\ ppi'[n] # None
             /\ FinalizerName \in ppi'[n].finalizers
             /\ ppi'[n].selector = ppi[n].selector
  <2>1. \/ ppi' = ppi
        \/ \E answered \in BOOLEAN : AddFinalizer(w, answered) \/ RemoveFinalizer(w, answered)
    BY <1>6 DEF Step, Reads, Writes, GetPpi, GetDs, ListNodesForCreate, ListNodes, GetDsToRemove, CreateDs,
       PutContainer, PutTolerations, DropOrphans, PutWithdrawn, DeleteDs, UpdateDs, Refused,
       CallFails, Finish, cluster
  <2> QED
    BY <1>1, <1>4, <1>5, <2>1
<1>7. ASSUME NEW m \in Names,
             \/ UserCreates(m) \/ UserEditsImage(m) \/ UserDeletes(m)
             \/ ForeignFinalizerRemoved(m)
      PROVE  /\ ppi'[n] # None
             /\ FinalizerName \in ppi'[n].finalizers
             /\ ppi'[n].selector = ppi[n].selector
  <2>1. CASE UserCreates(m)
    <3>1. PICK o \in PrePullImage : ppi' = [ppi EXCEPT ![m] = Stored(o)]
      BY <2>1 DEF UserCreates, StorePpi, PrePullImage
    <3> QED
      BY <1>2, <2>1, <3>1 DEF UserCreates
  <2>2. CASE UserEditsImage(m)
    <3>1. PICK i \in Images : ppi' = [ppi EXCEPT ![m] = Stored([ppi[m] EXCEPT !.image = i])]
      BY <2>2 DEF UserEditsImage, StorePpi
    <3> DEFINE o == [ppi[m] EXCEPT !.image = i]
    <3>2. o \in PrePullImage /\ o.finalizers = ppi[m].finalizers /\ o.selector = ppi[m].selector
      BY <1>3, <2>2 DEF UserEditsImage, PrePullImage
    <3> HIDE DEF o
    <3> QED
      BY <1>2, <3>1, <3>2 DEF o
  <2>3. CASE UserDeletes(m)
    <3> DEFINE o == [ppi[m] EXCEPT !.deleting = TRUE]
    <3>1. ppi' = [ppi EXCEPT ![m] = Stored(o)]
      BY <2>3 DEF UserDeletes, StorePpi
    <3>2. o \in PrePullImage /\ o.finalizers = ppi[m].finalizers /\ o.selector = ppi[m].selector
      BY <1>3, <2>3 DEF UserDeletes, PrePullImage
    <3> QED
      BY <1>2, <3>1, <3>2
  <2>4. CASE ForeignFinalizerRemoved(m)
    <3>1. PICK f \in Foreign :
            ppi' = [ppi EXCEPT ![m] = Stored([ppi[m] EXCEPT !.finalizers = @ \ {f}])]
      BY <2>4 DEF ForeignFinalizerRemoved, StorePpi
    <3> DEFINE o == [ppi[m] EXCEPT !.finalizers = @ \ {f}]
    <3>2. o \in PrePullImage /\ o.finalizers = ppi[m].finalizers \ {f}
          /\ o.selector = ppi[m].selector
      BY <1>3, <2>4 DEF ForeignFinalizerRemoved, PrePullImage
    <3>3. f # FinalizerName
      BY ConstantsAssumption
    <3> HIDE DEF o
    <3> QED
      BY <1>2, <3>1, <3>2, <3>3 DEF o
  <2> QED
    BY <1>7, <2>1, <2>2, <2>3, <2>4
<1>8. CASE Environment
  BY <1>1, <1>7, <1>8 DEF Environment, UserEditsSelector, NodeTainted
<1> QED
  BY <1>1, <1>6, <1>8 DEF Next, Start, Crash, cluster, vars

(* A worker moves alone. *)
LEMMA OthersRest ==
  ASSUME TypeOK, NEW v \in Workers, NEW w \in Workers, v # w,
         Step(v) \/ \E n \in Names : Start(v, n)
  PROVE  pc'[w] = pc[w] /\ req'[w] = req[w] /\ obj'[w] = obj[w]
BY DEF Step, Reads, Writes, Start, GetPpi, GetDs, ListNodesForCreate, ListNodes, GetDsToRemove,
   AddFinalizer, WithFinalizer, CreateDs, PutContainer, PutTolerations, DropOrphans, PutWithdrawn, UpdateDs,
   DeleteDs, RemoveFinalizer, WithoutFinalizer, Refused, CallFails, Finish, Goto, TypeOK

(* How a worker gets past the point where the finalizer is in place, and   *)
(* to the point where it removes it.                                       *)
LEMMA WorkerGetsThere ==
  ASSUME IInv, [Next]_vars, NEW w \in Workers, pc'[w] \in AfterFinalizer
  PROVE  \/ GetPpi(w)
         \/ \E answered \in BOOLEAN : AddFinalizer(w, answered)
         \/ /\ pc[w] \in AfterFinalizer /\ req'[w] = req[w] /\ obj'[w] = obj[w]
            /\ pc[w] = "removeFinalizer" => pc'[w] = pc[w]
            /\ pc'[w] = "removeFinalizer" =>
                 \/ pc[w] = pc'[w]
                 \/ GetDsToRemove(w)
                 \/ \E answered \in BOOLEAN : PutWithdrawn(w, answered) \/ DeleteDs(w, answered)
<1> USE DEF IInv, AfterFinalizer, AfterGetPpi, Calls
<1>1. CASE Step(w)
  <2>1. CASE GetPpi(w) \/ \E answered \in BOOLEAN : AddFinalizer(w, answered)
    BY <2>1
  <2>2. CASE GetDs(w) \/ ListNodesForCreate(w) \/ ListNodes(w)
    BY <2>2 DEF GetDs, ListNodesForCreate, ListNodes, Goto, TypeOK, AfterFetch, AfterTolerations
  <2>3. CASE GetDsToRemove(w)
    BY <2>3 DEF GetDsToRemove
  <2>4. ASSUME NEW answered \in BOOLEAN,
               CreateDs(w, answered) \/ PutContainer(w, answered)
                 \/ PutTolerations(w, answered) \/ DropOrphans(w, answered)
        PROVE  /\ pc[w] \in AfterFinalizer \ {"removeFinalizer"}
               /\ req'[w] = req[w] /\ obj'[w] = obj[w] /\ pc'[w] # "removeFinalizer"
    BY <2>4 DEF CreateDs, PutContainer, PutTolerations, DropOrphans, UpdateDs, Goto, TypeOK,
       AfterFetch, AfterTolerations
  <2>5. ASSUME NEW answered \in BOOLEAN, PutWithdrawn(w, answered) \/ DeleteDs(w, answered)
        PROVE  /\ pc[w] \in AfterFinalizer \ {"removeFinalizer"}
               /\ req'[w] = req[w] /\ obj'[w] = obj[w]
    BY <2>5 DEF PutWithdrawn, UpdateDs, DeleteDs
  <2>6. ASSUME (\E answered \in BOOLEAN : RemoveFinalizer(w, answered))
                 \/ Refused(w) \/ CallFails(w) \/ Finish(w)
        PROVE  FALSE
    BY <2>6 DEF RemoveFinalizer, WithoutFinalizer, Refused, CallFails, Finish, Goto, TypeOK
  <2> QED
    BY <1>1, <2>1, <2>2, <2>3, <2>4, <2>5, <2>6 DEF Step, Reads, Writes
<1>2. ASSUME NEW v \in Workers, v # w, Step(v) \/ \E n \in Names : Start(v, n)
      PROVE  pc'[w] = pc[w] /\ req'[w] = req[w] /\ obj'[w] = obj[w]
  BY <1>2, OthersRest
<1>3. ASSUME NEW n \in Names, Start(w, n) PROVE FALSE
  BY <1>3 DEF Start, Goto, TypeOK
<1>4. ASSUME Crash PROVE FALSE
  BY <1>4 DEF Crash, TypeOK
<1>5. CASE Environment \/ UNCHANGED vars
  BY <1>5 DEF Environment, UserCreates, UserEditsImage, UserEditsSelector, UserDeletes,
     ForeignFinalizerRemoved, NodeTainted, locals, vars
<1> QED
  BY <1>1, <1>2, <1>3, <1>4, <1>5 DEF Next

LEMMA NextKeepsFInv ==
  ASSUME OneWorkerPerKey, ~SelectorsMutable, IInv, FInv, [Next]_vars
  PROVE  FInv'
<1> USE DEF IInv, FInv
<1>1. ASSUME NEW v \in Workers, NEW w \in Workers, pc[v] # "idle", pc[w] # "idle",
             req[v] = req[w]
      PROVE  v = w
  BY <1>1 DEF OneWorkerPerKey, Phases
<1>2. \A w \in Workers : pc[w] # "idle" => req[w] \in Names
  BY ConstantsAssumption DEF Phases
<1>3. Guarded'
  <2> SUFFICES ASSUME NEW w \in Workers, pc'[w] \in AfterFinalizer
               PROVE  /\ ppi'[req'[w]] # None
                      /\ FinalizerName \in ppi'[req'[w]].finalizers
                      /\ ppi'[req'[w]].selector = obj'[w].selector
    BY DEF Guarded
  <2>1. CASE GetPpi(w)
    <3>1. ppi[req[w]] # None
      BY <2>1 DEF GetPpi, Goto, TypeOK, AfterFinalizer, AfterGetPpi, Calls
    <3>2. pc'[w] = AfterGet(ppi[req[w]]) /\ obj'[w] = ppi[req[w]] /\ ppi' = ppi /\ req' = req
      BY <2>1, <3>1 DEF GetPpi, Goto, TypeOK, cluster
    <3> QED
      BY <3>1, <3>2 DEF AfterGet, HasFinalizer, AfterFinalizer, AfterGetPpi, Calls
  <2>2. ASSUME NEW answered \in BOOLEAN, AddFinalizer(w, answered)
        PROVE  /\ ppi'[req'[w]] # None
               /\ FinalizerName \in ppi'[req'[w]].finalizers
               /\ ppi'[req'[w]].selector = obj'[w].selector
    <3> DEFINE new == [obj[w] EXCEPT !.finalizers = @ \cup {FinalizerName}]
    <3>1. obj[w] \in PrePullImage /\ req[w] \in Names
      BY <1>2, <2>2 DEF AddFinalizer, WithFinalizer, Phases, TypeOK, AfterGetPpi, Calls
    <3>2. new \in PrePullImage /\ FinalizerName \in new.finalizers
      BY <3>1 DEF PrePullImage
    <3>3. ppi'[req[w]] = new /\ obj'[w] = new /\ req' = req
      BY <2>2, <3>1, <3>2 DEF AddFinalizer, WithFinalizer, StorePpi, Stored, TypeOK
    <3> QED
      BY <3>2, <3>3, NoneAssumption
  <2>3. ASSUME pc[w] \in AfterFinalizer, req'[w] = req[w], obj'[w] = obj[w],
               pc[w] = "removeFinalizer" => pc'[w] = pc[w]
        PROVE  /\ ppi'[req'[w]] # None
               /\ FinalizerName \in ppi'[req'[w]].finalizers
               /\ ppi'[req'[w]].selector = obj'[w].selector
    <3>1. pc[w] # "idle" /\ req[w] \in Names
      BY <1>2, <2>3 DEF AfterFinalizer, AfterGetPpi, Calls
    <3>2. \A v \in Workers : req[v] = req[w] /\ pc[v] = "removeFinalizer" => pc'[v] = pc[v]
      BY <1>1, <2>3, <3>1
    <3> QED
      BY <2>3, <3>1, <3>2, FinalizerStays DEF Guarded
  <2> QED
    BY <2>1, <2>2, <2>3, WorkerGetsThere
<1>4. FinalizerProtects'
  <2> SUFFICES ASSUME NEW d \in DsNames, ds'[d] # None, NEW n \in DOMAIN ds'[d].ann.index
               PROVE  /\ ppi'[n] # None
                      /\ FinalizerName \in ppi'[n].finalizers
                      /\ DsName[ppi'[n].selector] = d
    BY DEF FinalizerProtects
  <2>1. CASE ds[d] # None /\ n \in DOMAIN ds[d].ann.index
    <3>1. /\ ppi[n] # None /\ FinalizerName \in ppi[n].finalizers
          /\ DsName[ppi[n].selector] = d
      BY <2>1 DEF FinalizerProtects
    <3>2. n \in Names
      <4>1. ds[d].ann \in Lookups(Names, Images)
        BY <2>1 DEF TypeOK, DaemonSet
      <4> QED
        BY <2>1, <4>1, IndexedIsImage
    <3>3. \A w \in Workers : ~(req[w] = n /\ pc[w] = "removeFinalizer")
      BY <2>1 DEF Unlisted
    <3> QED
      BY <3>1, <3>2, <3>3, FinalizerStays
  <2>2. CASE ~(ds[d] # None /\ n \in DOMAIN ds[d].ann.index)
    <3>1. PICK w \in Workers :
            pc[w] \in AfterGetPpi /\ (Puts(w) \/ TakesOut(w) \/ Deletes(w))
      BY <2>2, WhoChangesDs
    <3>2. d = Target(w)
      BY <2>2, <3>1, WhoAddsEntries
    <3>3. Puts(w) /\ n = req[w]
      BY <2>2, <3>1, WhoAddsEntries
    <3>4. /\ pc[w] \in AfterFinalizer /\ pc[w] # "removeFinalizer" /\ pc[w] # "idle"
          /\ n \in Names
      BY <1>2, <3>3 DEF Puts, AfterFinalizer, AfterGetPpi, Calls
    <3>5. /\ ppi[n] # None /\ FinalizerName \in ppi[n].finalizers
          /\ ppi[n].selector = obj[w].selector
      BY <3>3, <3>4 DEF Guarded
    <3>6. \A v \in Workers : ~(req[v] = n /\ pc[v] = "removeFinalizer")
      BY <1>1, <3>3, <3>4
    <3>7. /\ ppi'[n] # None /\ FinalizerName \in ppi'[n].finalizers
          /\ ppi'[n].selector = ppi[n].selector
      BY <3>4, <3>5, <3>6, FinalizerStays
    <3> QED
      BY <3>2, <3>5, <3>7 DEF Target
  <2> QED
    BY <2>1, <2>2
<1>5. Unlisted'
  <2> SUFFICES ASSUME NEW w \in Workers, pc'[w] = "removeFinalizer",
                      NEW d \in DsNames, ds'[d] # None, req'[w] \in DOMAIN ds'[d].ann.index
               PROVE  FALSE
    BY DEF Unlisted
  <2>0. pc'[w] \in AfterFinalizer
    BY DEF AfterFinalizer, AfterGetPpi, Calls
  <2>1. /\ ~GetPpi(w)
        /\ \A answered \in BOOLEAN : ~AddFinalizer(w, answered)
    BY AfterGetIsCall DEF GetPpi, AddFinalizer, WithFinalizer, Goto, TypeOK
  <2>2. /\ pc[w] \in AfterFinalizer /\ req'[w] = req[w] /\ obj'[w] = obj[w] /\ pc[w] # "idle"
        /\ \/ pc[w] = "removeFinalizer"
           \/ GetDsToRemove(w)
           \/ \E answered \in BOOLEAN : PutWithdrawn(w, answered) \/ DeleteDs(w, answered)
    BY <2>0, <2>1, WorkerGetsThere DEF AfterFinalizer, AfterGetPpi, Calls
  <2>3. CASE pc[w] = "removeFinalizer"
    <3>1. ds[d] # None => req[w] \notin DOMAIN ds[d].ann.index
      BY <2>3 DEF Unlisted
    <3>2. PICK v \in Workers :
            pc[v] \in AfterGetPpi /\ (Puts(v) \/ TakesOut(v) \/ Deletes(v))
      BY <2>2, <3>1, WhoChangesDs
    <3>3. req[v] # req[w]
      BY <1>1, <2>2, <2>3, <3>2 DEF Puts, TakesOut, Deletes, AfterGetPpi, Calls
    <3> QED
      BY <2>2, <3>1, <3>2, <3>3, WhoAddsEntries
  <2>4. ASSUME ds[d] # None, req[w] \in DOMAIN ds[d].ann.index
        PROVE  d = Target(w)
    BY <2>2, <2>4 DEF FinalizerProtects, Guarded, Target
  <2>5. CASE GetDsToRemove(w)
    <3>1. ds' = ds /\ ds[Target(w)] = None
      BY <2>5 DEF GetDsToRemove, cluster, Goto, TypeOK
    <3> QED
      BY <2>2, <2>4, <3>1
  <2>6. ASSUME NEW answered \in BOOLEAN, PutWithdrawn(w, answered) \/ DeleteDs(w, answered)
        PROVE  FALSE
    <3>2. CASE DeleteDs(w, answered)
      BY <2>2, <2>4, <3>2 DEF DeleteDs, TypeOK
    <3>3. CASE PutWithdrawn(w, answered)
      <4> DEFINE new == Withdrawn(held[w], obj[w].image, req[w])
      <4>1. /\ w \in heldCurrent /\ ds' = [ds EXCEPT ![Target(w)] = new]
            /\ pc[w] = "putWithdrawn"
        BY <3>3 DEF PutWithdrawn, UpdateDs, StoreDs
      <4>2. held[w] \in DaemonSet /\ WellFormed(held[w]) /\ obj[w].image \in Images
            /\ req[w] \in Names
        BY <1>2, <4>1 DEF TypeOK, Phases, HeldWellFormed, WithDs, AfterGetPpi, Calls, PrePullImage
      <4>3. new.ann.index = IF req[w] \in DOMAIN held[w].ann.index
                            THEN Without(held[w].ann.index, req[w])
                            ELSE held[w].ann.index
        BY <4>2, WithdrawnCovers
      <4>4. req[w] \notin DOMAIN new.ann.index
        BY <4>3 DEF Without, Restrict
      <4>5. CASE d = Target(w)
        BY <2>2, <4>1, <4>4, <4>5 DEF TypeOK
      <4>6. CASE d # Target(w)
        BY <2>2, <2>4, <4>1, <4>6 DEF TypeOK
      <4> QED
        BY <4>5, <4>6
    <3> QED
      BY <2>6, <3>2, <3>3
  <2> QED
    BY <2>2, <2>3, <2>5, <2>6
<1> QED
  BY <1>3, <1>4, <1>5

LEMMA FInvariance ==
  ASSUME OneWorkerPerKey, ~SelectorsMutable
  PROVE  Spec => []FInv
<1>1. Init => FInv
  BY DEF Init, FInv, FinalizerProtects, Guarded, Unlisted, AfterFinalizer, AfterGetPpi, Calls
<1>2. IInv /\ FInv /\ [Next]_vars => FInv'
  BY NextKeepsFInv
<1> QED BY <1>1, <1>2, Invariance, PTL DEF Spec

(* If a key goes to one worker and nodeSelectors are not edited, the       *)
(* finalizer is in place as long as a DaemonSet lists the PrePullImage.    *)
THEOREM FinalizerProtection ==
  ASSUME OneWorkerPerKey, ~SelectorsMutable
  PROVE  Spec => []FinalizerProtects
BY FInvariance, PTL DEF FInv

(* How a worker gets to a reconcile that returns nil. *)
LEMMA WorkerSucceeds ==
  ASSUME IInv, [Next]_vars, NEW w \in Workers, pc'[w] = "succeeded"
  PROVE  \/ GetPpi(w)
         \/ /\ pc[w] \in AfterFinalizer /\ req'[w] = req[w]
            /\ pc[w] = "removeFinalizer" => ds' = ds
            /\ pc[w] # "removeFinalizer" => obj'[w] = obj[w]
         \/ pc[w] = "succeeded" /\ req'[w] = req[w] /\ obj'[w] = obj[w]
<1> USE DEF IInv, AfterFinalizer, AfterGetPpi, Calls
<1>1. CASE Step(w)
  <2>1. ASSUME NEW answered \in BOOLEAN, RemoveFinalizer(w, answered)
        PROVE  pc[w] = "removeFinalizer" /\ req'[w] = req[w] /\ ds' = ds
    BY <2>1 DEF RemoveFinalizer, WithoutFinalizer, StorePpi
  <2>2. ASSUME ListNodes(w) \/ \E answered \in BOOLEAN : DropOrphans(w, answered) \/ PutTolerations(w, answered)
        PROVE  /\ pc[w] \in {"listNodes", "putTolerations", "dropOrphans"}
               /\ req'[w] = req[w] /\ obj'[w] = obj[w]
    BY <2>2 DEF ListNodes, DropOrphans, PutTolerations, UpdateDs, Goto
  <2>3. ASSUME \/ GetDs(w) \/ ListNodesForCreate(w) \/ GetDsToRemove(w)
               \/ \E answered \in BOOLEAN : \/ AddFinalizer(w, answered) \/ CreateDs(w, answered)
                                            \/ PutContainer(w, answered) \/ PutWithdrawn(w, answered)
                                            \/ DeleteDs(w, answered)
               \/ Refused(w) \/ CallFails(w) \/ Finish(w)
        PROVE  \/ pc'[w] # "succeeded"
               \/ /\ pc[w] \in AfterFinalizer \ {"removeFinalizer"}
                  /\ req'[w] = req[w] /\ obj'[w] = obj[w]
    BY <2>3 DEF GetDs, ListNodesForCreate, GetDsToRemove, AddFinalizer, WithFinalizer, CreateDs,
       PutContainer, PutWithdrawn, DeleteDs, UpdateDs, Refused, CallFails, Finish, Goto, TypeOK,
       AfterFetch, AfterTolerations
  <2> QED
    BY <1>1, <2>1, <2>2, <2>3 DEF Step, Reads, Writes
<1>2. ASSUME NEW v \in Workers, v # w, Step(v) \/ \E n \in Names : Start(v, n)
      PROVE  pc'[w] = pc[w] /\ req'[w] = req[w] /\ obj'[w] = obj[w]
  BY <1>2, OthersRest
<1>3. ASSUME (\E n \in Names : Start(w, n)) \/ Crash PROVE FALSE
  BY <1>3 DEF Start, Crash, Goto, TypeOK
<1>4. CASE Environment \/ UNCHANGED vars
  BY <1>4 DEF Environment, UserCreates, UserEditsImage, UserEditsSelector, UserDeletes,
     ForeignFinalizerRemoved, NodeTainted, locals, vars
<1> QED
  BY <1>1, <1>2, <1>3, <1>4 DEF Next

LEMMA NextKeepsListedOnce ==
  ASSUME OneWorkerPerKey, ~SelectorsMutable, IInv, FInv, ListedInItsDaemonSetOnly, [Next]_vars
  PROVE  ListedInItsDaemonSetOnly'
<1> USE DEF IInv, FInv
<1> SUFFICES ASSUME NEW w \in Workers, pc'[w] = "succeeded", obj'[w] # None,
                    NEW d \in DsNames, d # Target(w)', ds'[d] # None,
                    req'[w] \in DOMAIN ds'[d].ann.index
             PROVE  FALSE
  BY DEF ListedInItsDaemonSetOnly
<1>1. FinalizerProtects'
  BY NextKeepsFInv
<1>2. CASE GetPpi(w)
  <2>1. /\ ds' = ds /\ ppi' = ppi /\ req' = req /\ ppi[req[w]] # None
        /\ obj'[w] = ppi[req[w]]
    BY <1>2 DEF GetPpi, cluster, Phases, TypeOK, Goto
  <2> QED
    BY <1>1, <2>1 DEF FinalizerProtects, Target
<1>3. CASE pc[w] = "removeFinalizer" /\ req'[w] = req[w] /\ ds' = ds
  BY <1>3 DEF Unlisted
<1>4. CASE /\ pc[w] \in AfterFinalizer /\ pc[w] # "removeFinalizer"
           /\ req'[w] = req[w] /\ obj'[w] = obj[w]
  <2>1. req[w] \in Names /\ pc[w] # "idle"
    BY <1>4, ConstantsAssumption DEF Phases, AfterFinalizer, AfterGetPpi, Calls
  <2>2. \A v \in Workers : ~(req[v] = req[w] /\ pc[v] = "removeFinalizer")
    BY <1>4, <2>1 DEF OneWorkerPerKey, Phases
  <2>3. ppi'[req[w]] # None /\ ppi'[req[w]].selector = obj[w].selector
    BY <1>4, <2>1, <2>2, FinalizerStays DEF Guarded
  <2> QED
    BY <1>1, <1>4, <2>3 DEF FinalizerProtects, Target
<1>5. CASE pc[w] = "succeeded" /\ req'[w] = req[w] /\ obj'[w] = obj[w]
  <2>1. ds[d] # None => req[w] \notin DOMAIN ds[d].ann.index
    BY <1>5 DEF ListedInItsDaemonSetOnly, Target
  <2>2. PICK v \in Workers :
          pc[v] \in AfterGetPpi /\ (Puts(v) \/ TakesOut(v) \/ Deletes(v))
    BY <1>5, <2>1, WhoChangesDs
  <2>3. req[v] = req[w]
    BY <1>5, <2>1, <2>2, WhoAddsEntries
  <2> QED
    BY <1>5, <2>2, <2>3 DEF OneWorkerPerKey, Phases, AfterGetPpi, Calls
<1> QED
  BY <1>2, <1>3, <1>4, <1>5, WorkerSucceeds

(* Under the same assumptions a PrePullImage that was reconciled is listed *)
(* in the DaemonSet of its nodeSelector and in no other, also if it was    *)
(* deleted and created anew with another nodeSelector (the names of the    *)
(* annotation, getCurrentPrePullingDaemonset).                             *)
THEOREM ListedOnce ==
  ASSUME OneWorkerPerKey, ~SelectorsMutable
  PROVE  Spec => []ListedInItsDaemonSetOnly
<1>1. Init => ListedInItsDaemonSetOnly
  BY DEF Init, ListedInItsDaemonSetOnly
<1>2. IInv /\ FInv /\ ListedInItsDaemonSetOnly /\ [Next]_vars => ListedInItsDaemonSetOnly'
  BY NextKeepsListedOnce
<1> QED
  BY <1>1, <1>2, Invariance, FInvariance, PTL DEF Spec
=============================================================================

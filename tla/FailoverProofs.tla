--------------------------- MODULE FailoverProofs ---------------------------
(***************************************************************************)
(* Theorems about Failover, for any number of processes, elections and     *)
(* crashes: what the process that was elected last finds half done is      *)
(* taken over so that the finalizer guards every entry, as long as no      *)
(* write of another process lands.                                         *)
(***************************************************************************)
EXTENDS Failover, ReconcilerProofs

(* Guarded and Unlisted, of the process that was elected last.             *)
GuardedBy(w) ==
  pc[w] \in AfterFinalizer =>
    /\ ppi[req[w]] # None
    /\ FinalizerName \in ppi[req[w]].finalizers
    /\ ppi[req[w]].selector = obj[w].selector

UnlistedBy(w) ==
  pc[w] = "removeFinalizer" =>
    \A d \in DsNames : ds[d] # None => req[w] \notin DOMAIN ds[d].ann.index

Protecting ==
  /\ FinalizerProtects
  /\ \A w \in Workers : w = latest => GuardedBy(w) /\ UnlistedBy(w)

(* The one that leads was elected last.                                    *)
Elected ==
  /\ leader \in Workers \cup {None} /\ mayWork \subseteq Workers
  /\ latest \in Workers \cup {None} /\ intruded \in BOOLEAN
  /\ leader # None => leader = latest

FoInv == IInv /\ Elected /\ (~intruded => Protecting)

-----------------------------------------------------------------------------
(* A step of Failover is one of Reconciler, an election, or both rest. *)
LEMMA FailoverSteps ==
  ASSUME [FNext]_fvars
  PROVE  \/ \E w \in Workers, n \in Names : Start(w, n) /\ UNCHANGED <<election, intruded>>
         \/ \E w \in Workers : /\ Step(w) /\ UNCHANGED election
                               /\ intruded' = (intruded \/ Intrudes(w))
         \/ Environment /\ UNCHANGED <<election, intruded>>
         \/ Elections
         \/ UNCHANGED fvars
<1>1. ASSUME NEW w \in Workers, BreakOff(w)
      PROVE  Step(w) /\ UNCHANGED election /\ intruded' = (intruded \/ Intrudes(w))
  BY <1>1 DEF BreakOff, Step
<1> QED
  BY <1>1 DEF FNext, TakeUp, GoOn, Others

LEMMA FailoverReconciles ==
  ASSUME [FNext]_fvars PROVE [Next]_vars
BY FailoverSteps DEF Next, Elections, fvars

LEMMA NextKeepsElected ==
  ASSUME Elected, [FNext]_fvars PROVE Elected'
<1>1. CASE UNCHANGED election /\ intruded' \in BOOLEAN
  BY <1>1 DEF Elected, election
<1>2. CASE Elections
  <2>1. /\ leader' \in Workers \cup {None} /\ mayWork' \subseteq Workers
        /\ intruded' = intruded
    BY <1>2 DEF Elected, Elections, Callbacks!LNext, Callbacks!Elect, Callbacks!Depose,
       Callbacks!Cancel, Callbacks!Die
  <2> QED
    BY <1>2, <2>1 DEF Elected, Elections
<1>3. \A w \in Workers : Intrudes(w) \in BOOLEAN
  BY DEF Intrudes
<1> QED
  BY <1>1, <1>2, <1>3, FailoverSteps DEF fvars, Elected

-----------------------------------------------------------------------------
(* What the finalizer needs to stay: FinalizerStays, for a step of the     *)
(* process elected last or of the rest of the cluster.                     *)
LEMMA StaysUnlessRemoved ==
  ASSUME IInv, ~SelectorsMutable, NEW n \in Names,
         ppi[n] # None, FinalizerName \in ppi[n].finalizers,
         \/ Environment
         \/ \E w \in Workers : Step(w) /\ ~(req[w] = n /\ pc[w] = "removeFinalizer")
  PROVE  /\ ppi'[n] # None
         /\ FinalizerName \in ppi'[n].finalizers
         /\ ppi'[n].selector = ppi[n].selector
<1>1. CASE Environment
  <2>1. pc' = pc
    BY <1>1 DEF Environment, UserCreates, UserEditsImage, UserEditsSelector, UserDeletes,
       ForeignFinalizerRemoved, NodeTainted, locals
  <2> QED
    BY <1>1, <2>1, FinalizerStays DEF Next
<1>2. ASSUME NEW w \in Workers, Step(w), ~(req[w] = n /\ pc[w] = "removeFinalizer")
      PROVE  /\ ppi'[n] # None
             /\ FinalizerName \in ppi'[n].finalizers
             /\ ppi'[n].selector = ppi[n].selector
  <2>1. \A v \in Workers : req[v] = n /\ pc[v] = "removeFinalizer" => pc'[v] = pc[v]
    BY <1>2, OthersRest DEF IInv
  <2> QED
    BY <1>2, <2>1, FinalizerStays DEF Next
<1> QED
  BY <1>1, <1>2

(* The rest of the cluster: users, other controllers, nodes. *)
LEMMA EnvironmentProtects ==
  ASSUME IInv, ~SelectorsMutable, Protecting, Environment, latest' = latest
  PROVE  Protecting'
<1> USE DEF IInv
<1>1. ds' = ds /\ pc' = pc /\ req' = req /\ obj' = obj
  BY DEF Environment, UserCreates, UserEditsImage, UserEditsSelector, UserDeletes,
     ForeignFinalizerRemoved, NodeTainted, locals, StorePpi
<1>2. FinalizerProtects'
  <2> SUFFICES ASSUME NEW d \in DsNames, ds[d] # None, NEW n \in DOMAIN ds[d].ann.index
               PROVE  /\ ppi'[n] # None
                      /\ FinalizerName \in ppi'[n].finalizers
                      /\ DsName[ppi'[n].selector] = d
    BY <1>1 DEF FinalizerProtects
  <2>1. ds[d].ann \in Lookups(Names, Images)
    BY DEF TypeOK, DaemonSet
  <2>2. n \in Names
    BY <2>1, IndexedIsImage
  <2> QED
    BY <2>2, StaysUnlessRemoved DEF Protecting, FinalizerProtects
<1>3. ASSUME NEW w \in Workers, w = latest
      PROVE  GuardedBy(w)' /\ UnlistedBy(w)'
  <2>1. GuardedBy(w) /\ UnlistedBy(w)
    BY <1>3 DEF Protecting
  <2>2. pc[w] \in AfterFinalizer => req[w] \in Names
    BY ConstantsAssumption DEF Phases, AfterFinalizer, AfterGetPpi, Calls
  <2> QED
    BY <1>1, <2>1, <2>2, StaysUnlessRemoved DEF GuardedBy, UnlistedBy
<1> QED
  BY <1>2, <1>3 DEF Protecting

-----------------------------------------------------------------------------
(* The steps of the process elected last. *)

LEMMA LatestProtects ==
  ASSUME IInv, ~SelectorsMutable, Protecting, NEW w \in Workers, w = latest, Step(w)
  PROVE  FinalizerProtects'
<1> USE DEF IInv
<1>0. GuardedBy(w) /\ UnlistedBy(w)
  BY DEF Protecting
<1> SUFFICES ASSUME NEW d \in DsNames, ds'[d] # None, NEW n \in DOMAIN ds'[d].ann.index
             PROVE  /\ ppi'[n] # None
                    /\ FinalizerName \in ppi'[n].finalizers
                    /\ DsName[ppi'[n].selector] = d
  BY DEF FinalizerProtects
<1>1. CASE ds[d] # None /\ n \in DOMAIN ds[d].ann.index
  <2>1. ds[d].ann \in Lookups(Names, Images)
    BY <1>1 DEF TypeOK, DaemonSet
  <2>2. n \in Names
    BY <1>1, <2>1, IndexedIsImage
  <2>3. ~(req[w] = n /\ pc[w] = "removeFinalizer")
    BY <1>0, <1>1 DEF UnlistedBy
  <2> QED
    BY <1>1, <2>2, <2>3, StaysUnlessRemoved DEF Protecting, FinalizerProtects
<1>2. CASE ~(ds[d] # None /\ n \in DOMAIN ds[d].ann.index)
  <2>1. pc[w] \in AfterGetPpi /\ (Puts(w) \/ TakesOut(w) \/ Deletes(w))
    BY <1>2, StepChangesDs
  <2>2. Puts(w) /\ d = Target(w) /\ n = req[w]
    BY <1>2, <2>1, WhoAddsEntries
  <2>3. pc[w] \in AfterFinalizer /\ pc[w] # "removeFinalizer" /\ n \in Names
    BY <2>2, ConstantsAssumption DEF Puts, Phases, AfterFinalizer, AfterGetPpi, Calls
  <2>4. /\ ppi[n] # None /\ FinalizerName \in ppi[n].finalizers
        /\ ppi[n].selector = obj[w].selector
    BY <1>0, <2>2, <2>3 DEF GuardedBy
  <2> QED
    BY <2>2, <2>3, <2>4, StaysUnlessRemoved DEF Target
<1> QED
  BY <1>1, <1>2

LEMMA LatestGuards ==
  ASSUME IInv, ~SelectorsMutable, Protecting, NEW w \in Workers, w = latest, Step(w)
  PROVE  GuardedBy(w)'
<1> USE DEF IInv
<1> SUFFICES ASSUME pc'[w] \in AfterFinalizer
             PROVE  /\ ppi'[req'[w]] # None
                    /\ FinalizerName \in ppi'[req'[w]].finalizers
                    /\ ppi'[req'[w]].selector = obj'[w].selector
  BY DEF GuardedBy
<1>1. CASE GetPpi(w)
  <2>1. ppi[req[w]] # None
    BY <1>1 DEF GetPpi, Goto, TypeOK, AfterFinalizer, AfterGetPpi, Calls
  <2>2. pc'[w] = AfterGet(ppi[req[w]]) /\ obj'[w] = ppi[req[w]] /\ ppi' = ppi /\ req' = req
    BY <1>1, <2>1 DEF GetPpi, Goto, TypeOK, cluster
  <2> QED
    BY <2>1, <2>2 DEF AfterGet, HasFinalizer, AfterFinalizer, AfterGetPpi, Calls
<1>2. ASSUME NEW answered \in BOOLEAN, AddFinalizer(w, answered)
      PROVE  /\ ppi'[req'[w]] # None
             /\ FinalizerName \in ppi'[req'[w]].finalizers
             /\ ppi'[req'[w]].selector = obj'[w].selector
  <2> DEFINE new == [obj[w] EXCEPT !.finalizers = @ \cup {FinalizerName}]
  <2>1. obj[w] \in PrePullImage /\ req[w] \in Names
    BY <1>2, ConstantsAssumption DEF AddFinalizer, WithFinalizer, Phases, TypeOK, AfterGetPpi, Calls
  <2>2. new \in PrePullImage /\ FinalizerName \in new.finalizers
    BY <2>1 DEF PrePullImage
  <2>3. ppi'[req[w]] = new /\ obj'[w] = new /\ req' = req
    BY <1>2, <2>1, <2>2 DEF AddFinalizer, WithFinalizer, StorePpi, Stored, TypeOK
  <2> QED
    BY <2>2, <2>3, NoneAssumption
<1>3. CASE /\ pc[w] \in AfterFinalizer /\ req'[w] = req[w] /\ obj'[w] = obj[w]
           /\ pc[w] # "removeFinalizer"
  <2>1. req[w] \in Names
    BY <1>3, ConstantsAssumption DEF Phases, AfterFinalizer, AfterGetPpi, Calls
  <2> QED
    BY <1>3, <2>1, StaysUnlessRemoved DEF Protecting, GuardedBy
<1>4. CASE pc[w] = "removeFinalizer"
  BY <1>4 DEF Step, Reads, Writes, GetPpi, GetDs, ListNodesForCreate, ListNodes, GetDsToRemove,
     AddFinalizer, WithFinalizer, CreateDs, PutContainer, PutTolerations, DropOrphans, PutWithdrawn,
     UpdateDs, DeleteDs, RemoveFinalizer, WithoutFinalizer, Refused, CallFails, Finish, Goto, TypeOK,
     AfterFinalizer, AfterGetPpi, Calls
<1> QED
  BY <1>1, <1>2, <1>3, <1>4, WorkerGetsThere DEF Next

LEMMA LatestUnlists ==
  ASSUME IInv, ~SelectorsMutable, Protecting, NEW w \in Workers, w = latest, Step(w)
  PROVE  UnlistedBy(w)'
<1> USE DEF IInv
<1> SUFFICES ASSUME pc'[w] = "removeFinalizer",
                    NEW d \in DsNames, ds'[d] # None, req'[w] \in DOMAIN ds'[d].ann.index
             PROVE  FALSE
  BY DEF UnlistedBy
<1>1. pc'[w] \in AfterFinalizer
  BY DEF AfterFinalizer, AfterGetPpi, Calls
<1>2. pc[w] # "removeFinalizer"
  BY DEF Step, Reads, Writes, GetPpi, GetDs, ListNodesForCreate, ListNodes, GetDsToRemove,
     AddFinalizer, WithFinalizer, CreateDs, PutContainer, PutTolerations, DropOrphans, PutWithdrawn,
     UpdateDs, DeleteDs, RemoveFinalizer, WithoutFinalizer, Refused, CallFails, Finish, Goto, TypeOK
<1>3. ~GetPpi(w) /\ \A answered \in BOOLEAN : ~AddFinalizer(w, answered)
  BY AfterGetIsCall DEF GetPpi, AddFinalizer, WithFinalizer, Goto, TypeOK
<1>4. /\ pc[w] \in AfterFinalizer /\ req'[w] = req[w] /\ obj'[w] = obj[w]
      /\ \/ GetDsToRemove(w)
         \/ \E answered \in BOOLEAN : PutWithdrawn(w, answered) \/ DeleteDs(w, answered)
  BY <1>1, <1>2, <1>3, WorkerGetsThere DEF Next
<1>5. req[w] \in Names
  BY <1>4, ConstantsAssumption DEF Phases, AfterFinalizer, AfterGetPpi, Calls
<1>6. ASSUME ds[d] # None, req[w] \in DOMAIN ds[d].ann.index
      PROVE  d = Target(w)
  BY <1>4, <1>6 DEF Protecting, FinalizerProtects, GuardedBy, Target
<1>7. CASE GetDsToRemove(w)
  <2>1. ds' = ds /\ ds[Target(w)] = None
    BY <1>7 DEF GetDsToRemove, cluster, Goto, TypeOK
  <2> QED
    BY <1>4, <1>6, <2>1
<1>8. ASSUME NEW answered \in BOOLEAN, DeleteDs(w, answered) PROVE FALSE
  BY <1>4, <1>6, <1>8 DEF DeleteDs, TypeOK
<1>9. ASSUME NEW answered \in BOOLEAN, PutWithdrawn(w, answered) PROVE FALSE
  <2> DEFINE new == Withdrawn(held[w], obj[w].image, req[w])
  <2>1. w \in heldCurrent /\ ds' = [ds EXCEPT ![Target(w)] = new] /\ pc[w] = "putWithdrawn"
    BY <1>9 DEF PutWithdrawn, UpdateDs, StoreDs
  <2>2. held[w] \in DaemonSet /\ WellFormed(held[w]) /\ obj[w].image \in Images
    BY <2>1 DEF TypeOK, Phases, HeldWellFormed, WithDs, AfterGetPpi, Calls, PrePullImage
  <2>3. new.ann.index = IF req[w] \in DOMAIN held[w].ann.index
                        THEN Without(held[w].ann.index, req[w])
                        ELSE held[w].ann.index
    BY <1>5, <2>2, WithdrawnCovers
  <2>4. req[w] \notin DOMAIN new.ann.index
    BY <2>3 DEF Without, Restrict
  <2>5. CASE d = Target(w)
    BY <1>4, <2>1, <2>4, <2>5 DEF TypeOK
  <2>6. CASE d # Target(w)
    BY <1>4, <1>6, <2>1, <2>6 DEF TypeOK
  <2> QED
    BY <2>5, <2>6
<1> QED
  BY <1>4, <1>7, <1>8, <1>9

-----------------------------------------------------------------------------
LEMMA NextKeepsProtecting ==
  ASSUME ~SelectorsMutable, FoInv, [FNext]_fvars, ~intruded'
  PROVE  Protecting'
<1> USE DEF FoInv
<1>1. ASSUME ~intruded, ppi' = ppi, ds' = ds, latest' = latest,
             \A w \in Workers : w = latest => \/ pc'[w] \notin AfterFinalizer
                                              \/ UNCHANGED <<pc[w], req[w], obj[w]>>
      PROVE  Protecting'
  BY <1>1 DEF Protecting, FinalizerProtects, GuardedBy, UnlistedBy, AfterFinalizer, AfterGetPpi, Calls
<1>2. ASSUME NEW v \in Workers, NEW n \in Names, Start(v, n), UNCHANGED <<election, intruded>>
      PROVE  Protecting'
  <2>1. ppi' = ppi /\ ds' = ds /\ pc'[v] = "getPpi"
    BY <1>2 DEF Start, cluster, Goto, IInv, TypeOK
  <2>2. "getPpi" \notin AfterFinalizer
    BY DEF AfterFinalizer, AfterGetPpi
  <2> QED
    BY <1>1, <1>2, <2>1, <2>2, OthersRest DEF election, IInv
<1>3. ASSUME NEW v \in Workers, Step(v), UNCHANGED election, intruded' = (intruded \/ Intrudes(v))
      PROVE  Protecting'
  <2>1. ~intruded /\ ~Intrudes(v)
    BY <1>3
  <2>2. CASE v = latest
    <3>1. FinalizerProtects' /\ GuardedBy(v)' /\ UnlistedBy(v)'
      BY <1>3, <2>1, <2>2, LatestProtects, LatestGuards, LatestUnlists
    <3> QED
      BY <1>3, <2>2, <3>1 DEF Protecting, election
  <2>3. CASE v # latest
    <3>1. ppi' = ppi /\ ds' = ds
      BY <2>1, <2>3 DEF Intrudes, cluster
    <3>2. \A w \in Workers : w = latest => UNCHANGED <<pc[w], req[w], obj[w]>>
      BY <1>3, <2>3, OthersRest DEF IInv
    <3> QED
      BY <1>1, <1>3, <2>1, <3>1, <3>2 DEF election
  <2> QED
    BY <2>2, <2>3
<1>4. ASSUME Environment, UNCHANGED <<election, intruded>>
      PROVE  Protecting'
  BY <1>4, EnvironmentProtects DEF election
<1>5. ASSUME Elections
      PROVE  Protecting'
  <2>1. ~intruded /\ UNCHANGED <<ppi, ds, pc, req, obj>>
    BY <1>5 DEF Elections, vars
  <2>2. CASE latest' = latest
    BY <1>1, <2>1, <2>2
  <2>3. CASE latest' # latest
    <3>1. latest' = leader' /\ pc[latest'] = "idle"
      BY <1>5, <2>3 DEF Elections, Elected
    <3> QED
      BY <2>1, <3>1 DEF Protecting, FinalizerProtects, GuardedBy, UnlistedBy,
         AfterFinalizer, AfterGetPpi, Calls
  <2> QED
    BY <2>2, <2>3
<1>6. CASE UNCHANGED fvars
  BY <1>1, <1>6 DEF fvars, vars, election
<1> QED
  BY <1>2, <1>3, <1>4, <1>5, <1>6, FailoverSteps

LEMMA FailoverInvariance ==
  ASSUME ~SelectorsMutable
  PROVE  FSpec => []FoInv
<1>1. FInit => FoInv
  <2> SUFFICES ASSUME FInit PROVE FoInv
    OBVIOUS
  <2>1. IInv
    BY InitIInv DEF FInit
  <2>2. Elected
    BY DEF FInit, Callbacks!LInit, Elected
  <2>3. Protecting
    BY DEF FInit, Init, Protecting, FinalizerProtects, GuardedBy, UnlistedBy,
       AfterFinalizer, AfterGetPpi, Calls
  <2> QED
    BY <2>1, <2>2, <2>3 DEF FoInv
<1>2. FoInv /\ [FNext]_fvars => FoInv'
  <2> SUFFICES ASSUME FoInv, [FNext]_fvars PROVE FoInv'
    OBVIOUS
  <2>1. IInv'
    BY FailoverReconciles, NextKeepsIInv DEF FoInv
  <2>2. Elected'
    BY NextKeepsElected DEF FoInv
  <2>3. ~intruded' => Protecting'
    BY NextKeepsProtecting
  <2> QED
    BY <2>1, <2>2, <2>3 DEF FoInv
<1> QED
  BY <1>1, <1>2, PTL DEF FSpec

(* The types of the reconciling workers and of the election.               *)
THEOREM FailoverTypeCorrectness == FSpec => []FTypeOK
<1>1. FInit => IInv /\ Elected
  BY InitIInv DEF FInit, Callbacks!LInit, Elected
<1>2. IInv /\ Elected /\ [FNext]_fvars => IInv' /\ Elected'
  BY FailoverReconciles, NextKeepsIInv, NextKeepsElected
<1>3. IInv /\ Elected => FTypeOK
  BY DEF IInv, Elected, FTypeOK
<1> QED
  BY <1>1, <1>2, <1>3, PTL DEF FSpec

(* Whatever process leads, and however often it is deposed or dies between *)
(* any two calls: a listed PrePullImage has its finalizer (the order of    *)
(* the writes of Reconcile, reconciller.go:55-79), unless a write of a     *)
(* process lands after the election of its successor.                      *)
THEOREM FailoverProtection ==
  ASSUME ~SelectorsMutable
  PROVE  FSpec => []ProtectsUnlessIntruded
<1>1. FoInv => ProtectsUnlessIntruded
  BY DEF FoInv, Protecting, ProtectsUnlessIntruded
<1> QED
  BY <1>1, FailoverInvariance, PTL
=============================================================================

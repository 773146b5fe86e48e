-------------------------- MODULE ControllerProofs --------------------------
(***************************************************************************)
(* Proofs about Controller, for any number of workers, keys, edits and     *)
(* faults: its workers are those of Reconciler, and no request is lost but *)
(* in two ways that are told apart here.                                   *)
(***************************************************************************)
EXTENDS Controller, LoneWorkerProofs, SequenceTheorems

-----------------------------------------------------------------------------
(* The queues, the informer and the faults only choose among the steps of  *)
(* Reconciler.                                                             *)
LEMMA ControllerStep ==
  ASSUME [CNext]_cvars
  PROVE  \/ UNCHANGED vars
         \/ \E w \in Workers, n \in Names : Start(w, n)
         \/ \E w \in Workers : Step(w)
         \/ Crash
         \/ Environment
<1>1. CASE UNCHANGED cvars
  BY <1>1 DEF cvars
<1>2. ASSUME NEW n \in Names, Deliver(n) \/ DelayOver(n) PROVE UNCHANGED vars
  BY <1>2 DEF Deliver, DelayOver
<1>3. ASSUME NEW w \in Workers, Take(w) PROVE \E n \in Names : Start(w, n)
  <2>1. PICK n \in queue : Start(w, n)
    BY <1>3 DEF Take
  <2>2. n \in Names
    BY <2>1, ConstantsAssumption DEF Start
  <2> QED BY <2>1, <2>2
<1>4. ASSUME NEW w \in Workers, Call(w) \/ Fault(w) \/ Done(w) PROVE Step(w)
  <2>1. CASE Call(w)
    BY <2>1 DEF Call, Step
  <2>2. CASE Fault(w)
    BY <2>2 DEF Fault, Step
  <2>3. CASE Done(w)
    BY <2>3 DEF Done, Step
  <2> QED BY <1>4, <2>1, <2>2, <2>3
<1>5. CASE Relist
  BY <1>5 DEF Relist
<1>6. CASE Restart
  BY <1>6 DEF Restart
<1>7. CASE Edit
  BY <1>7 DEF Edit
<1> QED
  BY <1>1, <1>2, <1>3, <1>4, <1>5, <1>6, <1>7 DEF CNext, System

(* So the controller's behaviours are behaviours of Reconciler, and every  *)
(* theorem about Reconciler holds of the controller: what its workers do   *)
(* is what processNextReq makes them do.                                   *)
THEOREM ControllerRunsReconciler == CSpec => Spec
<1>1. CInit => Init
  BY DEF CInit
<1>2. [CNext]_cvars => [Next]_vars
  BY ControllerStep DEF Next
<1> QED BY <1>1, <1>2, PTL DEF CSpec, Spec

-----------------------------------------------------------------------------
(* Types. *)

Versions == PrePullImage \cup {None}

LEMMA WatchedType ==
  ASSUME pending \in [Names -> Seq(Versions)], ppi' \in [Names -> Versions], Watched
  PROVE  pending' \in [Names -> Seq(Versions)]
<1>1. ASSUME NEW n \in Names PROVE Append(pending[n], ppi'[n]) \in Seq(Versions)
  <2>1. pending[n] \in Seq(Versions) /\ ppi'[n] \in Versions
    OBVIOUS
  <2> QED BY <2>1, AppendProperties
<1> QED BY <1>1 DEF Watched

LEMMA NextKeepsCTypes ==
  ASSUME IInv, IInv', CTypeOK, [CNext]_cvars
  PROVE  CTypeOK'
<1> USE BoundsAssumption DEF CTypeOK
<1>0. TypeOK' /\ ppi' \in [Names -> Versions] /\ ppi \in [Names -> Versions]
      /\ cache \in [Names -> Versions] /\ pending \in [Names -> Seq(Versions)]
  BY DEF IInv, TypeOK, Versions
<1>1. CASE UNCHANGED cvars
  BY <1>0, <1>1 DEF cvars
<1>2. ASSUME NEW n \in Names, Deliver(n) PROVE CTypeOK'
  <2>1. Head(pending[n]) \in Versions /\ Tail(pending[n]) \in Seq(Versions)
    BY <1>0, <1>2, HeadTailProperties DEF Deliver
  <2>2. cache' \in [Names -> Versions] /\ pending' \in [Names -> Seq(Versions)]
    BY <1>0, <1>2, <2>1 DEF Deliver
  <2>3. queue' \subseteq Names /\ UNCHANGED <<delayed, edits, faults>>
    BY <1>2 DEF Deliver, Added
  <2> QED BY <1>0, <2>2, <2>3 DEF Versions
<1>3. ASSUME NEW n \in Names, DelayOver(n) PROVE CTypeOK'
  BY <1>0, <1>3 DEF DelayOver, Added, informer
<1>4. ASSUME NEW w \in Workers, Take(w) PROVE CTypeOK'
  BY <1>0, <1>4 DEF Take, informer
<1>5. ASSUME Watched, cache' = cache, UNCHANGED queues, edits' \in 0..MaxEdits,
             faults' \in 0..MaxFaults
      PROVE  CTypeOK'
  <2>1. pending' \in [Names -> Seq(Versions)]
    BY <1>0, <1>5, WatchedType
  <2> QED BY <1>0, <1>5, <2>1 DEF Versions, queues
<1>6. ASSUME NEW w \in Workers, Call(w) PROVE CTypeOK'
  BY <1>5, <1>6 DEF Call
<1>7. ASSUME NEW w \in Workers, Fault(w) PROVE CTypeOK'
  BY <1>5, <1>7 DEF Fault
<1>8. CASE Edit
  BY <1>5, <1>8 DEF Edit
<1>9. ASSUME NEW w \in Workers, Done(w) PROVE CTypeOK'
  <2>1. pc[w] = "failed" => req[w] \in Names
    BY ConstantsAssumption DEF IInv, Phases
  <2>2. delayed' \subseteq Names
    BY <1>9, <2>1 DEF Done, Requeued, Added
  <2> QED BY <1>0, <1>9, <2>2 DEF Done, informer
<1>10. ASSUME NEW n \in Names
       PROVE  <<>> \in Seq(Versions) /\ <<ppi[n]>> \in Seq(Versions)
  <2>1. ppi[n] \in Versions
    BY <1>0
  <2> QED BY <2>1
<1>11. CASE Relist
  <2>1. pending' \in [Names -> Seq(Versions)]
    BY <1>10, <1>11 DEF Relist
  <2> QED BY <1>0, <1>11, <2>1 DEF Relist, queues, Versions
<1>12. CASE Restart
  <2>1. pending' \in [Names -> Seq(Versions)]
    BY <1>10, <1>12 DEF Restart
  <2>2. cache' \in [Names -> Versions] /\ queue' = {} /\ delayed' = {}
        /\ edits' = edits /\ faults' \in 0..MaxFaults
    BY <1>12 DEF Restart, Versions
  <2> QED BY <1>0, <2>1, <2>2 DEF Versions
<1> QED
  BY <1>1, <1>2, <1>3, <1>4, <1>6, <1>7, <1>8, <1>9, <1>11, <1>12 DEF CNext, System

LEMMA CInvariance == CSpec => [](IInv /\ CTypeOK)
<1>1. CInit => IInv /\ CTypeOK
  <2> SUFFICES ASSUME CInit PROVE IInv /\ CTypeOK
    OBVIOUS
  <2>1. IInv
    BY InitIInv DEF CInit
  <2>2. \A n \in Names : pending[n] = <<>> /\ cache[n] = None
    BY DEF CInit
  <2>3. pending \in [Names -> Seq(Versions)] /\ cache \in [Names -> Versions]
    BY DEF CInit, Versions
  <2> QED BY <2>1, <2>3, BoundsAssumption DEF CInit, CTypeOK, IInv, Versions
<1>2. IInv /\ IInv' /\ CTypeOK /\ [CNext]_cvars => CTypeOK'
  BY NextKeepsCTypes
<1>3. CSpec => []IInv
  BY ControllerRunsReconciler, Invariance, PTL
<1> QED BY <1>1, <1>2, <1>3, PTL DEF CSpec

(* Every variable of the controller keeps its type: only keys get into the *)
(* queues, only versions of PrePullImages into the informer.               *)
THEOREM ControllerTypeCorrectness == CSpec => []CTypeOK
BY CInvariance, PTL

-----------------------------------------------------------------------------
(* No request is lost.                                                     *)

(* The versions of a PrePullImage that the informer has before it: the     *)
(* one in its store, then those that are on their way.                     *)
Version(n, k) == IF k = 0 THEN cache[n] ELSE pending[n][k]

(* The handlers will make a request for n out of what is on its way. *)
Coming(n) ==
  \E k \in 1..Len(pending[n]) : Requests(Version(n, k - 1), Version(n, k))

(* The last version the informer will have is what is stored. *)
UpToDate == \A n \in Names : Version(n, Len(pending[n])) = ppi[n]

(* A worker will take n up once more. *)
Due(n) == n \in queue \cup delayed \/ Coming(n)

(* A worker goes by the spec that is stored, and takes a PrePullImage for  *)
(* deleted only if it is, unless the key comes up once more.               *)
SeesLatest ==
  \A w \in Workers : obj[w] # None =>
    \/ ppi[req[w]] = None
    \/ Due(req[w])
    \/ /\ SameSpec(obj[w], ppi[req[w]])
       /\ obj[w].deleting => ppi[req[w]].deleting

(* Where Reconcile is before the image is in, or else will be tried again. *)
Ahead == {"getPpi", "addFinalizer", "getDs", "listNodesForCreate", "createDs",
          "putContainer", "failed"}

(* What is not pulled is on its way to a worker, or with one. *)
NoneForgotten ==
  \A n \in Names : ppi[n] # None /\ ~ppi[n].deleting =>
    \/ Pulled(n)
    \/ Due(n)
    \/ \E w \in Workers : req[w] = n /\ pc[w] \in Ahead

QInv == UpToDate /\ Sides /\ SeesLatest /\ NoneForgotten

(* The two ways in which a request is lost: a worker deletes a DaemonSet   *)
(* that it has not seen, and a list hides from the handlers a version      *)
(* between two others.                                                     *)
LosesNoRequest ==
  /\ \A w \in Workers : ~DeletesUnseen(w)
  /\ Relist => \A n \in Names : Coming(n) => Coming(n)'

-----------------------------------------------------------------------------
(* What is on its way. *)

(* A change of what is stored is sent, and hides nothing sent before. *)
LEMMA WatchedChain ==
  ASSUME CTypeOK, ppi' \in [Names -> Versions], Watched, cache' = cache, NEW n \in Names
  PROVE  /\ Coming(n) => Coming(n)'
         /\ Version(n, Len(pending[n])) = ppi[n] =>
              /\ Version(n, Len(pending[n]))' = ppi'[n]
              /\ Requests(ppi[n], ppi'[n]) => Coming(n)'
<1>1. CASE ppi'[n] = ppi[n]
  <2>1. pending'[n] = pending[n]
    BY <1>1 DEF Watched
  <2>2. ~Requests(ppi[n], ppi'[n])
    BY <1>1 DEF Requests, SameSpec
  <2> QED BY <1>1, <2>1, <2>2 DEF Coming, Version, Requests, SameSpec
<1>2. CASE ppi'[n] # ppi[n]
  <2>1. PICK k \in Nat : k = Len(pending[n])
    BY LenProperties DEF CTypeOK
  <2>2. /\ Len(pending'[n]) = k + 1 /\ pending'[n][k + 1] = ppi'[n]
        /\ \A i \in 1..k : pending'[n][i] = pending[n][i]
    <3>1. pending[n] \in Seq(Versions) /\ ppi'[n] \in Versions
      BY DEF CTypeOK, Versions
    <3>2. pending'[n] = Append(pending[n], ppi'[n])
      BY <1>2 DEF Watched
    <3> QED BY <2>1, <3>1, <3>2, AppendProperties
  <2>3. \A i \in 0..k : Version(n, i)' = Version(n, i)
    BY <2>2 DEF Version
  <2>4. Version(n, k + 1)' = ppi'[n]
    BY <2>2 DEF Version
  <2>5. ASSUME NEW i \in 1..(k + 1), Requests(Version(n, i - 1)', Version(n, i)')
        PROVE  Coming(n)'
    BY <2>2, <2>5 DEF Coming, Requests, SameSpec
  <2>6. ASSUME Coming(n) PROVE Coming(n)'
    <3>1. PICK i \in 1..k : Requests(Version(n, i - 1), Version(n, i))
      BY <2>1, <2>6 DEF Coming
    <3> QED BY <2>3, <2>5, <3>1
  <2>7. ASSUME Version(n, k) = ppi[n], Requests(ppi[n], ppi'[n]) PROVE Coming(n)'
    <3>1. Version(n, (k + 1) - 1)' = ppi[n]
      BY <2>3, <2>7
    <3> QED BY <2>4, <2>5, <2>7, <3>1
  <2> QED BY <2>1, <2>2, <2>4, <2>6, <2>7
<1> QED BY <1>1, <1>2

(* The informer takes one version in: the rest stays, and what was a       *)
(* request is now in the queue.                                            *)
LEMMA DeliverChain ==
  ASSUME CTypeOK, NEW n \in Names, NEW m \in Names, Deliver(m)
  PROVE  /\ Coming(n) => Coming(n)' \/ n \in queue'
         /\ Version(n, Len(pending[n]))' = Version(n, Len(pending[n]))
         /\ queue \subseteq queue' /\ delayed' = delayed
<1>1. queue \subseteq queue' /\ delayed' = delayed
  BY DEF Deliver, Added
<1>2. CASE m # n
  <2>1. pending'[n] = pending[n] /\ cache'[n] = cache[n]
    BY <1>2 DEF Deliver, CTypeOK
  <2> QED BY <1>1, <2>1 DEF Coming, Version, Requests, SameSpec
<1>3. CASE m = n
  <2>1. PICK k \in Nat : k = Len(pending[n])
    BY LenProperties DEF CTypeOK
  <2>2. /\ k >= 1 /\ Len(pending'[n]) = k - 1 /\ cache'[n] = pending[n][1]
        /\ \A i \in 1..(k - 1) : pending'[n][i] = pending[n][i + 1]
    <3>1. pending[n] # <<>> /\ pending[n] \in Seq(PrePullImage \cup {None})
      BY <1>3 DEF CTypeOK, Deliver
    <3>2. pending'[n] = Tail(pending[n]) /\ cache'[n] = Head(pending[n])
      BY <1>3 DEF Deliver, CTypeOK
    <3> QED BY <2>1, <3>1, <3>2, HeadTailProperties, EmptySeq
  <2>3. \A i \in 0..(k - 1) : Version(n, i)' = Version(n, i + 1)
    BY <2>2 DEF Version
  <2>4. Version(n, k - 1)' = Version(n, k)
    BY <2>2, <2>3
  <2>5. ASSUME NEW i \in 1..(k - 1), Requests(Version(n, i - 1)', Version(n, i)')
        PROVE  Coming(n)'
    BY <2>2, <2>5 DEF Coming, Requests, SameSpec
  <2>6. ASSUME Coming(n) PROVE Coming(n)' \/ n \in queue'
    <3>1. PICK i \in 1..k : Requests(Version(n, i - 1), Version(n, i))
      BY <2>1, <2>6 DEF Coming
    <3>2. CASE i = 1
      BY <1>3, <2>1, <2>2, <3>1, <3>2 DEF Version, Deliver, Added
    <3>3. CASE i # 1
      <4>1. i - 1 \in 1..(k - 1) /\ (i - 1) - 1 \in 0..(k - 1) /\ i - 1 \in 0..(k - 1)
            /\ ((i - 1) - 1) + 1 = i - 1 /\ (i - 1) + 1 = i
        BY <3>3
      <4>2. Version(n, (i - 1) - 1)' = Version(n, i - 1) /\ Version(n, i - 1)' = Version(n, i)
        BY <2>3, <4>1
      <4> QED BY <2>5, <3>1, <4>1, <4>2
    <3> QED BY <3>2, <3>3
  <2> QED BY <1>1, <2>1, <2>2, <2>4, <2>6
<1> QED BY <1>2, <1>3

(* A list: the informer gets what is stored. *)
LEMMA ListChain ==
  ASSUME NEW n \in Names, cache'[n] = None, ppi' = ppi,
         pending'[n] = IF ppi[n] = None THEN <<>> ELSE <<ppi[n]>>
  PROVE  /\ Version(n, Len(pending[n]))' = ppi'[n]
         /\ ppi'[n] # None => Coming(n)'
<1>1. CASE ppi[n] = None
  BY <1>1 DEF Version
<1>2. CASE ppi[n] # None
  <2>1. Len(pending'[n]) = 1 /\ pending'[n][1] = ppi[n]
    BY <1>2
  <2>2. Version(n, 1 - 1)' = None /\ Version(n, 1)' = ppi[n]
    BY <2>1 DEF Version
  <2>3. Requests(Version(n, 1 - 1)', Version(n, 1)')
    BY <1>2, <2>2 DEF Requests
  <2> QED BY <2>1, <2>2, <2>3 DEF Coming, Requests, SameSpec, Version
<1> QED BY <1>1, <1>2

(* The last version is what is stored, always; and when a spec changes,    *)
(* the change makes a request.                                             *)
LEMMA NextKeepsUpToDate ==
  ASSUME IInv, IInv', CTypeOK, UpToDate, [CNext]_cvars, NEW n \in Names
  PROVE  /\ Version(n, Len(pending[n]))' = ppi'[n]
         /\ Requests(ppi[n], ppi'[n]) => Coming(n)'
<1>0. /\ ppi' \in [Names -> Versions]
      /\ Version(n, Len(pending[n])) = ppi[n]
      /\ ppi' = ppi => ~Requests(ppi[n], ppi'[n])
  BY DEF IInv, TypeOK, Versions, UpToDate, Requests, SameSpec
<1>1. CASE UNCHANGED <<ppi, informer>>
  BY <1>0, <1>1 DEF informer, Version
<1>2. CASE Watched /\ cache' = cache
  BY <1>0, <1>2, WatchedChain
<1>3. ASSUME NEW m \in Names, Deliver(m)
      PROVE  Version(n, Len(pending[n]))' = ppi'[n] /\ ppi' = ppi
  BY <1>0, <1>3, DeliverChain DEF Deliver, vars
<1>4. CASE Relist
  <2>1. cache' = cache /\ ppi' = ppi
        /\ pending'[n] = IF ppi[n] = cache[n] THEN <<>> ELSE <<ppi[n]>>
    BY <1>4 DEF Relist, vars
  <2> QED BY <1>0, <2>1 DEF Version
<1>5. CASE Restart
  BY <1>0, <1>5, ListChain DEF Restart, Crash, cluster, vars
<1> QED
  BY <1>0, <1>1, <1>2, <1>3, <1>4, <1>5
     DEF CNext, System, DelayOver, Take, Call, Fault, Done, Edit, Start, Finish, cluster, vars, cvars,
         informer

(* What is due stays due until a worker starts on it. *)
LEMMA DueStays ==
  ASSUME IInv, IInv', CTypeOK, [CNext]_cvars, LosesNoRequest, NEW n \in Names,
         Due(n), ppi'[n] # None
  PROVE  Due(n)' \/ \E w \in Workers : Start(w, n)
<1> USE DEF Due
<1>1. CASE Watched /\ cache' = cache /\ queue' = queue /\ delayed \subseteq delayed'
  BY <1>1, WatchedChain DEF IInv, TypeOK, Versions
<1>2. ASSUME UNCHANGED informer PROVE Coming(n) => Coming(n)'
  BY <1>2 DEF informer, Coming, Version, Requests, SameSpec
<1>3. ASSUME NEW m \in Names, Deliver(m) PROVE Due(n)'
  BY <1>3, DeliverChain
<1>4. ASSUME NEW m \in Names, DelayOver(m) PROVE Due(n)'
  BY <1>2, <1>4 DEF DelayOver, Added
<1>5. ASSUME NEW w \in Workers, Take(w) PROVE Due(n)' \/ Start(w, n)
  BY <1>2, <1>5 DEF Take
<1>6. ASSUME NEW w \in Workers, Done(w) PROVE Due(n)'
  BY <1>2, <1>6 DEF Done, Requeued, Added, informer
<1>7. CASE Relist
  BY <1>7 DEF Relist, LosesNoRequest, queues
<1>8. CASE Restart
  BY <1>8, ListChain DEF Restart, Crash, cluster, vars
<1>9. CASE UNCHANGED cvars
  BY <1>2, <1>9 DEF cvars, informer
<1>10. ASSUME NEW w \in Workers, Call(w) \/ Fault(w)
       PROVE  Watched /\ cache' = cache /\ queue' = queue /\ delayed' = delayed
  BY <1>10 DEF Call, Fault, queues
<1>11. CASE Edit
  BY <1>1, <1>11 DEF Edit, queues
<1> QED
  BY <1>1, <1>3, <1>4, <1>5, <1>6, <1>7, <1>8, <1>9, <1>10, <1>11 DEF CNext, System

-----------------------------------------------------------------------------
(* What a worker goes by. *)

(* A worker's copy goes out of date only if a request for the key is made. *)
LEMMA NextKeepsSeesLatest ==
  ASSUME OneWorkerPerKey, IInv, IInv', CTypeOK, UpToDate, SeesLatest, [CNext]_cvars,
         LosesNoRequest
  PROVE  SeesLatest'
<1> USE DEF IInv, TypeOK
<1> SUFFICES ASSUME NEW w \in Workers, obj'[w] # None, ppi'[req'[w]] # None, ~Due(req[w])'
             PROVE  /\ SameSpec(obj'[w], ppi'[req'[w]])
                    /\ obj'[w].deleting => ppi'[req'[w]].deleting
  BY DEF SeesLatest, SameSpec
<1>1. CASE obj'[w] = ppi'[req'[w]]
  BY <1>1 DEF SameSpec
<1>2. CASE obj'[w] = obj[w] /\ req'[w] = req[w] /\ obj[w] # None
  <2> DEFINE n == req[w]
  <2>1. pc[w] # "idle" /\ n \in Serves[w] /\ n \in Names
    BY <1>2, ConstantsAssumption DEF Phases
  <2>2. PICK m \in Names : m = n
    BY <2>1
  <2>3. ~Coming(m)' /\ ~Due(m)'
    <3>1. m = req'[w]
      BY <1>2, <2>2
    <3> QED BY <3>1 DEF Due, Coming, Version
  <2>4. ~Requests(ppi[m], ppi'[m])
    BY <2>3, NextKeepsUpToDate
  <2>5. ppi[m] # None /\ SameSpec(ppi[m], ppi'[m])
    BY <1>2, <2>2, <2>4 DEF Requests
  <2>6. \A v \in Workers : ~Start(v, m)
    BY <2>1, <2>2 DEF Start, OneWorkerPerKey
  <2>7. ~Due(m)
    BY <1>2, <2>2, <2>3, <2>6, DueStays
  <2>8. SameSpec(obj[w], ppi[m]) /\ (obj[w].deleting => ppi[m].deleting)
    BY <1>2, <2>2, <2>5, <2>7 DEF SeesLatest
  <2>9. [Next]_vars
    BY ControllerStep DEF Next
  <2>10. ppi[m].deleting => ppi'[m].deleting
    BY <1>2, <2>2, <2>5, <2>9, DeletionStays
  <2> QED BY <1>2, <2>2, <2>5, <2>8, <2>10 DEF SameSpec
<1>3. CASE GetPpi(w)
  <2>1. CASE ppi[req[w]] = None
    BY <1>2, <1>3, <2>1 DEF GetPpi, Phases
  <2>2. CASE ppi[req[w]] # None
    BY <1>1, <1>3, <2>2 DEF GetPpi, cluster
  <2> QED BY <2>1, <2>2
<1>4. ASSUME NEW answered \in BOOLEAN, AddFinalizer(w, answered)
      PROVE  obj'[w] = ppi'[req'[w]]
  <2>1. obj[w] \in PrePullImage /\ req[w] \in Names
    <3>1. pc[w] = "addFinalizer" /\ w \in objCurrent
      BY <1>4 DEF AddFinalizer
    <3> QED BY <3>1, ConstantsAssumption DEF Copies, Phases
  <2>2. WithFinalizer(obj[w]).finalizers # {}
    BY <2>1 DEF WithFinalizer, PrePullImage
  <2>3. Stored(WithFinalizer(obj[w])) = WithFinalizer(obj[w])
    BY <2>2 DEF Stored
  <2> QED BY <1>4, <2>1, <2>3 DEF AddFinalizer, StorePpi
<1>5. CASE Step(w)
  <2>1. ASSUME NEW answered \in BOOLEAN,
               \/ GetDs(w) \/ ListNodesForCreate(w) \/ ListNodes(w) \/ GetDsToRemove(w)
               \/ CreateDs(w, answered)
               \/ PutContainer(w, answered) \/ PutTolerations(w, answered)
               \/ DropOrphans(w, answered) \/ PutWithdrawn(w, answered)
               \/ DeleteDs(w, answered) \/ RemoveFinalizer(w, answered)
               \/ Refused(w) \/ CallFails(w)
        PROVE  obj'[w] = obj[w] /\ req'[w] = req[w]
    BY <2>1 DEF GetDs, ListNodesForCreate, ListNodes, GetDsToRemove, CreateDs, PutContainer,
       PutTolerations, DropOrphans, PutWithdrawn, DeleteDs, RemoveFinalizer, UpdateDs, Refused,
       CallFails
  <2>2. ~Finish(w)
    BY DEF Finish
  <2> QED BY <1>1, <1>2, <1>3, <1>4, <1>5, <2>1, <2>2 DEF Step, Reads, Writes
<1>6. ASSUME NEW v \in Workers, v # w, Step(v) \/ \E n \in Names : Start(v, n)
      PROVE  req'[w] = req[w] /\ obj'[w] = obj[w]
  BY <1>6, OthersRest
<1>7. ASSUME NEW n \in Names, Start(w, n) PROVE FALSE
  BY <1>7 DEF Start, Phases
<1>8. ASSUME Crash PROVE FALSE
  BY <1>8 DEF Crash
<1>9. CASE Environment \/ UNCHANGED vars
  <2>1. UNCHANGED <<req, obj>>
    BY <1>9 DEF Environment, UserCreates, UserEditsImage, UserEditsSelector, UserDeletes,
       ForeignFinalizerRemoved, NodeTainted, locals, vars
  <2> QED BY <1>2, <2>1
<1> QED
  BY <1>2, <1>5, <1>6, <1>7, <1>8, <1>9, ControllerStep

-----------------------------------------------------------------------------
(* Where Reconcile gets to. *)

(* An entry with the image of the spec: the PrePullImage is pulled. *)
LEMMA EntryMeansPulled ==
  ASSUME IInv', NEW w \in Workers, NEW n \in Names, NEW h \in DaemonSet,
         ppi'[n] # None, SameSpec(obj[w], ppi'[n]),
         ds'[Target(w)] = h, n \in DOMAIN h.ann.index, h.ann.index[n] = obj[w].image
  PROVE  Pulled(n)'
<1> DEFINE d == DsName[ppi'[n].selector]
<1>1. d = Target(w) /\ ppi'[n].image = obj[w].image
  BY DEF SameSpec, Target
<1>2. d \in DsNames
  BY ConstantsAssumption DEF IInv, TypeOK, PrePullImage
<1>3. WellFormed(h) /\ h # None
  BY <1>1, <1>2, NoneAssumption DEF IInv, DsWellFormed, WellFormed, Consistent, Accepted
<1>4. obj[w].image \in h.containers
  BY <1>3 DEF WellFormed, IndexedImages
<1> QED BY <1>1, <1>3, <1>4 DEF Pulled

(* A worker that goes by the spec that is stored either has the image put  *)
(* in or goes on towards it.                                               *)
LEMMA StaysAhead ==
  ASSUME IInv, IInv', NEW w \in Workers, NEW n \in Names,
         req[w] = n, pc[w] \in Ahead \ {"failed"}, ppi[n] # None, ~ppi[n].deleting,
         pc[w] \in AfterGetPpi => SameSpec(obj[w], ppi[n]),
         Step(w)
  PROVE  (req'[w] = n /\ pc'[w] \in Ahead) \/ Pulled(n)'
<1> USE DEF IInv, TypeOK, Goto, Ahead
<1>1. pc[w] \in AfterGetPpi =>
        /\ obj[w] \in PrePullImage /\ obj[w].image \in Images /\ Target(w) \in DsNames
  BY ConstantsAssumption DEF Phases, Target, PrePullImage
<1>2. CASE GetPpi(w)
  BY <1>2 DEF GetPpi, AfterGet
<1>3. ASSUME NEW answered \in BOOLEAN, AddFinalizer(w, answered)
      PROVE  req'[w] = n /\ pc'[w] \in Ahead
  BY <1>3 DEF AddFinalizer
<1>4. ASSUME NEW h \in DaemonSet, ppi' = ppi, req' = req, ds'[Target(w)] = h,
             pc[w] \in AfterGetPpi,
             pc'[w] = AfterFetch(h, obj[w], req[w]) \/ pc'[w] = "failed"
      PROVE  (req'[w] = n /\ pc'[w] \in Ahead) \/ Pulled(n)'
  <2>1. CASE pc'[w] \in {"putContainer", "failed"}
    BY <1>4, <2>1
  <2>2. CASE HasImage(h, obj[w].image, n)
    BY <1>4, <2>2, EntryMeansPulled DEF HasImage, HasImageName
  <2> QED BY <1>4, <2>1, <2>2 DEF AfterFetch
<1>5. CASE GetDs(w)
  <2>1. pc[w] \in AfterGetPpi /\ ppi' = ppi /\ req' = req /\ ds' = ds
    BY <1>5 DEF GetDs, cluster, AfterGetPpi, Calls
  <2>2. CASE ds[Target(w)] = None
    BY <1>5, <2>1, <2>2 DEF GetDs
  <2>3. CASE ds[Target(w)] # None
    <3>1. ds[Target(w)] \in DaemonSet /\ pc'[w] = AfterFetch(ds[Target(w)], obj[w], req[w])
      BY <1>1, <1>5, <2>1, <2>3 DEF GetDs
    <3> QED BY <1>4, <2>1, <3>1
  <2> QED BY <2>2, <2>3
<1>6. CASE ListNodesForCreate(w)
  BY <1>6 DEF ListNodesForCreate
<1>7. ASSUME NEW answered \in BOOLEAN, CreateDs(w, answered)
      PROVE  (req'[w] = n /\ pc'[w] \in Ahead) \/ Pulled(n)'
  <2> DEFINE new == NewDaemonSet(obj[w].image, req[w], listed[w])
  <2>1. pc[w] \in AfterGetPpi /\ ppi' = ppi /\ req' = req
        /\ (pc'[w] = AfterFetch(new, obj[w], req[w]) \/ pc'[w] = "failed")
    BY <1>7 DEF CreateDs, AfterGetPpi, Calls
  <2>2. new \in DaemonSet
    BY <1>1, <2>1, NewIsDaemonSet
  <2>3. ds'[Target(w)] = new
    BY <1>1, <1>7, <2>1 DEF CreateDs, StoreDs
  <2> QED BY <1>4, <2>1, <2>2, <2>3
<1>8. ASSUME NEW answered \in BOOLEAN, PutContainer(w, answered)
      PROVE  (req'[w] = n /\ pc'[w] \in Ahead) \/ Pulled(n)'
  <2> DEFINE new == WithImage(held[w], obj[w].image, req[w])
  <2>1. pc[w] = "putContainer" /\ UpdateDs(w, new, "listNodes", answered)
    BY <1>8 DEF PutContainer
  <2>2. pc[w] \in AfterGetPpi /\ held[w] \in DaemonSet /\ WellFormed(held[w]) /\ Accepted(new)
    BY <2>1 DEF UpdateDs, Phases, HeldWellFormed, WithDs, AfterGetPpi, Calls
  <2>3. new \in DaemonSet /\ new.ann.index = Put(held[w].ann.index, n, obj[w].image)
    BY <1>1, <2>2, WithImageIsDaemonSet, WithImageWellFormed
  <2>4. ppi' = ppi /\ ds'[Target(w)] = new
    BY <1>1, <2>1, <2>2 DEF UpdateDs, StoreDs
  <2>5. n \in DOMAIN new.ann.index /\ new.ann.index[n] = obj[w].image
    BY <2>3 DEF Put
  <2> QED BY <2>2, <2>3, <2>4, <2>5, EntryMeansPulled
<1>9. CASE Refused(w) \/ CallFails(w)
  BY <1>9 DEF Refused, CallFails
<1>10. ASSUME NEW answered \in BOOLEAN,
              \/ ListNodes(w) \/ GetDsToRemove(w)
              \/ PutTolerations(w, answered) \/ DropOrphans(w, answered)
              \/ PutWithdrawn(w, answered) \/ DeleteDs(w, answered)
              \/ RemoveFinalizer(w, answered) \/ Finish(w)
       PROVE  FALSE
  BY <1>10 DEF ListNodes, GetDsToRemove, PutTolerations, DropOrphans, PutWithdrawn, DeleteDs,
     RemoveFinalizer, Finish
<1> QED
  BY <1>2, <1>3, <1>5, <1>6, <1>7, <1>8, <1>9, <1>10 DEF Step, Reads, Writes

LEMMA NextKeepsNoneForgotten ==
  ASSUME IInv, IInv', CTypeOK, QInv, [CNext]_cvars, LosesNoRequest
  PROVE  NoneForgotten'
<1> USE DEF IInv, TypeOK, QInv
<1> SUFFICES ASSUME NEW n \in Names, ppi'[n] # None, ~ppi'[n].deleting, ~Due(n)',
                    ~ \E w \in Workers : req'[w] = n /\ pc'[w] \in Ahead
             PROVE  Pulled(n)'
  BY DEF NoneForgotten
<1>1. [Next]_vars
  BY ControllerStep DEF Next
<1>2. ~Requests(ppi[n], ppi'[n])
  BY NextKeepsUpToDate DEF Due
<1>3. ppi[n] # None /\ SameSpec(ppi[n], ppi'[n])
  BY <1>2 DEF Requests
<1>4. ~ppi[n].deleting
  BY <1>1, <1>3, DeletionStays
<1>5. ASSUME NEW w \in Workers, Start(w, n) PROVE FALSE
  BY <1>5 DEF Start, Goto, Ahead
<1>6. ~Due(n)
  BY <1>5, DueStays
<1>7. ASSUME NEW w \in Workers, req[w] = n, pc[w] \in AfterGetPpi
      PROVE  SameSpec(obj[w], ppi[n]) /\ ~obj[w].deleting /\ pc[w] \notin Removing
  <2>1. obj[w] # None
    BY <1>7 DEF Phases
  <2>2. SameSpec(obj[w], ppi[n]) /\ ~obj[w].deleting
    BY <1>3, <1>4, <1>6, <1>7, <2>1 DEF SeesLatest
  <2> QED BY <1>7, <2>2 DEF Sides
<1>8. CASE Pulled(n)
  <2>1. \A w \in Workers : req[w] = n /\ pc[w] \in AfterGetPpi =>
          pc[w] \notin {"putWithdrawn", "deleteDs"} /\ obj[w].image = ppi[n].image
    BY <1>7 DEF SameSpec, Removing
  <2> QED BY <1>1, <1>3, <1>8, <2>1, EntryStays DEF SameSpec, LosesNoRequest
<1>9. ASSUME NEW w \in Workers, req[w] = n, pc[w] \in Ahead PROVE Pulled(n)'
  <2>1. pc'[w] # pc[w] \/ req'[w] # req[w]
    BY <1>9
  <2>2. CASE Step(w) /\ pc[w] # "failed"
    BY <1>3, <1>4, <1>7, <1>9, <2>2, StaysAhead
  <2>3. CASE Done(w) /\ pc[w] = "failed"
    BY <1>9, <2>3 DEF Done, Requeued, Added, Due
  <2>4. ASSUME pc[w] = "failed", Call(w) \/ Fault(w) PROVE FALSE
    BY <2>4 DEF Call, Fault, Reads, Writes, GetPpi, GetDs, ListNodesForCreate, ListNodes,
       GetDsToRemove, AddFinalizer, CreateDs, PutContainer, PutTolerations, DropOrphans,
       PutWithdrawn, DeleteDs, RemoveFinalizer, Refused, CallFails, Calls
  <2>5. Call(w) \/ Fault(w) \/ Done(w) => Step(w)
    BY DEF Call, Fault, Done, Step
  <2>6. ASSUME NEW v \in Workers, v # w, Take(v) \/ Call(v) \/ Fault(v) \/ Done(v) PROVE FALSE
    <3>1. Take(v) => \E m \in Names : Start(v, m)
      BY ConstantsAssumption DEF Take, Start
    <3>2. Call(v) \/ Fault(v) \/ Done(v) => Step(v)
      BY DEF Call, Fault, Done, Step
    <3> QED BY <2>1, <2>6, <3>1, <3>2, OthersRest
  <2>7. ~Take(w)
    BY <1>9 DEF Take, Start, Ahead
  <2>8. UNCHANGED vars \/ Edit => UNCHANGED <<pc, req>>
    BY DEF Edit, Environment, UserCreates, UserEditsImage, UserEditsSelector, UserDeletes,
       ForeignFinalizerRemoved, NodeTainted, locals, vars
  <2>9. ASSUME NEW m \in Names, Deliver(m) \/ DelayOver(m) PROVE UNCHANGED vars
    BY <2>9 DEF Deliver, DelayOver
  <2>10. Relist \/ UNCHANGED cvars => UNCHANGED vars
    BY DEF Relist, cvars
  <2>11. CASE Restart
    BY <1>3, <2>11, ListChain DEF Restart, Crash, cluster, vars, Due
  <2> QED
    BY <2>1, <2>2, <2>3, <2>4, <2>5, <2>6, <2>7, <2>8, <2>9, <2>10, <2>11 DEF CNext, System
<1> QED BY <1>3, <1>4, <1>6, <1>8, <1>9 DEF NoneForgotten

LEMMA QInvariance ==
  ASSUME OneWorkerPerKey PROVE CSpec /\ [][LosesNoRequest]_cvars => []QInv
<1>1. CInit => QInv
  <2> SUFFICES ASSUME CInit PROVE QInv
    OBVIOUS
  <2>1. UpToDate
    BY DEF CInit, Init, UpToDate, Version
  <2>2. Sides /\ SeesLatest /\ NoneForgotten
    BY DEF CInit, Init, Sides, SeesLatest, NoneForgotten, AfterGetPpi, Calls
  <2> QED BY <2>1, <2>2 DEF QInv
<1>2. ASSUME IInv, IInv', CTypeOK, QInv, [CNext]_cvars, LosesNoRequest PROVE QInv'
  <2> USE <1>2 DEF QInv
  <2>1. UpToDate'
    BY NextKeepsUpToDate DEF UpToDate
  <2>2. [Next]_vars
    BY ControllerStep DEF Next
  <2>3. Sides'
    BY <2>2, NextKeepsSides
  <2>4. SeesLatest'
    BY NextKeepsSeesLatest
  <2>5. NoneForgotten'
    BY NextKeepsNoneForgotten
  <2> QED BY <2>1, <2>3, <2>4, <2>5
<1>3. ASSUME QInv, UNCHANGED cvars PROVE QInv'
  BY <1>3 DEF QInv, UpToDate, Sides, SeesLatest, NoneForgotten, Version, Due, Coming, Pulled, cvars, vars
<1>4. IInv /\ IInv' /\ CTypeOK /\ QInv /\ [CNext]_cvars /\ [LosesNoRequest]_cvars => QInv'
  BY <1>2, <1>3
<1> QED BY <1>1, <1>4, CInvariance, PTL DEF CSpec

LEMMA QuietPulls == QInv => QuietMeansPulled
<1> SUFFICES ASSUME QInv, Quiet, NEW n \in Names, ppi[n] # None, ~ppi[n].deleting
             PROVE  Pulled(n)
  BY DEF QuietMeansPulled
<1>1. ~Due(n)
  BY DEF Quiet, Due, Coming
<1> QED BY <1>1 DEF QInv, NoneForgotten, Quiet, Ahead

(* If each key goes to one worker, a PrePullImage is left behind only if a *)
(* worker deletes a DaemonSet that another one has just put an entry in,   *)
(* or if the watch breaks and the list hides a version from the handlers.  *)
(* Nothing else loses a request: not an edit while its key is worked on,   *)
(* not a stale copy, a failed call, a lost reply or a restart.             *)
THEOREM RequestsLostInTwoWaysOnly ==
  ASSUME OneWorkerPerKey
  PROVE  CSpec /\ [][LosesNoRequest]_cvars => []QuietMeansPulled
BY QInvariance, QuietPulls, PTL

(* A controller with one worker whose watch does not break loses none.     *)
THEOREM LoneWorkerLosesNoRequest ==
  ASSUME Alone, ~WatchBreaks
  PROVE  CSpec => []QuietMeansPulled
<1>1. OneWorkerPerKey
  BY AloneMeansOnePerKey
<1>2. LoneInv => LosesNoRequest
  BY DEF LoneInv, Seen, WithDs, DeletesUnseen, LosesNoRequest, Relist
<1>3. CSpec => []LoneInv
  BY ControllerRunsReconciler, LoneInvariance, PTL
<1>4. CSpec => [][LosesNoRequest]_cvars
  BY <1>2, <1>3, PTL
<1> QED BY <1>1, <1>4, RequestsLostInTwoWaysOnly, PTL

-----------------------------------------------------------------------------
(* Deletions.                                                              *)

(* A worker with the deletion before it takes the finalizer off, goes on   *)
(* towards that, or fails.                                                 *)
LEMMA WithdrawalGoesOn ==
  ASSUME IInv, NEW w \in Workers, NEW n \in Names, req[w] = n,
         pc[w] \in {"getPpi"} \cup Removing, BeingDeleted(n), Step(w)
  PROVE  (req'[w] = n /\ pc'[w] \in {"failed"} \cup Removing) \/ ~BeingDeleted(n)'
<1> USE DEF IInv, TypeOK, Goto, Removing
<1>1. CASE GetPpi(w)
  BY <1>1 DEF GetPpi, AfterGet, HasFinalizer, BeingDeleted
<1>2. CASE GetDsToRemove(w)
  BY <1>2 DEF GetDsToRemove
<1>3. ASSUME NEW answered \in BOOLEAN, PutWithdrawn(w, answered) \/ DeleteDs(w, answered)
      PROVE  req'[w] = n /\ pc'[w] \in {"failed", "removeFinalizer"}
  BY <1>3 DEF PutWithdrawn, DeleteDs, UpdateDs
<1>4. ASSUME NEW answered \in BOOLEAN, RemoveFinalizer(w, answered)
      PROVE  ~BeingDeleted(n)'
  <2>1. ppi'[n] = Stored(WithoutFinalizer(obj[w]))
    BY <1>4 DEF RemoveFinalizer, StorePpi
  <2>2. FinalizerName \notin WithoutFinalizer(obj[w]).finalizers
    BY <1>4 DEF RemoveFinalizer, WithoutFinalizer, Phases, PrePullImage, AfterGetPpi, Calls
  <2> QED BY <2>1, <2>2 DEF BeingDeleted, Stored
<1>5. CASE Refused(w) \/ CallFails(w)
  BY <1>5 DEF Refused, CallFails
<1>6. ASSUME NEW answered \in BOOLEAN,
             \/ GetDs(w) \/ ListNodesForCreate(w) \/ ListNodes(w) \/ AddFinalizer(w, answered)
             \/ CreateDs(w, answered) \/ PutContainer(w, answered)
             \/ PutTolerations(w, answered) \/ DropOrphans(w, answered) \/ Finish(w)
      PROVE  FALSE
  BY <1>6 DEF GetDs, ListNodesForCreate, ListNodes, AddFinalizer, CreateDs, PutContainer,
     PutTolerations, DropOrphans, Finish
<1> QED BY <1>1, <1>2, <1>3, <1>4, <1>5, <1>6 DEF Step, Reads, Writes

(* A deletion that is taken up stays so until the finalizer is off: the    *)
(* part of QueuedDeletionCompletes that is no liveness, and for any number *)
(* of workers, whichever of them may take which key.                       *)
THEOREM DeletionsAreKept == CSpec => DeletionKept
<1>1. ASSUME IInv, CTypeOK, [CNext]_cvars, NEW n \in Names, BeingDeleted(n), TakenUp(n),
             BeingDeleted(n)'
      PROVE  TakenUp(n)'
  <2> USE DEF TakenUp
  <2>1. CASE UNCHANGED <<pc, req>> /\ cache'[n] = cache[n] /\ queue \cup delayed \subseteq queue' \cup delayed'
    BY <1>1, <2>1
  <2>2. ASSUME NEW m \in Names, Deliver(m) PROVE TakenUp(n)'
    <3>1. UNCHANGED <<pc, req, delayed>> /\ queue \subseteq queue'
      BY <2>2 DEF Deliver, Added, vars
    <3>2. CASE cache'[n] = cache[n]
      BY <1>1, <3>1, <3>2
    <3>3. CASE m = n /\ cache[n] = None /\ cache'[n] # None
      <4>1. cache'[n] = Head(pending[n])
        BY <1>1, <2>2, <3>3 DEF Deliver, CTypeOK
      <4>2. n \in queue'
        BY <1>1, <2>2, <3>3, <4>1 DEF Deliver, Requests, Added
      <4> QED BY <4>2
    <3>4. CASE cache[n] # None
      BY <1>1, <3>1, <3>4
    <3> QED BY <1>1, <2>2, <3>2, <3>3, <3>4 DEF Deliver, CTypeOK
  <2>3. ASSUME NEW w \in Workers, Take(w) PROVE TakenUp(n)'
    <3>1. PICK m \in queue : Start(w, m) /\ queue' = queue \ {m}
      BY <2>3 DEF Take
    <3>2. /\ req'[w] = m /\ pc'[w] = "getPpi" /\ pc[w] = "idle"
          /\ \A v \in Workers \ {w} : pc'[v] = pc[v] /\ req'[v] = req[v]
      BY <1>1, <3>1 DEF Start, Goto, IInv, TypeOK
    <3>3. UNCHANGED <<cache, delayed>>
      BY <2>3 DEF Take, informer
    <3> QED BY <1>1, <3>1, <3>2, <3>3 DEF Removing
  <2>4. ASSUME NEW w \in Workers, Call(w) \/ Fault(w) \/ Done(w) PROVE TakenUp(n)'
    <3>1. Step(w)
      BY <2>4 DEF Call, Fault, Done, Step
    <3>2. ASSUME NEW v \in Workers, v # w PROVE pc'[v] = pc[v] /\ req'[v] = req[v]
      BY <1>1, <3>1, <3>2, OthersRest DEF IInv
    <3>3. cache' = cache /\ queue' = queue /\ delayed \subseteq delayed'
      BY <2>4 DEF Call, Fault, Done, Requeued, Added, informer, queues
    <3>4. CASE req[w] = n /\ pc[w] \in {"getPpi"} \cup Removing
      <4>1. req'[w] = n /\ pc'[w] \in {"failed"} \cup Removing
        BY <1>1, <3>1, <3>4, WithdrawalGoesOn
      <4> QED BY <4>1
    <3>5. CASE req[w] = n /\ pc[w] = "failed"
      <4>1. Done(w)
        BY <2>4, <3>5 DEF Call, Fault, Reads, Writes, GetPpi, GetDs, ListNodesForCreate, ListNodes,
           GetDsToRemove, AddFinalizer, CreateDs, PutContainer, PutTolerations, DropOrphans,
           PutWithdrawn, DeleteDs, RemoveFinalizer, Refused, CallFails, Calls
      <4> QED BY <3>5, <4>1 DEF Done, Requeued, Added
    <3> QED BY <1>1, <3>2, <3>3, <3>4, <3>5
  <2>5. ASSUME NEW m \in Names, DelayOver(m) PROVE TakenUp(n)'
    BY <2>1, <2>5 DEF DelayOver, Added, informer, vars
  <2>6. CASE Relist \/ UNCHANGED cvars
    BY <2>1, <2>6 DEF Relist, queues, vars, cvars
  <2>7. CASE Restart
    BY <2>7 DEF Restart
  <2>8. CASE Edit
    BY <2>1, <2>8 DEF Edit, queues, Environment, UserCreates, UserEditsImage, UserEditsSelector,
       UserDeletes, ForeignFinalizerRemoved, NodeTainted, locals
  <2> QED
    BY <1>1, <2>2, <2>3, <2>4, <2>5, <2>6, <2>7, <2>8 DEF CNext, System
<1>2. IInv /\ CTypeOK /\ [CNext]_cvars =>
        [\A n \in Names : BeingDeleted(n) /\ TakenUp(n) => (~BeingDeleted(n) \/ TakenUp(n))']_cvars
  BY <1>1
<1> QED BY <1>2, CInvariance, PTL DEF CSpec, DeletionKept
=============================================================================

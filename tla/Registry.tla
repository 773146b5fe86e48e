------------------------------ MODULE Registry ------------------------------
(***************************************************************************)
(* What Reconcile promises, without calls, copies and versions: a          *)
(* PrePullImage is protected by a finalizer, registered with an image in   *)
(* the DaemonSet of its nodeSelector, withdrawn once it is being deleted,  *)
(* and released when no DaemonSet lists it.  Each step concerns one        *)
(* PrePullImage, and a DaemonSet goes only when it lists nobody else.      *)
(***************************************************************************)
CONSTANTS
  Names, Images, Selectors, Foreign, FinalizerName, DsNames, DsName, None

VARIABLES
  ppi,      \* [Names -> PrePullImage or None]
  listing   \* [DsNames -> None or a function from some Names to Images]

rvars == <<ppi, listing>>

PrePullImage ==
  [image : Images, selector : Selectors, deleting : BOOLEAN,
   finalizers : SUBSET (Foreign \cup {FinalizerName})]

RInit ==
  /\ ppi = [n \in Names |-> None]
  /\ listing = [d \in DsNames |-> None]

Protected(n) == ppi[n] # None /\ FinalizerName \in ppi[n].finalizers
Listed(d, n) == listing[d] # None /\ n \in DOMAIN listing[d]

(* An object that is being deleted goes with its last finalizer. *)
Store(n, o) ==
  ppi' = [ppi EXCEPT ![n] = IF o.deleting /\ o.finalizers = {} THEN None ELSE o]

(* Users create, edit and delete; they leave the finalizer alone, and the  *)
(* nodeSelector.                                                           *)
UserCreates(n) ==
  /\ ppi[n] = None
  /\ \E o \in PrePullImage :
       ~o.deleting /\ FinalizerName \notin o.finalizers /\ Store(n, o)
  /\ UNCHANGED listing

UserChanges(n) ==
  /\ ppi[n] # None
  /\ \E o \in PrePullImage :
       /\ o.selector = ppi[n].selector
       /\ ppi[n].deleting => o.deleting
       /\ FinalizerName \in o.finalizers <=> FinalizerName \in ppi[n].finalizers
       /\ Store(n, o)
  /\ UNCHANGED listing

Protect(n) ==
  /\ ppi[n] # None /\ ~ppi[n].deleting
  /\ Store(n, [ppi[n] EXCEPT !.finalizers = @ \cup {FinalizerName}])
  /\ UNCHANGED listing

(* The image is one that the spec has or had. *)
Register(d, n) ==
  /\ Protected(n) /\ DsName[ppi[n].selector] = d
  /\ \E i \in Images :
       listing' = [listing EXCEPT ![d] =
         IF @ = None THEN [m \in {n} |-> i]
         ELSE [m \in DOMAIN @ \cup {n} |-> IF m = n THEN i ELSE @[m]]]
  /\ UNCHANGED ppi

(* The entry goes, or the whole DaemonSet if it lists nobody else. *)
Withdraw(d, n) ==
  /\ Protected(n) /\ ppi[n].deleting /\ listing[d] # None
  /\ \/ listing' = [listing EXCEPT ![d] = [m \in DOMAIN @ \ {n} |-> @[m]]]
     \/ DOMAIN listing[d] \subseteq {n} /\ listing' = [listing EXCEPT ![d] = None]
  /\ UNCHANGED ppi

Release(n) ==
  /\ Protected(n) /\ ppi[n].deleting
  /\ \A d \in DsNames : ~Listed(d, n)
  /\ Store(n, [ppi[n] EXCEPT !.finalizers = @ \ {FinalizerName}])
  /\ UNCHANGED listing

RNext ==
  \E n \in Names :
    \/ UserCreates(n) \/ UserChanges(n) \/ Protect(n) \/ Release(n)
    \/ \E d \in DsNames : Register(d, n) \/ Withdraw(d, n)

RSpec == RInit /\ [][RNext]_rvars
=============================================================================

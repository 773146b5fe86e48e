-------------------------- MODULE ImageIndexProofs --------------------------
(***************************************************************************)
(* What the operators of ImageIndex keep: the types of a lookup, and the   *)
(* agreement of its two maps.                                              *)
(***************************************************************************)
EXTENDS ImageIndex, TLAPS

(* The Go maps from keys of K to values of V. *)
Maps(K, V) == UNION {[S -> V] : S \in SUBSET K}

(* Assignment to a key of a map gives a map that differs at that key. *)
LEMMA PutIsMap ==
  ASSUME NEW K, NEW V, NEW m \in Maps(K, V), NEW k \in K, NEW v \in V
  PROVE  Put(m, k, v) \in Maps(K, V)
<1>1. PICK S \in SUBSET K : m \in [S -> V]
  BY DEF Maps
<1>2. DOMAIN m = S
  BY <1>1
<1>3. Put(m, k, v) \in [S \cup {k} -> V]
  BY <1>1, <1>2 DEF Put
<1>4. S \cup {k} \in SUBSET K
  OBVIOUS
<1> QED
  BY <1>3, <1>4 DEF Maps

(* Deletion of a key of a map gives a map. *)
LEMMA WithoutIsMap ==
  ASSUME NEW K, NEW V, NEW m \in Maps(K, V), NEW k
  PROVE  Without(m, k) \in Maps(K, V)
<1>1. PICK S \in SUBSET K : m \in [S -> V]
  BY DEF Maps
<1>2. Without(m, k) \in [S \ {k} -> V]
  BY <1>1 DEF Without, Restrict
<1>3. S \ {k} \in SUBSET K
  OBVIOUS
<1> QED
  BY <1>2, <1>3 DEF Maps

(* What a lookup reads under an image is a set of names. *)
LEMMA ListedIsSet ==
  ASSUME NEW Ns, NEW Is, NEW inv \in Maps(Is, SUBSET Ns), NEW i
  PROVE  ListedUnder(inv, i) \in SUBSET Ns
BY DEF Maps, ListedUnder

LEMMA DelistIsMap ==
  ASSUME NEW Ns, NEW Is, NEW inv \in Maps(Is, SUBSET Ns), NEW i \in Is, NEW n
  PROVE  Delist(inv, i, n) \in Maps(Is, SUBSET Ns)
<1>1. ListedUnder(inv, i) \ {n} \in SUBSET Ns
  BY ListedIsSet
<1>2. Without(inv, i) \in Maps(Is, SUBSET Ns)
  BY WithoutIsMap
<1>3. Put(inv, i, ListedUnder(inv, i) \ {n}) \in Maps(Is, SUBSET Ns)
  BY <1>1, PutIsMap
<1> QED
  BY <1>2, <1>3 DEF Delist

LEMMA LookupsAreMaps ==
  ASSUME NEW Ns, NEW Is
  PROVE  Lookups(Ns, Is) = [index : Maps(Ns, Is), inv : Maps(Is, SUBSET Ns)]
BY DEF Lookups, Maps

(* An index maps each of its names to an image. *)
LEMMA IndexedIsImage ==
  ASSUME NEW Ns, NEW Is, NEW l \in Lookups(Ns, Is), NEW n \in DOMAIN l.index
  PROVE  l.index[n] \in Is /\ n \in Ns
<1>1. l.index \in Maps(Ns, Is)
  BY LookupsAreMaps
<1> QED
  BY <1>1 DEF Maps

(* AddImageNameToAnnotation writes a lookup. *)
LEMMA AddIsLookup ==
  ASSUME NEW Ns, NEW Is, NEW l \in Lookups(Ns, Is), NEW i \in Is, NEW n \in Ns
  PROVE  AddImageName(l, i, n) \in Lookups(Ns, Is)
<1> DEFINE inv == IF n \in DOMAIN l.index THEN Delist(l.inv, l.index[n], n) ELSE l.inv
<1>1. l.index \in Maps(Ns, Is) /\ l.inv \in Maps(Is, SUBSET Ns)
  BY LookupsAreMaps
<1>2. inv \in Maps(Is, SUBSET Ns)
  BY <1>1, DelistIsMap, IndexedIsImage
<1>3. ListedUnder(inv, i) \cup {n} \in SUBSET Ns
  BY <1>2, ListedIsSet
<1>4. Put(inv, i, ListedUnder(inv, i) \cup {n}) \in Maps(Is, SUBSET Ns)
  BY <1>2, <1>3, PutIsMap
<1>5. Put(l.index, n, i) \in Maps(Ns, Is)
  BY <1>1, PutIsMap
<1> QED
  BY <1>4, <1>5, LookupsAreMaps DEF AddImageName

(* RemoveImageNameFromAnnotation writes a lookup. *)
LEMMA RemoveIsLookup ==
  ASSUME NEW Ns, NEW Is, NEW l \in Lookups(Ns, Is), NEW i \in Is, NEW n \in Ns
  PROVE  RemoveImageName(l, i, n) \in Lookups(Ns, Is)
<1>1. l.index \in Maps(Ns, Is) /\ l.inv \in Maps(Is, SUBSET Ns)
  BY LookupsAreMaps
<1>2. CASE n \notin DOMAIN l.index
  BY <1>2 DEF RemoveImageName
<1>3. CASE n \in DOMAIN l.index
  <2>1. l.index[n] \in Is
    BY <1>3, IndexedIsImage
  <2>2. Delist(l.inv, i, n) \in Maps(Is, SUBSET Ns)
    BY <1>1, DelistIsMap
  <2>3. Delist(Delist(l.inv, i, n), l.index[n], n) \in Maps(Is, SUBSET Ns)
    BY <2>1, <2>2, DelistIsMap
  <2>4. Without(l.index, n) \in Maps(Ns, Is)
    BY <1>1, WithoutIsMap
  <2> QED
    BY <1>3, <2>3, <2>4, LookupsAreMaps DEF RemoveImageName
<1> QED
  BY <1>2, <1>3

(* A new DaemonSet's lookup. *)
LEMMA SingleIsLookup ==
  ASSUME NEW Ns, NEW Is, NEW i \in Is, NEW n \in Ns
  PROVE  /\ SingleImageName(i, n) \in Lookups(Ns, Is)
         /\ Consistent(SingleImageName(i, n))
<1> DEFINE l == SingleImageName(i, n)
<1>1. l.index \in [{n} -> Is] /\ l.inv \in [{i} -> SUBSET Ns]
  BY DEF SingleImageName
<1>2. l.index \in Maps(Ns, Is) /\ l.inv \in Maps(Is, SUBSET Ns)
  BY <1>1 DEF Maps
<1>3. l \in Lookups(Ns, Is)
  BY <1>2, LookupsAreMaps DEF SingleImageName
<1>4. IndexedImages(l.index) = {i}
  BY DEF IndexedImages, SingleImageName
<1>5. Inverted(l.index) = [x \in {i} |-> {n}]
  BY <1>4 DEF Inverted, SingleImageName
<1> QED
  BY <1>3, <1>5 DEF Consistent, SingleImageName

-----------------------------------------------------------------------------
(* Agreement of the two maps.                                              *)

(* The list under an image, read from the inverse of an index. *)
LEMMA ListedUnderInverted ==
  ASSUME NEW index, NEW i
  PROVE  ListedUnder(Inverted(index), i) = {n \in DOMAIN index : index[n] = i}
BY DEF ListedUnder, Inverted, IndexedImages

(* Delisting a name where it is not listed changes nothing: the inverse of *)
(* an index has no empty lists.                                            *)
LEMMA DelistAbsent ==
  ASSUME NEW index, NEW i, NEW n,
         ~(n \in DOMAIN index /\ index[n] = i)
  PROVE  Delist(Inverted(index), i, n) = Inverted(index)
<1> DEFINE inv == Inverted(index)
           listed == {m \in DOMAIN index : index[m] = i}
<1>1. ListedUnder(inv, i) \ {n} = listed
  BY ListedUnderInverted
<1>2. CASE i \in IndexedImages(index)
  <2>1. listed # {} /\ i \in DOMAIN inv /\ inv[i] = listed
    BY <1>2 DEF IndexedImages, Inverted
  <2>2. Put(inv, i, listed) = inv
    <3>1. DOMAIN inv \cup {i} = DOMAIN inv
      BY <2>1
    <3>2. inv = [x \in DOMAIN inv |-> inv[x]]
      BY DEF Inverted
    <3> QED
      BY <2>1, <3>1, <3>2 DEF Put
  <2> QED
    BY <1>1, <2>1, <2>2 DEF Delist
<1>3. CASE i \notin IndexedImages(index)
  <2>1. listed = {} /\ i \notin DOMAIN inv
    BY <1>3 DEF IndexedImages, Inverted
  <2>2. Without(inv, i) = inv
    <3>1. DOMAIN inv \ {i} = DOMAIN inv
      BY <2>1
    <3>2. inv = [x \in DOMAIN inv |-> inv[x]]
      BY DEF Inverted
    <3> QED
      BY <3>1, <3>2 DEF Without, Restrict
  <2> QED
    BY <1>1, <2>1, <2>2 DEF Delist
<1> QED
  BY <1>2, <1>3

(* Delisting a name from its image leaves the inverse of the index without *)
(* the name.                                                               *)
LEMMA DelistInverted ==
  ASSUME NEW index, NEW n \in DOMAIN index
  PROVE  Delist(Inverted(index), index[n], n) = Inverted(Without(index, n))
<1> DEFINE i == index[n]
           inv == Inverted(index)
           less == Without(index, n)
           rest == {m \in DOMAIN index : index[m] = i} \ {n}
<1>1. ListedUnder(inv, i) \ {n} = rest
  BY ListedUnderInverted
<1>2. DOMAIN less = DOMAIN index \ {n} /\ \A m \in DOMAIN less : less[m] = index[m]
  BY DEF Without, Restrict
<1>3. i \in DOMAIN inv /\ DOMAIN inv = IndexedImages(index)
  BY DEF Inverted, IndexedImages
<1>4. \A x \in IndexedImages(less) :
        /\ x \in DOMAIN inv
        /\ {m \in DOMAIN less : less[m] = x} = IF x = i THEN rest ELSE inv[x]
  BY <1>2 DEF Inverted, IndexedImages
<1>5. CASE rest = {}
  <2>1. IndexedImages(less) = IndexedImages(index) \ {i}
    BY <1>2, <1>5 DEF IndexedImages
  <2>2. Delist(inv, i, n) = Without(inv, i)
    BY <1>1, <1>5 DEF Delist
  <2>3. Without(inv, i) = [x \in IndexedImages(less) |-> inv[x]]
    BY <1>3, <2>1 DEF Without, Restrict
  <2>4. Inverted(less) = [x \in IndexedImages(less) |-> inv[x]]
    BY <1>4, <2>1 DEF Inverted
  <2> QED
    BY <2>2, <2>3, <2>4
<1>6. CASE rest # {}
  <2>1. IndexedImages(less) = IndexedImages(index)
    BY <1>2, <1>6 DEF IndexedImages
  <2>2. Delist(inv, i, n) = Put(inv, i, rest)
    BY <1>1, <1>6 DEF Delist
  <2>3. Put(inv, i, rest) = [x \in IndexedImages(less) |-> IF x = i THEN rest ELSE inv[x]]
    <3>1. DOMAIN inv \cup {i} = IndexedImages(less)
      BY <1>3, <2>1
    <3> QED
      BY <3>1 DEF Put
  <2>4. Inverted(less) = [x \in IndexedImages(less) |-> IF x = i THEN rest ELSE inv[x]]
    BY <1>4 DEF Inverted
  <2> QED
    BY <2>2, <2>3, <2>4
<1> QED
  BY <1>5, <1>6

(* Listing a new name under an image gives the inverse of the index with   *)
(* the name.                                                               *)
LEMMA EnlistInverted ==
  ASSUME NEW index, NEW i, NEW n, n \notin DOMAIN index
  PROVE  Put(Inverted(index), i, ListedUnder(Inverted(index), i) \cup {n})
           = Inverted(Put(index, n, i))
<1> DEFINE inv == Inverted(index)
           more == Put(index, n, i)
           lst == {m \in DOMAIN index : index[m] = i} \cup {n}
<1>1. ListedUnder(inv, i) \cup {n} = lst
  BY ListedUnderInverted
<1>2. /\ DOMAIN more = DOMAIN index \cup {n}
      /\ more[n] = i
      /\ \A m \in DOMAIN index : more[m] = index[m]
  BY DEF Put
<1>3. IndexedImages(more) = IndexedImages(index) \cup {i}
  BY <1>2 DEF IndexedImages
<1>4. DOMAIN inv = IndexedImages(index)
  BY DEF Inverted
<1>5. Put(inv, i, lst) = [x \in IndexedImages(more) |-> IF x = i THEN lst ELSE inv[x]]
  BY <1>3, <1>4 DEF Put
<1>6. \A x \in IndexedImages(more) :
        {m \in DOMAIN more : more[m] = x} = IF x = i THEN lst ELSE inv[x]
  BY <1>2, <1>3 DEF Inverted, IndexedImages
<1>7. Inverted(more) = [x \in IndexedImages(more) |-> IF x = i THEN lst ELSE inv[x]]
  BY <1>6 DEF Inverted
<1> QED
  BY <1>1, <1>5, <1>7

(* AddImageNameToAnnotation points the name to the image, and keeps the    *)
(* two maps in agreement.                                                  *)
LEMMA AddKeepsConsistent ==
  ASSUME NEW l, Consistent(l), NEW i, NEW n
  PROVE  /\ Consistent(AddImageName(l, i, n))
         /\ AddImageName(l, i, n).index = IF HasImageName(l, i, n) THEN l.index
                                          ELSE Put(l.index, n, i)
<1>1. CASE HasImageName(l, i, n)
  BY <1>1 DEF AddImageName
<1>2. CASE ~HasImageName(l, i, n) /\ n \notin DOMAIN l.index
  BY <1>2, EnlistInverted DEF AddImageName, Consistent
<1>3. CASE ~HasImageName(l, i, n) /\ n \in DOMAIN l.index
  <2> DEFINE less == Without(l.index, n)
  <2>1. Delist(l.inv, l.index[n], n) = Inverted(less)
    BY <1>3, DelistInverted DEF Consistent
  <2>2. n \notin DOMAIN less
    BY DEF Without, Restrict
  <2>3. Put(less, n, i) = Put(l.index, n, i)
    BY <1>3 DEF Put, Without, Restrict
  <2>4. Put(Inverted(less), i, ListedUnder(Inverted(less), i) \cup {n})
          = Inverted(Put(l.index, n, i))
    BY <2>2, <2>3, EnlistInverted
  <2> QED
    BY <1>3, <2>1, <2>4 DEF AddImageName, Consistent
<1> QED
  BY <1>1, <1>2, <1>3

(* RemoveImageNameFromAnnotation takes the name out of the index, whatever *)
(* image it is told, and keeps the two maps in agreement.                  *)
LEMMA RemoveKeepsConsistent ==
  ASSUME NEW l, Consistent(l), NEW i, NEW n
  PROVE  /\ Consistent(RemoveImageName(l, i, n))
         /\ RemoveImageName(l, i, n).index = IF n \in DOMAIN l.index
                                             THEN Without(l.index, n) ELSE l.index
<1>1. CASE n \notin DOMAIN l.index
  BY <1>1 DEF RemoveImageName
<1>2. CASE n \in DOMAIN l.index
  <2> DEFINE less == Without(l.index, n)
  <2>1. Delist(l.inv, l.index[n], n) = Inverted(less)
    BY <1>2, DelistInverted DEF Consistent
  <2>2. Delist(Delist(l.inv, i, n), l.index[n], n) = Inverted(less)
    <3>1. CASE l.index[n] = i
      <4>1. n \notin DOMAIN less
        BY DEF Without, Restrict
      <4> QED
        BY <2>1, <3>1, <4>1, DelistAbsent
    <3>2. CASE l.index[n] # i
      BY <2>1, <3>2, DelistAbsent DEF Consistent
    <3> QED
      BY <3>1, <3>2
  <2> QED
    BY <1>2, <2>2 DEF RemoveImageName, Consistent
<1> QED
  BY <1>1, <1>2
=============================================================================

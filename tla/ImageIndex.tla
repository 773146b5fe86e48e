----------------------------- MODULE ImageIndex -----------------------------
(***************************************************************************)
(* The bookkeeping that internal/controller/annotations.go keeps in the    *)
(* "cdayz.k8s.extensions/image-names" annotation of a DaemonSet: a lookup  *)
(* with two maps,                                                          *)
(*                                                                         *)
(*    index : PrePullImage name -> image                                   *)
(*    inv   : image -> the names of the PrePullImages that want it.        *)
(*                                                                         *)
(* A Go map is a function whose DOMAIN is the set of keys present.  A list *)
(* of names is a set: the code never looks at the order, and DeleteFunc    *)
(* takes every copy of a name away.  JSON marshalling and unmarshalling of *)
(* these two maps loses nothing, so the annotation is the lookup itself.   *)
(***************************************************************************)
EXTENDS Functions

(* m[k] = v, in Go. *)
Put(m, k, v) == [x \in DOMAIN m \cup {k} |-> IF x = k THEN v ELSE m[x]]

(* delete(m, k), in Go. *)
Without(m, k) == Restrict(m, DOMAIN m \ {k})

(* inv[image] read from a Go map: a missing key reads as the nil list. *)
ListedUnder(inv, image) == IF image \in DOMAIN inv THEN inv[image] ELSE {}

(* inv[image] = DeleteFunc(inv[image], name); the key goes with its last name. *)
Delist(inv, image, name) ==
  LET rest == ListedUnder(inv, image) \ {name}
  IN  IF rest = {} THEN Without(inv, image) ELSE Put(inv, image, rest)

(* The test under which AddImageNameToAnnotation reports "nothing added". *)
HasImageName(lookup, image, name) ==
  /\ name \in DOMAIN lookup.index
  /\ lookup.index[name] = image
  /\ name \in ListedUnder(lookup.inv, image)

(* Mutant: the empty list that delisting from inv[""] makes stays there.   *)
AddKeepsEmptyKey(lookup, image, name) ==
  IF HasImageName(lookup, image, name) THEN lookup
  ELSE LET inv == IF name \in DOMAIN lookup.index
                  THEN Delist(lookup.inv, lookup.index[name], name)
                  ELSE Put(lookup.inv, "", {})
       IN  [index |-> Put(lookup.index, name, image),
            inv   |-> Put(inv, image, ListedUnder(inv, image) \cup {name})]

(* The lookup that AddImageNameToAnnotation writes.  For a name that is not *)
(* in the index the code delists it from inv[""], which no image is: a     *)
(* no-op.                                                                  *)
AddImageName(lookup, image, name) ==
  IF HasImageName(lookup, image, name) THEN lookup
  ELSE LET inv == IF name \in DOMAIN lookup.index
                  THEN Delist(lookup.inv, lookup.index[name], name)
                  ELSE lookup.inv
       IN  [index |-> Put(lookup.index, name, image),
            inv   |-> Put(inv, image, ListedUnder(inv, image) \cup {name})]

(* Mutant: only the image of the PrePullImage's present spec is delisted.  *)
RemoveSpecImageOnly(lookup, image, name) ==
  IF name \notin DOMAIN lookup.index THEN lookup
  ELSE [index |-> Without(lookup.index, name),
        inv   |-> Delist(lookup.inv, image, name)]

(* The lookup that RemoveImageNameFromAnnotation returns and writes.  image *)
(* is what the PrePullImage's spec says now; the index may still say       *)
(* another one, and the name leaves both lists.  The early return also     *)
(* asks whether inv[""] exists, which it never does.                       *)
RemoveImageName(lookup, image, name) ==
  IF name \notin DOMAIN lookup.index THEN lookup
  ELSE [index |-> Without(lookup.index, name),
        inv   |-> Delist(Delist(lookup.inv, image, name), lookup.index[name], name)]

(* The lookup of a DaemonSet created for one PrePullImage. *)
SingleImageName(image, name) ==
  [index |-> [n \in {name} |-> image], inv |-> [i \in {image} |-> {name}]]

-----------------------------------------------------------------------------
(* All lookups over the given names and images. *)
Lookups(names, images) ==
  [index : UNION {[S -> images] : S \in SUBSET names},
   inv   : UNION {[T -> SUBSET names] : T \in SUBSET images}]

(* The images some name points to, and the inverse of an index. *)
IndexedImages(index) == {index[n] : n \in DOMAIN index}
Inverted(index) ==
  [i \in IndexedImages(index) |-> {n \in DOMAIN index : index[n] = i}]

(* The two maps of a lookup agree. *)
Consistent(lookup) == lookup.inv = Inverted(lookup.index)
=============================================================================

------------------------------ MODULE K8SName ------------------------------
(***************************************************************************)
(* internal/names/k8s_name.go: the names of Kubernetes objects.            *)
(*                                                                         *)
(* A string is a sequence of ASCII bytes, and a name one string with the   *)
(* digits of its hash in it.  Of crc32 nothing is assumed but how long it  *)
(* is in decimal: two strings may have one hash.                           *)
(*                                                                         *)
(* A state is a call: of MakeK8SName with rawNames and two options, or of  *)
(* StringMapHash with a map, given by the order in which Go iterates it.   *)
(***************************************************************************)
EXTENDS Integers, SequencesExt

CONSTANTS
  RawNames,    \* the strings that may be passed
  MaxNames,    \* how many of them at most
  MaxLengths,  \* the values of the option MaxLength
  Keys,        \* the keys a map may have, sequences of bytes
  Values,      \* the values it may have, sequences of bytes
  MaxLabels,   \* how many keys at most
  Crc32        \* the checksum of a string, as the digits that %d writes

Chars == 0..127
Upper == 65..90
Lower == 97..122
Digits == 48..57
Dash == 45

hashLength == 10

(* strings.Join *)
Join(strs, sep) ==
  LET join[i \in 0..Len(strs)] ==
        IF i = 0 THEN <<>>
        ELSE join[i - 1] \o (IF i = 1 THEN <<>> ELSE sep) \o strs[i]
  IN  join[Len(strs)]

Lists == UNION {[1..k -> RawNames] : k \in 1..MaxNames}

ASSUME NamesAssumption ==
  /\ RawNames \subseteq Seq(Chars)
  /\ MaxLengths \subseteq Int
  /\ MaxNames \in Nat /\ MaxLabels \in Nat
  /\ Keys \cup Values \subseteq Seq(Nat)

(* A uint32 has one to hashLength decimal digits. *)
ASSUME HashAssumption ==
  \A list \in Lists : LET hash == Crc32[Join(list, <<>>)]
                      IN  hash \in Seq(Digits) /\ Len(hash) \in 1..hashLength

VARIABLES rawNames, maxLength, includeCRC, labels

nvars == <<rawNames, maxLength, includeCRC, labels>>

NInit ==
  /\ rawNames = <<>> /\ labels = <<>>
  /\ maxLength \in MaxLengths
  /\ includeCRC \in BOOLEAN

AddName ==
  /\ labels = <<>> /\ Len(rawNames) < MaxNames
  /\ \E name \in RawNames : rawNames' = Append(rawNames, name)
  /\ UNCHANGED <<maxLength, includeCRC, labels>>

AddLabel ==
  /\ rawNames = <<>> /\ Len(labels) < MaxLabels
  /\ \E k \in Keys, v \in Values :
       /\ \A i \in DOMAIN labels : labels[i].k # k
       /\ labels' = Append(labels, [k |-> k, v |-> v])
  /\ UNCHANGED <<rawNames, maxLength, includeCRC>>

NNext == AddName \/ AddLabel

NSpec == NInit /\ [][NNext]_nvars

-----------------------------------------------------------------------------
(* MakeK8SName *)

Alphanumeric == Lower \cup Digits

ToLower(s) == [i \in DOMAIN s |-> IF s[i] \in Upper THEN s[i] + 32 ELSE s[i]]

CompliantChars == Alphanumeric \cup {Dash}
Compliant(char) == char \in CompliantChars

(* The characters of s that are compliant. *)
Kept(s) == Join([i \in DOMAIN s |-> IF Compliant(s[i]) THEN <<s[i]>> ELSE <<>>], <<>>)

(* Mutant: the expression has its middle part only. *)
CleanedInside(name) == Kept(ToLower(name))

(* removeNotK8SCompliantChars: whatever comes before the first and after   *)
(* the last alphanumeric character goes, and between them all but dashes.  *)
Cleaned(name) ==
  LET s == ToLower(name)
      inside == {i \in DOMAIN s : s[i] \in Alphanumeric}
  IN  IF inside = {} THEN <<>> ELSE Kept(SubSeq(s, Min(inside), Max(inside)))

Names(raw) == [i \in DOMAIN raw |-> Cleaned(raw[i])]

TotalLength(names) == Len(Join(names, <<>>))

(* Mutant: no room for the dashes. *)
RoomWithDashes(max, names) == max - hashLength

(* The room for the names: a hash, and a dash after each of them, go off. *)
ValidLength(max, names) == max - hashLength - Len(names)

Cut(s, n) == SubSeq(s, 1, IF Len(s) > n THEN n ELSE Len(s))

(* reduceNamesLengths; with a negative n the slice expression panics. *)
Share(names, validLength) == validLength \div Len(names)
Reduced(names, validLength) ==
  [i \in DOMAIN names |-> Cut(names[i], Share(names, validLength))]

TooLong(names, max) == TotalLength(names) > ValidLength(max, names)

Panics(raw, max) ==
  LET names == Names(raw)
  IN  raw # <<>> /\ TooLong(names, max) /\ Share(names, ValidLength(max, names)) < 0

(* Mutant: a hash only if a name is cut. *)
HashedIfCut(raw, names, max, crc) == crc \/ TooLong(names, max)

(* A hash is wanted, or a name was changed, or is cut. *)
Hashed(raw, names, max, crc) == crc \/ names # raw \/ TooLong(names, max)

StringHash(str) == Crc32[str]

MakeK8SName(raw, max, crc) ==
  LET names == Names(raw)
      fitted == IF TooLong(names, max) THEN Reduced(names, ValidLength(max, names)) ELSE names
      nameWithoutCRC == Join(fitted, <<Dash>>)
  IN  IF raw = <<>> THEN <<>>
      ELSE IF Hashed(raw, names, max, crc)
      THEN nameWithoutCRC \o <<Dash>> \o StringHash(Join(raw, <<>>))
      ELSE nameWithoutCRC

-----------------------------------------------------------------------------
(* StringMapHash *)

Colon == 58
Semicolon == 59

(* s < t as strings: t is longer, or greater where they first differ. *)
Less(s, t) ==
  \E i \in DOMAIN t :
    /\ \A j \in 1..(i - 1) : j \in DOMAIN s /\ s[j] = t[j]
    /\ i \notin DOMAIN s \/ s[i] < t[i]

(* A stable sort puts pair i before pair j. *)
Before(kvs, i, j) ==
  Less(kvs[i].k, kvs[j].k) \/ (kvs[i].k = kvs[j].k /\ i < j)

(* Mutant: the pairs are written as they come. *)
Unsorted(kvs) == kvs

(* sort.SliceStable by the keys. *)
Sorted(kvs) ==
  LET order == CHOOSE p \in Bijection(DOMAIN kvs, DOMAIN kvs) :
                 \A i, j \in DOMAIN kvs : i < j => Before(kvs, p[i], p[j])
  IN  [i \in DOMAIN kvs |-> kvs[order[i]]]

Written(pair) == pair.k \o <<Colon>> \o pair.v \o <<Semicolon>>

(* What the hash is made of. *)
StringMap(kvs) ==
  LET sorted == Sorted(kvs)
  IN  Join([i \in DOMAIN sorted |-> Written(sorted[i])], <<>>)

-----------------------------------------------------------------------------
Name == MakeK8SName(rawNames, maxLength, includeCRC)

(* For every MaxLength that leaves room for the hash and the dashes there  *)
(* is no panic and the name fits, however long the names are, however many *)
(* characters go and whether or not a hash was asked for (the numbers of   *)
(* k8s_name.go:60-90).                                                     *)
FitsMaxLength ==
  rawNames # <<>> /\ maxLength >= hashLength + Len(rawNames) =>
    ~Panics(rawNames, maxLength) /\ Len(Name) <= maxLength

(* Nothing but alphanumeric characters and dashes; the name begins with an *)
(* alphanumeric character if something is left of the first of the names,  *)
(* and ends with one unless the last of them is empty to begin with and no *)
(* hash follows (k8s_name.go:76).                                          *)
CompliantName ==
  LET name == Name
  IN  rawNames # <<>> /\ maxLength >= hashLength + 2 * Len(rawNames) =>
        /\ \A i \in DOMAIN name : Compliant(name[i])
        /\ Names(rawNames)[1] # <<>> => name[1] \in Alphanumeric
        /\ rawNames[Len(rawNames)] # <<>> \/ includeCRC => name[Len(name)] \in Alphanumeric

(* "first and last symbols should be alphanumeric" (k8s_name.go:76) of the *)
(* whole name: false if nothing is left of the first of the names.         *)
BeginsAlphanumeric ==
  rawNames # <<>> /\ (\A i \in DOMAIN rawNames : rawNames[i] # <<>>) =>
    Name # <<>> /\ Name[1] \in Alphanumeric

(* Nothing of the names is changed or cut, and no hash was asked for. *)
Intact(raw) == ~includeCRC /\ Names(raw) = raw /\ ~TooLong(raw, maxLength)

SameHash(raw, other) == StringHash(Join(raw, <<>>)) = StringHash(Join(other, <<>>))

(* The names of raw, as they are, spell a hash of other after a dash. *)
Spells(raw, other) ==
  /\ Intact(raw)
  /\ IsSuffix(<<Dash>> \o StringHash(Join(other, <<>>)), Join(raw, <<Dash>>))

(* What is changed or cut off shows in the hash ("If name was changed, we  *)
(* should include crc hashsum", k8s_name.go:53): two lists get one name    *)
(* only if they have one hash, if both are intact, or if the one is intact *)
(* and spells the hash of the other.  So two lists for which a hash was    *)
(* asked, as for every DaemonSet (prepullimage_reconciller.go:409), share  *)
(* a name only if crc32 collides, cut off or not: where the name ends and  *)
(* the hash begins can be told, wherever there are dashes and digits.      *)
ChangesShow ==
  LET name == Name
  IN  rawNames # <<>> /\ ~Panics(rawNames, maxLength) =>
        \A other \in Lists :
          MakeK8SName(other, maxLength, includeCRC) = name /\ ~Panics(other, maxLength) =>
            \/ SameHash(rawNames, other)
            \/ Intact(rawNames) /\ Intact(other)
            \/ Spells(rawNames, other)
            \/ Spells(other, rawNames)

(* "we should include crc hashsum" (k8s_name.go:53), taken to tell changed *)
(* names from all others: false, for an intact name may spell a hash.      *)
ChangedNamesDiffer ==
  LET name == Name
  IN  rawNames # <<>> /\ ~Panics(rawNames, maxLength) =>
        \A other \in Lists :
          MakeK8SName(other, maxLength, includeCRC) = name /\ ~Panics(other, maxLength) =>
            SameHash(rawNames, other) \/ (Intact(rawNames) /\ Intact(other))

Maps ==
  {kvs \in UNION {[1..k -> [k : Keys, v : Values]] : k \in 0..MaxLabels} :
     \A i, j \in DOMAIN kvs : kvs[i].k = kvs[j].k => i = j}

(* The labels of nodes, whose bytes are neither separator. *)
LabelBytes == Nat \ {Colon, Semicolon}
NoSeparators == Keys \cup Values \subseteq Seq(LabelBytes)

(* A nodeSelector has one hash, in whatever order Go iterates the map, and *)
(* no other nodeSelector has it: so makeDaemonSetName is a function of the *)
(* nodeSelector, as Reconciler takes it to be (DsName), and two of them    *)
(* share a DaemonSet only if crc32 collides.  This holds of nodeSelectors  *)
(* that some node can have, where there are NoSeparators; of any strings,  *)
(* which the CRD lets users write, it does not (k8s_name.go:116).          *)
OneHashPerMap ==
  LET text == StringMap(labels)
  IN  \A other \in Maps : StringMap(other) = text <=> ToSet(other) = ToSet(labels)
=============================================================================

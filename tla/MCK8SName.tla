----------------------------- MODULE MCK8SName -----------------------------
(***************************************************************************)
(* Instances of K8SName for TLC.                                           *)
(***************************************************************************)
EXTENDS K8SName

(* A stand-in for crc32 with few collisions, of ten digits for every other *)
(* string and of up to five for the rest.                                  *)
RECURSIVE Decimal(_)
Decimal(n) == (IF n < 10 THEN <<>> ELSE Decimal(n \div 10)) \o <<48 + (n % 10)>>

Checksum(s) ==
  LET sum == FoldLeft(LAMBDA acc, char : (31 * acc + char) % 99991, 7, s)
  IN  Decimal(IF sum % 2 = 0 THEN sum ELSE 2000000000 + sum)

(* Nothing, a, aa and a-0, which are compliant; -, A, a-, _a, a_a and _a-, *)
(* with something to clean before, within or after; and a string that is   *)
(* spelled like the name made of A, with its hash.                         *)
SomeNames ==
  {<<>>, <<97>>, <<97, 97>>, <<97, Dash, 48>>,
   <<Dash>>, <<65>>, <<97, Dash>>, <<95, 97>>, <<97, 95, 97>>, <<95, 97, Dash>>,
   <<97, Dash>> \o Checksum(<<65>>)}

Checksums ==
  [s \in {Join(list, <<>>) : list \in UNION {[1..k -> SomeNames] : k \in 1..2}} |-> Checksum(s)]

LabelKeys == {<<97>>, <<98>>, <<97, 97>>}
LabelValues == {<<>>, <<97>>, <<97, 97>>}

(* One that reads as the end of a label and another label. *)
ValuesWithSeparators == {<<97>>, <<97, Semicolon, 98, Colon, 97>>}
=============================================================================

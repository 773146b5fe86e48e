--------------------------- MODULE K8SNameProofs ---------------------------
(***************************************************************************)
(* Proofs about K8SName, for names of any length, any number of them and   *)
(* any MaxLength, and for maps of any size.                                *)
(***************************************************************************)
EXTENDS K8SName, SequenceTheorems, NaturalsInduction, WellFoundedInduction, TLAPS

-----------------------------------------------------------------------------
(* Induction and recursion up to n, of sets and functions.                 *)

(* A set of naturals has a least element. *)
LEMMA Least ==
  ASSUME NEW T \in SUBSET Nat, T # {}
  PROVE  \E x \in T : \A y \in T : x <= y
<1>1. PICK x \in T : \A y \in T : ~(<<y, x>> \in OpToRel(<, Nat))
  BY WFMin, NatLessThanWellFounded
<1>2. \A y \in T : ~(y < x)
  BY <1>1 DEF OpToRel
<1>3. \A y \in T : x <= y
  BY <1>2
<1> QED BY <1>3

LEMMA Induction ==
  ASSUME NEW n \in Nat, NEW P, 0 \in P, \A i \in 1..n : i - 1 \in P => i \in P
  PROVE  \A i \in 0..n : i \in P
<1> DEFINE T == 0..n \ P
<1> SUFFICES ASSUME T # {} PROVE FALSE
  OBVIOUS
<1>0. T \subseteq Nat
  OBVIOUS
<1>1. PICK x \in T : \A y \in T : x <= y
  <2> HIDE DEF T
  <2> QED BY <1>0, Least
<1>2. \A y \in T : ~(y < x)
  BY <1>0, <1>1
<1>3. x \in 1..n /\ x - 1 \in 0..n /\ x - 1 < x
  OBVIOUS
<1>4. x - 1 \in P
  BY <1>2, <1>3
<1> QED BY <1>3, <1>4

(* f[i] is base after the first i steps. *)
Runs(f, m, base, step) == f[0] = base /\ \A i \in 1..m : f[i] = step[i][f[i - 1]]

LEMMA Recursion ==
  ASSUME NEW n \in Nat, NEW S, NEW base \in S, NEW step \in [1..n -> [S -> S]]
  PROVE  \E f \in [0..n -> S] : Runs(f, n, base, step)
<1> DEFINE P == {m \in 0..n : \E f \in [0..m -> S] : Runs(f, m, base, step)}
<1>1. 0 \in P
  <2> DEFINE f == [i \in 0..0 |-> base]
  <2>1. f \in [0..0 -> S] /\ Runs(f, 0, base, step) /\ 0 \in 0..n
    BY DEF Runs
  <2> HIDE DEF f
  <2> QED BY <2>1
<1>2. ASSUME NEW m \in 1..n, m - 1 \in P PROVE m \in P
  <2>1. PICK f \in [0..(m - 1) -> S] : Runs(f, m - 1, base, step)
    BY <1>2
  <2> DEFINE g == [i \in 0..m |-> IF i = m THEN step[m][f[m - 1]] ELSE f[i]]
  <2>2. step[m] \in [S -> S] /\ f[m - 1] \in S
    BY <2>1
  <2>3. g \in [0..m -> S]
    BY <2>2
  <2>4. g[0] = base
    BY <2>1 DEF Runs
  <2>5. ASSUME NEW i \in 1..m PROVE g[i] = step[i][g[i - 1]]
    BY <2>1 DEF Runs
  <2>6. Runs(g, m, base, step)
    BY <2>4, <2>5 DEF Runs
  <2> HIDE DEF g
  <2> QED BY <2>3, <2>6
<1>3. n \in P
  <2> HIDE DEF P
  <2>1. \A i \in 0..n : i \in P
    BY <1>1, <1>2, Induction
  <2> QED BY <2>1
<1> QED BY <1>3

-----------------------------------------------------------------------------
(* strings.Join, step by step: join[i] is what there is after i strings. *)
JoinStep(join, strs, sep, C, i) ==
  /\ strs[i] \in Seq(C) /\ join[i - 1] \in Seq(C) /\ join[i] \in Seq(C)
  /\ i = 1 => join[i] = strs[i]
  /\ i # 1 => join[i] = (join[i - 1] \o sep) \o strs[i]
  /\ Len(join[i]) = Len(join[i - 1]) + (IF i = 1 THEN 0 ELSE Len(sep)) + Len(strs[i])

Joins(join, strs, sep, C) ==
  /\ join[0] = <<>>
  /\ \A i \in 1..Len(strs) : JoinStep(join, strs, sep, C, i)
  /\ join[Len(strs)] = Join(strs, sep)

LEMMA JoinSteps ==
  ASSUME NEW C, NEW strs \in Seq(Seq(C)), NEW sep \in Seq(C)
  PROVE  \E join : Joins(join, strs, sep, C)
<1> DEFINE n == Len(strs)
           S == Seq(C)
           empty == <<>>
           Next1(i, s) == s \o (IF i = 1 THEN <<>> ELSE sep) \o strs[i]
           Eq(f) == f = [i \in 0..n |-> IF i = 0 THEN empty ELSE Next1(i, f[i - 1])]
           J == CHOOSE f : Eq(f)
           step == [i \in 1..n |-> [s \in S |-> Next1(i, s)]]
<1>1. Join(strs, sep) = J[n]
  BY DEF Join
<1>2. n \in Nat /\ empty \in S
  OBVIOUS
<1>3. ASSUME NEW i \in 1..n, NEW s \in S PROVE Next1(i, s) \in S
  BY ConcatProperties
<1> HIDE DEF n, S, empty, Next1
<1>4. step \in [1..n -> [S -> S]]
  BY <1>3
<1>5. PICK f \in [0..n -> S] : Runs(f, n, empty, step)
  <2> HIDE DEF step
  <2> QED BY <1>2, <1>4, Recursion
<1>6. Eq(f)
  <2>1. ASSUME NEW i \in 1..n PROVE f[i] = Next1(i, f[i - 1])
    <3>1. f[i - 1] \in S
      BY <1>2, <1>5
    <3> QED BY <1>5, <3>1 DEF Runs
  <2>2. \A i \in 0..n : f[i] = IF i = 0 THEN empty ELSE Next1(i, f[i - 1])
    BY <1>2, <1>5, <2>1 DEF Runs
  <2> QED BY <1>5, <2>2
<1>7. Eq(J)
  <2> HIDE DEF Eq
  <2> QED BY <1>6
<1> HIDE DEF J
<1>8. J[0] = empty /\ \A i \in 1..n : J[i] = Next1(i, J[i - 1])
  BY <1>2, <1>7
<1>9. J \in [0..n -> S]
  <2> DEFINE P == {i \in 0..n : J[i] \in S}
  <2>1. 0 \in P
    BY <1>2, <1>8
  <2>2. ASSUME NEW i \in 1..n, i - 1 \in P PROVE i \in P
    BY <1>2, <1>3, <1>8, <2>2
  <2>3. \A i \in 0..n : i \in P
    <3> HIDE DEF P
    <3> QED BY <1>2, <2>1, <2>2, Induction
  <2> QED BY <1>7, <2>3
<1>10. ASSUME NEW i \in 1..n PROVE JoinStep(J, strs, sep, C, i)
  <2>1. strs[i] \in Seq(C)
    BY ElementOfSeq DEF n
  <2>2. i - 1 \in 0..n /\ i \in 0..n
    BY <1>2
  <2>3. J[i - 1] \in Seq(C) /\ J[i] \in Seq(C)
    BY <1>9, <2>2 DEF S
  <2>4. J[i] = (J[i - 1] \o (IF i = 1 THEN <<>> ELSE sep)) \o strs[i]
    BY <1>8 DEF Next1
  <2>5. CASE i = 1
    <3>1. J[i - 1] = <<>> /\ Len(J[i - 1]) = 0
      BY <1>8, <2>5 DEF empty
    <3>2. J[i] = strs[i]
      BY <2>1, <2>4, <2>5, <3>1, ConcatEmptySeq
    <3> QED BY <2>1, <2>3, <2>5, <3>1, <3>2 DEF JoinStep
  <2>6. CASE i # 1
    <3>1. J[i] = (J[i - 1] \o sep) \o strs[i]
      BY <2>4, <2>6
    <3>2. J[i - 1] \o sep \in Seq(C) /\ Len(J[i - 1] \o sep) = Len(J[i - 1]) + Len(sep)
      BY <2>3, ConcatProperties
    <3>3. Len(J[i]) = Len(J[i - 1] \o sep) + Len(strs[i])
      BY <2>1, <3>1, <3>2, ConcatProperties
    <3> QED BY <2>1, <2>3, <2>6, <3>1, <3>2, <3>3 DEF JoinStep
  <2> QED BY <2>5, <2>6
<1>11. Joins(J, strs, sep, C)
  BY <1>1, <1>8, <1>10 DEF n, empty, Joins
<1> QED BY <1>11

(* Of what the joined strings are made, is made what they are joined to. *)
LEMMA JoinType ==
  ASSUME NEW C, NEW strs \in Seq(Seq(C)), NEW sep \in Seq(C)
  PROVE  Join(strs, sep) \in Seq(C)
<1>1. PICK join : Joins(join, strs, sep, C)
  BY JoinSteps
<1>2. CASE Len(strs) = 0
  <2>1. join[Len(strs)] = join[0]
    BY <1>2
  <2>2. <<>> \in Seq(C)
    OBVIOUS
  <2> QED BY <1>1, <2>1, <2>2 DEF Joins
<1>3. CASE Len(strs) # 0
  <2>1. Len(strs) \in 1..Len(strs)
    BY <1>3
  <2>2. JoinStep(join, strs, sep, C, Len(strs)) /\ join[Len(strs)] = Join(strs, sep)
    BY <1>1, <2>1 DEF Joins
  <2> QED BY <2>2 DEF JoinStep
<1> QED BY <1>2, <1>3

(* A separator between each two of them adds to the length. *)
LEMMA JoinLength ==
  ASSUME NEW C, NEW strs \in Seq(Seq(C)), strs # <<>>, NEW sep \in Seq(C), Len(sep) = 1
  PROVE  Len(Join(strs, sep)) = Len(Join(strs, <<>>)) + Len(strs) - 1
<1> DEFINE n == Len(strs)
<1>0. n \in Nat /\ n > 0 /\ <<>> \in Seq(C)
  OBVIOUS
<1>1. PICK join : Joins(join, strs, sep, C)
  BY JoinSteps
<1>2. PICK flat : Joins(flat, strs, <<>>, C)
  BY <1>0, JoinSteps
<1>3. join[0] = <<>> /\ flat[0] = <<>>
  BY <1>1, <1>2 DEF Joins
<1> DEFINE P == {i \in 0..n : i = 0 \/ Len(join[i]) = Len(flat[i]) + i - 1}
<1>4. ASSUME NEW i \in 1..n, i - 1 \in P PROVE i \in P
  <2>0. JoinStep(join, strs, sep, C, i) /\ JoinStep(flat, strs, <<>>, C, i)
    BY <1>1, <1>2 DEF Joins
  <2>1. Len(join[i]) = Len(join[i - 1]) + (IF i = 1 THEN 0 ELSE 1) + Len(strs[i])
        /\ Len(join[i - 1]) \in Nat /\ Len(strs[i]) \in Nat
    BY <2>0 DEF JoinStep
  <2>2. Len(flat[i]) = Len(flat[i - 1]) + Len(strs[i]) /\ Len(flat[i - 1]) \in Nat
    BY <2>0 DEF JoinStep
  <2>3. i \in 0..n /\ i \in Nat
    BY <1>0
  <2> DEFINE x == Len(join[i])
             y == Len(flat[i])
             a == Len(join[i - 1])
             b == Len(flat[i - 1])
             z == Len(strs[i])
  <2>4. x = a + (IF i = 1 THEN 0 ELSE 1) + z /\ y = b + z /\ a \in Nat /\ b \in Nat /\ z \in Nat
    BY <2>1, <2>2
  <2>5. CASE i = 1
    <3>1. i - 1 = 0
      BY <2>5
    <3>2. a = 0 /\ b = 0
      BY <1>3, <3>1
    <3>3. x = y + i - 1
      <4> HIDE DEF x, y, a, b, z
      <4> QED BY <2>4, <2>5, <3>2
    <3> QED BY <2>3, <3>3
  <2>6. CASE i # 1
    <3>0. ASSUME NEW j \in P, j # 0 PROVE Len(join[j]) = Len(flat[j]) + j - 1
      BY <3>0
    <3>1. a = b + (i - 1) - 1
      <4>1. i - 1 # 0
        BY <2>3, <2>6
      <4> HIDE DEF P
      <4> QED BY <1>4, <3>0, <4>1
    <3>2. x = y + i - 1
      <4> HIDE DEF x, y, a, b, z
      <4> QED BY <2>3, <2>4, <2>6, <3>1
    <3> QED BY <2>3, <3>2
  <2> QED BY <2>5, <2>6
<1>5. n \in P
  <2>1. 0 \in P
    BY <1>0
  <2> HIDE DEF n, P
  <2>2. \A i \in 0..n : i \in P
    BY <1>0, <1>4, <2>1, Induction
  <2> QED BY <1>0, <2>2
<1>6. join[n] = Join(strs, sep) /\ flat[n] = Join(strs, <<>>)
  BY <1>1, <1>2 DEF Joins
<1>7. Len(join[n]) = Len(flat[n]) + n - 1
  BY <1>0, <1>5
<1> QED BY <1>6, <1>7

(* Short strings join to a short one. *)
LEMMA JoinBound ==
  ASSUME NEW C, NEW strs \in Seq(Seq(C)), NEW k \in Nat,
         \A i \in 1..Len(strs) : Len(strs[i]) <= k
  PROVE  Len(Join(strs, <<>>)) <= Len(strs) * k
<1> DEFINE n == Len(strs)
<1>0. n \in Nat /\ <<>> \in Seq(C)
  OBVIOUS
<1>1. PICK flat : Joins(flat, strs, <<>>, C)
  BY <1>0, JoinSteps
<1> DEFINE P == {i \in 0..n : Len(flat[i]) <= i * k}
<1>2. ASSUME NEW i \in 1..n, i - 1 \in P PROVE i \in P
  <2> DEFINE x == Len(flat[i])
             y == Len(flat[i - 1])
             z == Len(strs[i])
  <2>0. JoinStep(flat, strs, <<>>, C, i)
    BY <1>1 DEF Joins
  <2>1. x = y + z /\ y \in Nat /\ z \in Nat
    BY <2>0 DEF JoinStep
  <2>2. z <= k
    OBVIOUS
  <2>3. y <= (i - 1) * k
    BY <1>2
  <2>4. i \in Nat /\ (i - 1) * k + k = i * k /\ (i - 1) * k \in Int
    BY <1>0
  <2>5. x <= i * k
    <3> HIDE DEF x, y, z
    <3> QED BY <2>1, <2>2, <2>3, <2>4
  <2> QED BY <1>0, <2>5
<1>3. 0 \in P
  BY <1>0, <1>1 DEF Joins
<1>4. n \in P
  <2> HIDE DEF n, P
  <2>1. \A i \in 0..n : i \in P
    BY <1>0, <1>2, <1>3, Induction
  <2> QED BY <1>0, <2>1
<1> QED BY <1>1, <1>4 DEF Joins

LEMMA ConcatEnds ==
  ASSUME NEW C, NEW s \in Seq(C), NEW t \in Seq(C)
  PROVE  /\ s # <<>> => s \o t # <<>> /\ (s \o t)[1] = s[1]
         /\ t # <<>> => s \o t # <<>> /\ (s \o t)[Len(s \o t)] = t[Len(t)]
<1>1. s \o t \in Seq(C) /\ Len(s \o t) = Len(s) + Len(t)
  BY ConcatProperties
<1> QED BY <1>1, ConcatProperties

(* What is joined begins as the first string and ends as the last one. *)
LEMMA JoinEnds ==
  ASSUME NEW C, NEW strs \in Seq(Seq(C)), strs # <<>>, NEW sep \in Seq(C)
  PROVE  LET n == Len(strs)
             all == Join(strs, sep)
         IN  /\ strs[1] # <<>> => all # <<>> /\ all[1] = strs[1][1]
             /\ strs[n] # <<>> => all # <<>> /\ all[Len(all)] = strs[n][Len(strs[n])]
<1> DEFINE n == Len(strs)
<1>0. n \in Nat /\ n > 0 /\ n \in 1..n
  OBVIOUS
<1>1. PICK join : Joins(join, strs, sep, C)
  BY JoinSteps
<1>2. ASSUME NEW i \in 1..n
      PROVE  /\ strs[i] \in Seq(C) /\ join[i - 1] \in Seq(C)
             /\ i = 1 => join[i] = strs[i]
             /\ i # 1 => join[i] = (join[i - 1] \o sep) \o strs[i]
  BY <1>1 DEF Joins, JoinStep
<1>3. ASSUME NEW s \in Seq(C), NEW t \in Seq(C)
      PROVE  /\ s # <<>> => s \o t # <<>> /\ (s \o t)[1] = s[1]
             /\ t # <<>> => s \o t # <<>> /\ (s \o t)[Len(s \o t)] = t[Len(t)]
  BY ConcatEnds
<1>4. ASSUME strs[n] # <<>>
      PROVE  join[n] # <<>> /\ join[n][Len(join[n])] = strs[n][Len(strs[n])]
  <2>1. CASE n = 1
    BY <1>0, <1>2, <1>4, <2>1
  <2>2. CASE n # 1
    <3>1. join[n - 1] \o sep \in Seq(C) /\ strs[n] \in Seq(C)
          /\ join[n] = (join[n - 1] \o sep) \o strs[n]
      BY <1>0, <1>2, <2>2, ConcatProperties
    <3> DEFINE s == join[n - 1] \o sep
    <3> HIDE DEF s
    <3>2. join[n] = s \o strs[n] /\ s \in Seq(C)
      BY <3>1 DEF s
    <3> QED BY <1>3, <1>4, <3>1, <3>2
  <2> QED BY <2>1, <2>2
<1> DEFINE P == {i \in 0..n : i = 0 \/ (join[i] # <<>> /\ join[i][1] = strs[1][1])}
<1>5. ASSUME strs[1] # <<>>, NEW i \in 1..n, i - 1 \in P PROVE i \in P
  <2>1. i \in 0..n
    BY <1>0
  <2>2. CASE i = 1
    BY <1>2, <1>5, <2>1, <2>2
  <2>3. CASE i # 1
    <3>1. join[i - 1] # <<>> /\ join[i - 1][1] = strs[1][1]
      BY <1>5, <2>3
    <3>2. strs[i] \in Seq(C) /\ join[i - 1] \in Seq(C)
          /\ join[i] = (join[i - 1] \o sep) \o strs[i]
      BY <1>2, <2>3
    <3>3. join[i - 1] \o sep \in Seq(C) /\ join[i - 1] \o sep # <<>>
          /\ (join[i - 1] \o sep)[1] = join[i - 1][1]
      BY <1>3, <3>1, <3>2, ConcatProperties
    <3>4. join[i] # <<>> /\ join[i][1] = (join[i - 1] \o sep)[1]
      <4> DEFINE s == join[i - 1] \o sep
      <4>1. join[i] = s \o strs[i] /\ s \in Seq(C) /\ s # <<>>
        BY <3>2, <3>3
      <4> HIDE DEF s
      <4>2. join[i] # <<>> /\ join[i][1] = s[1]
        BY <1>3, <3>2, <4>1
      <4> QED BY <4>2 DEF s
    <3> QED BY <2>1, <3>1, <3>3, <3>4
  <2> QED BY <2>2, <2>3
<1>6. ASSUME strs[1] # <<>> PROVE n \in P
  <2>1. 0 \in P
    BY <1>0
  <2>2. \A i \in 0..n : i \in P
    <3> HIDE DEF n, P
    <3> QED BY <1>0, <1>5, <1>6, <2>1, Induction
  <2> HIDE DEF n, P
  <2> QED BY <1>0, <2>2
<1>7. Join(strs, sep) = join[n]
  BY <1>1 DEF Joins
<1> QED BY <1>0, <1>4, <1>6, <1>7
-----------------------------------------------------------------------------
(* Cleaning and cutting. *)

LEMMA Extremes ==
  ASSUME NEW n \in Nat, NEW S \in SUBSET (1..n), S # {}
  PROVE  Min(S) \in S /\ Max(S) \in S /\ \A i \in S : Min(S) <= i /\ i <= Max(S)
<1> DEFINE T(i) == {j \in S : j <= i}
           Spans(i) == \E x, y \in T(i) : \A z \in T(i) : x <= z /\ z <= y
           P == {i \in 0..n : T(i) = {} \/ Spans(i)}
<1>0. \A j \in S : j \in Int /\ 1 <= j /\ j <= n
  OBVIOUS
<1>1. 0 \in P
  <2>1. \A j \in S : ~(j <= 0)
    BY <1>0
  <2>2. 0 \in 0..n
    OBVIOUS
  <2>3. T(0) = {}
    BY <2>1, Zenon
  <2> HIDE DEF T
  <2> QED BY <2>2, <2>3
<1>2. ASSUME NEW i \in 1..n, i - 1 \in P PROVE i \in P
  <2>0. i \in 0..n /\ i \in Int
    OBVIOUS
  <2>1. CASE i \notin S
    <3>1. \A j \in S : j <= i <=> j <= i - 1
      BY <1>0, <2>0, <2>1
    <3>2. T(i) = T(i - 1)
      BY <3>1
    <3> QED BY <1>2, <2>0, <3>2
  <2>2. CASE i \in S
    <3>0. \A j \in S : j <= i <=> (j <= i - 1 \/ j = i)
      BY <1>0, <2>0
    <3>1. T(i) = T(i - 1) \cup {i}
      BY <2>2, <3>0
    <3>2. CASE T(i - 1) = {}
      BY <3>1, <3>2
    <3>3. CASE Spans(i - 1)
      <4>1. PICK x, y \in T(i - 1) : \A z \in T(i - 1) : x <= z /\ z <= y
        BY <3>3
      <4>2. \A z \in T(i) : x <= z /\ z <= i
        BY <3>1, <4>1
      <4>3. x \in T(i) /\ i \in T(i)
        BY <3>1
      <4> QED BY <4>2, <4>3
    <3> QED BY <1>2, <3>2, <3>3
  <2> QED BY <2>1, <2>2
<1>3. n \in P
  <2>1. \A i \in 0..n : i \in P
    <3> HIDE DEF P
    <3> QED BY <1>1, <1>2, Induction
  <2> HIDE DEF P
  <2> QED BY <2>1
<1>4. T(n) = S
  BY <1>0
<1>5. PICK x, y \in S : \A z \in S : x <= z /\ z <= y
  BY <1>3, <1>4
<1> QED BY <1>5 DEF Min, Max

(* What is kept is compliant, and begins and ends as the string does if    *)
(* that character is compliant.                                            *)
LEMMA KeptProperties ==
  ASSUME NEW C, NEW s \in Seq(C), s # <<>>
  PROVE  LET n == Len(s)
             kept == Kept(s)
         IN  /\ kept \in Seq(CompliantChars)
             /\ Compliant(s[1]) => kept # <<>> /\ kept[1] = s[1]
             /\ Compliant(s[n]) => kept # <<>> /\ kept[Len(kept)] = s[n]
<1> DEFINE n == Len(s)
           left(i) == IF Compliant(s[i]) THEN <<s[i]>> ELSE <<>>
           strs == [i \in 1..n |-> left(i)]
           CC == CompliantChars
<1>1. n \in Nat /\ n > 0 /\ DOMAIN s = 1..n
  OBVIOUS
<1>2. ASSUME NEW i \in 1..n PROVE left(i) \in Seq(CC)
  <2>1. CASE Compliant(s[i])
    <3>1. s[i] \in CC
      BY <2>1 DEF Compliant, CompliantChars
    <3> HIDE DEF CC
    <3> QED BY <2>1, <3>1
  <2>2. CASE ~Compliant(s[i])
    BY <2>2
  <2> QED BY <2>1, <2>2
<1>3. strs \in Seq(Seq(CC)) /\ Len(strs) = n /\ \A i \in 1..n : strs[i] = left(i)
  <2> HIDE DEF left, n, CC
  <2> QED BY <1>1, <1>2
<1>4. Kept(s) = Join(strs, <<>>)
  BY <1>1 DEF Kept
<1>5. <<>> \in Seq(CC) /\ strs # <<>>
  <2> HIDE DEF strs
  <2> QED BY <1>1, <1>3
<1>6. Kept(s) \in Seq(CC)
  <2> HIDE DEF strs, CC
  <2> QED BY <1>3, <1>4, <1>5, JoinType
<1>7. LET all == Kept(s)
      IN  /\ strs[1] # <<>> => all # <<>> /\ all[1] = strs[1][1]
          /\ strs[n] # <<>> => all # <<>> /\ all[Len(all)] = strs[n][Len(strs[n])]
  <2> HIDE DEF strs, CC, n
  <2>1. LET m == Len(strs)
            all == Join(strs, <<>>)
        IN  /\ strs[1] # <<>> => all # <<>> /\ all[1] = strs[1][1]
            /\ strs[m] # <<>> => all # <<>> /\ all[Len(all)] = strs[m][Len(strs[m])]
    BY <1>3, <1>5, JoinEnds
  <2> QED BY <1>3, <1>4, <2>1
<1>8. ASSUME NEW i \in 1..n, Compliant(s[i])
      PROVE  strs[i] # <<>> /\ strs[i][1] = s[i] /\ strs[i][Len(strs[i])] = s[i]
  <2>1. strs[i] = <<s[i]>>
    BY <1>3, <1>8
  <2> HIDE DEF strs
  <2> QED BY <2>1
<1>9. 1 \in 1..n /\ n \in 1..n
  BY <1>1
<1> QED
  <2> HIDE DEF strs
  <2> QED BY <1>6, <1>7, <1>8, <1>9

(* A cleaned name is compliant, and begins and ends with an alphanumeric   *)
(* character unless nothing is left of it.                                 *)
LEMMA CleanedProperties ==
  ASSUME NEW name \in Seq(Chars)
  PROVE  LET c == Cleaned(name)
         IN  /\ c \in Seq(CompliantChars)
             /\ c # <<>> => c[1] \in Alphanumeric /\ c[Len(c)] \in Alphanumeric
<1> DEFINE s == ToLower(name)
           inside == {i \in DOMAIN s : s[i] \in Alphanumeric}
           first == Min(inside)
           last == Max(inside)
           part == SubSeq(s, first, last)
<1>1. CASE inside = {}
  BY <1>1 DEF Cleaned
<1>2. CASE inside # {}
  <2>1. Len(name) \in Nat /\ DOMAIN s = 1..Len(name) /\ \A i \in 1..Len(name) : s[i] \in Chars
    <3>1. Len(name) \in Nat /\ DOMAIN name = 1..Len(name)
      OBVIOUS
    <3>2. \A i \in 1..Len(name) : name[i] \in Chars
      BY ElementOfSeq
    <3>3. \A c \in Chars : c \in Upper => c + 32 \in Chars
      BY DEF Chars, Upper
    <3>4. s = [i \in 1..Len(name) |-> IF name[i] \in Upper THEN name[i] + 32 ELSE name[i]]
      BY <3>1 DEF ToLower
    <3>5. ASSUME NEW i \in 1..Len(name) PROVE s[i] \in Chars
      BY <3>2, <3>3, <3>4
    <3> QED BY <3>1, <3>4, <3>5
  <2>2. inside \subseteq 1..Len(name)
    BY <2>1
  <2>3. /\ first \in inside /\ last \in inside /\ first <= last
    <3> HIDE DEF inside
    <3> QED BY <1>2, <2>1, <2>2, Extremes
  <2>4. first \in 1..Len(name) /\ last \in 1..Len(name)
        /\ s[first] \in Alphanumeric /\ s[last] \in Alphanumeric
    BY <2>1, <2>3
  <2> HIDE DEF inside, first, last, s
  <2>5. \A i \in first..last : s[i] \in Chars
    BY <2>1, <2>4
  <2>6. /\ part \in Seq(Chars) /\ Len(part) = last - first + 1
        /\ \A i \in 1..(last - first + 1) : part[i] = s[first + i - 1]
    BY <2>1, <2>3, <2>4, <2>5, SubSeqProperties
  <2>7. part # <<>> /\ part[1] = s[first] /\ part[Len(part)] = s[last]
    <3>1. 1 \in 1..(last - first + 1) /\ last - first + 1 \in 1..(last - first + 1)
      BY <2>3, <2>4
    <3>2. first + 1 - 1 = first /\ first + (last - first + 1) - 1 = last
      BY <2>4
    <3> HIDE DEF part
    <3> QED BY <2>6, <3>1, <3>2
  <2>8. Compliant(part[1]) /\ Compliant(part[Len(part)])
    BY <2>4, <2>7 DEF Compliant, CompliantChars
  <2>9. Cleaned(name) = Kept(part)
    BY <1>2 DEF Cleaned, inside, first, last, s
  <2> HIDE DEF part
  <2> QED BY <2>4, <2>6, <2>7, <2>8, <2>9, KeptProperties
<1> QED BY <1>1, <1>2

LEMMA NamesProperties ==
  ASSUME NEW raw \in Seq(Seq(Chars))
  PROVE  /\ Names(raw) \in Seq(Seq(CompliantChars))
         /\ Len(Names(raw)) = Len(raw)
         /\ \A i \in 1..Len(raw) : LET c == Names(raw)[i] IN
              c # <<>> => c[1] \in Alphanumeric /\ c[Len(c)] \in Alphanumeric
<1>1. Len(raw) \in Nat /\ DOMAIN raw = 1..Len(raw) /\ \A i \in 1..Len(raw) : raw[i] \in Seq(Chars)
  BY ElementOfSeq
<1>2. Names(raw) = [i \in 1..Len(raw) |-> Cleaned(raw[i])]
  BY <1>1 DEF Names
<1>3. \A i \in 1..Len(raw) : Cleaned(raw[i]) \in Seq(CompliantChars)
  BY <1>1, CleanedProperties
<1>4. Names(raw) \in Seq(Seq(CompliantChars)) /\ Len(Names(raw)) = Len(raw)
  BY <1>1, <1>2, <1>3
<1> QED BY <1>1, <1>2, <1>4, CleanedProperties

LEMMA CutProperties ==
  ASSUME NEW C, NEW s \in Seq(C), NEW n \in Nat
  PROVE  /\ Cut(s, n) \in Seq(C) /\ Len(Cut(s, n)) <= n
         /\ n > 0 /\ s # <<>> => Cut(s, n) # <<>> /\ Cut(s, n)[1] = s[1]
<1> DEFINE m == IF Len(s) > n THEN n ELSE Len(s)
<1>1. m \in 0..Len(s) /\ m <= n /\ (n > 0 /\ s # <<>> => m > 0) /\ Len(s) \in Nat
  OBVIOUS
<1> HIDE DEF m
<1>2. \A i \in 1..m : s[i] \in C
  BY <1>1
<1>3. /\ SubSeq(s, 1, m) \in Seq(C)
      /\ Len(SubSeq(s, 1, m)) = IF 1 <= m THEN m - 1 + 1 ELSE 0
      /\ \A i \in 1..(m - 1 + 1) : SubSeq(s, 1, m)[i] = s[1 + i - 1]
  BY <1>1, <1>2, SubSeqProperties
<1>4. Cut(s, n) = SubSeq(s, 1, m)
  BY DEF Cut, m
<1> QED BY <1>1, <1>3, <1>4

LEMMA ReducedProperties ==
  ASSUME NEW C, NEW names \in Seq(Seq(C)), NEW v, Share(names, v) \in Nat
  PROVE  LET cut == Reduced(names, v)
         IN  /\ cut \in Seq(Seq(C)) /\ Len(cut) = Len(names)
             /\ \A i \in 1..Len(names) :
                  /\ Len(cut[i]) <= Share(names, v)
                  /\ Share(names, v) > 0 /\ names[i] # <<>> =>
                       cut[i] # <<>> /\ cut[i][1] = names[i][1]
<1> DEFINE k == Share(names, v)
           cut == Reduced(names, v)
<1>1. Len(names) \in Nat /\ DOMAIN names = 1..Len(names) /\ \A i \in 1..Len(names) : names[i] \in Seq(C)
  BY ElementOfSeq
<1>2. cut = [i \in 1..Len(names) |-> Cut(names[i], k)]
  BY <1>1 DEF Reduced
<1>3. \A i \in 1..Len(names) : Cut(names[i], k) \in Seq(C)
  BY <1>1, CutProperties
<1> HIDE DEF k, cut
<1>4. cut \in Seq(Seq(C)) /\ Len(cut) = Len(names)
  BY <1>1, <1>2, <1>3
<1> QED BY <1>1, <1>2, <1>4, CutProperties DEF k, cut
-----------------------------------------------------------------------------
(* What is written can be read.                                            *)

Texts == Seq(Nat)

LEMMA Ended ==
  ASSUME NEW s \in Texts, NEW c \in Nat
  PROVE  /\ s \o <<c>> \in Texts /\ Len(s \o <<c>>) = Len(s) + 1
         /\ \A i \in 1..(Len(s) + 1) : (s \o <<c>>)[i] = IF i <= Len(s) THEN s[i] ELSE c
<1>1. <<c>> \in Texts /\ Len(<<c>>) = 1 /\ <<c>>[1] = c /\ Len(s) \in Nat
  BY DEF Texts
<1> DEFINE z == <<c>>
<1> HIDE DEF z
<1>2. /\ s \o z \in Texts /\ Len(s \o z) = Len(s) + 1
      /\ \A i \in 1..(Len(s) + 1) :
           (s \o z)[i] = IF i <= Len(s) THEN s[i] ELSE z[i - Len(s)]
  BY <1>1, ConcatProperties DEF Texts, z
<1>3. \A i \in 1..(Len(s) + 1) : i <= Len(s) \/ i - Len(s) = 1
  BY <1>1
<1>4. z[1] = c
  BY <1>1 DEF z
<1>5. ASSUME NEW i \in 1..(Len(s) + 1)
      PROVE  (s \o z)[i] = IF i <= Len(s) THEN s[i] ELSE c
  BY <1>1, <1>2, <1>3, <1>4
<1> QED BY <1>2, <1>5 DEF z

(* c with s before it and t after it, free of c. *)
Around(s, c, t) == (s \o <<c>>) \o t
Free(t, c) == \A i \in 1..Len(t) : t[i] # c

(* A text is read back at the last occurrence of a character. *)
LEMMA SplitAtLast ==
  ASSUME NEW c \in Nat, NEW s \in Texts, NEW t \in Texts, NEW u \in Texts, NEW v \in Texts,
         Free(t, c), Free(v, c), Around(s, c, t) = Around(u, c, v)
  PROVE  s = u /\ t = v
<1> DEFINE sc == s \o <<c>>
           uc == u \o <<c>>
           x == sc \o t
           y == uc \o v
<1>0. /\ Len(s) \in Nat /\ Len(t) \in Nat /\ Len(u) \in Nat /\ Len(v) \in Nat
  BY DEF Texts
<1>1. /\ sc \in Texts /\ Len(sc) = Len(s) + 1
      /\ \A i \in 1..(Len(s) + 1) : sc[i] = IF i <= Len(s) THEN s[i] ELSE c
  BY Ended
<1>2. /\ uc \in Texts /\ Len(uc) = Len(u) + 1
      /\ \A i \in 1..(Len(u) + 1) : uc[i] = IF i <= Len(u) THEN u[i] ELSE c
  BY Ended
<1> HIDE DEF sc, uc
<1>3. /\ Len(x) = Len(sc) + Len(t)
      /\ \A i \in 1..(Len(sc) + Len(t)) :
           x[i] = IF i <= Len(sc) THEN sc[i] ELSE t[i - Len(sc)]
  BY <1>1, ConcatProperties DEF Texts
<1>4. /\ Len(y) = Len(uc) + Len(v)
      /\ \A i \in 1..(Len(uc) + Len(v)) :
           y[i] = IF i <= Len(uc) THEN uc[i] ELSE v[i - Len(uc)]
  BY <1>2, ConcatProperties DEF Texts
<1>5. x = y
  BY DEF sc, uc, Around
<1> HIDE DEF x, y
<1> DEFINE p == Len(s) + 1
           q == Len(u) + 1
<1>6. p + Len(t) = q + Len(v) /\ p \in Nat /\ q \in Nat /\ p >= 1 /\ q >= 1
  <2>1. Len(x) = p + Len(t) /\ Len(y) = q + Len(v)
    BY <1>1, <1>2, <1>3, <1>4
  <2> QED BY <1>0, <1>5, <2>1
<1>7. x[p] = c /\ y[q] = c
  BY <1>0, <1>1, <1>2, <1>3, <1>4
<1>8. ~(p < q)
  <2> SUFFICES ASSUME p < q PROVE FALSE
    OBVIOUS
  <2>1. q \in 1..(Len(sc) + Len(t)) /\ ~(q <= Len(sc)) /\ q - Len(sc) \in 1..Len(t)
    BY <1>0, <1>1, <1>6
  <2>2. x[q] = t[q - Len(sc)]
    BY <1>3, <2>1
  <2> QED BY <1>5, <1>7, <2>1, <2>2 DEF Free
<1>9. ~(q < p)
  <2> SUFFICES ASSUME q < p PROVE FALSE
    OBVIOUS
  <2>1. p \in 1..(Len(uc) + Len(v)) /\ ~(p <= Len(uc)) /\ p - Len(uc) \in 1..Len(v)
    BY <1>0, <1>2, <1>6
  <2>2. y[p] = v[p - Len(uc)]
    BY <1>4, <2>1
  <2> QED BY <1>5, <1>7, <2>1, <2>2 DEF Free
<1>10. Len(s) = Len(u) /\ Len(t) = Len(v) /\ Len(sc) = p /\ Len(uc) = p
  BY <1>0, <1>1, <1>2, <1>6, <1>8, <1>9
<1>11. ASSUME NEW i \in 1..Len(s) PROVE s[i] = u[i]
  <2>1. i \in 1..(p + Len(t)) /\ i <= p /\ i \in 1..p /\ i <= Len(s)
    BY <1>0
  <2>2. x[i] = sc[i] /\ y[i] = uc[i]
    BY <1>3, <1>4, <1>10, <2>1
  <2> QED BY <1>1, <1>2, <1>5, <1>10, <2>1, <2>2
<1>12. ASSUME NEW i \in 1..Len(t) PROVE t[i] = v[i]
  <2>1. p + i \in 1..(p + Len(t)) /\ ~(p + i <= p) /\ (p + i) - p = i
    BY <1>0, <1>6
  <2>2. x[p + i] = t[i] /\ y[p + i] = v[i]
    BY <1>3, <1>4, <1>10, <2>1
  <2> QED BY <1>5, <2>2
<1> QED BY <1>10, <1>11, <1>12, SeqEqual DEF Texts

(* What is written last is a suffix. *)
LEMMA SuffixOf ==
  ASSUME NEW s \in Texts, NEW t \in Texts
  PROVE  IsSuffix(t, s \o t)
<1> DEFINE n == Len(t)
           x == s \o t
           rt == Reverse(t)
           rx == Reverse(x)
<1>1. /\ x \in Texts /\ Len(x) = Len(s) + n /\ Len(s) \in Nat /\ n \in Nat
      /\ \A i \in 1..(Len(s) + n) : x[i] = IF i <= Len(s) THEN s[i] ELSE t[i - Len(s)]
  BY ConcatProperties DEF Texts
<1> HIDE DEF n, x
<1>2. rt = [i \in 1..n |-> t[n - i + 1]] /\ rx = [i \in 1..Len(x) |-> x[Len(x) - i + 1]]
  BY DEF Reverse, n
<1>3. ASSUME NEW i \in 1..n PROVE rx[i] = rt[i]
  <2>1. Len(x) - i + 1 \in 1..(Len(s) + n) /\ ~(Len(x) - i + 1 <= Len(s))
        /\ Len(x) - i + 1 - Len(s) = n - i + 1 /\ i \in 1..Len(x)
    BY <1>1
  <2> QED BY <1>1, <1>2, <2>1
<1>4. n <= Len(x) /\ \A i \in 1..n : i \in 1..Len(x)
  BY <1>1
<1>5. Len(rt) = n /\ Len(rx) = Len(x)
  BY <1>1, <1>2
<1>6. SubSeq(rt, 1, n) = [i \in 1..n |-> rt[i]] /\ SubSeq(rx, 1, n) = [i \in 1..n |-> rx[i]]
  <2>1. /\ rt \in Texts /\ rx \in Texts
    <3>1. \A i \in 1..n : n - i + 1 \in 1..n /\ t[n - i + 1] \in Nat
      BY <1>1 DEF n, Texts
    <3>2. \A i \in 1..Len(x) : x[Len(x) - i + 1] \in Nat
      BY <1>1 DEF Texts
    <3> HIDE DEF rt, rx
    <3> QED BY <1>1, <1>2, <3>1, <3>2 DEF Texts
  <2> HIDE DEF rt, rx
  <2>2. ASSUME NEW r \in Texts, n <= Len(r)
        PROVE  /\ SubSeq(r, 1, n) \in Texts /\ Len(SubSeq(r, 1, n)) = n
               /\ \A i \in 1..n : SubSeq(r, 1, n)[i] = r[i]
    <3>1. \A i \in 1..n : i \in 1..Len(r) /\ r[i] \in Nat
      BY <1>1, <2>2 DEF Texts
    <3>2. /\ SubSeq(r, 1, n) \in Texts
          /\ Len(SubSeq(r, 1, n)) = IF 1 <= n THEN n - 1 + 1 ELSE 0
          /\ \A i \in 1..(n - 1 + 1) : SubSeq(r, 1, n)[i] = r[1 + i - 1]
      BY <1>1, <3>1, SubSeqProperties DEF Texts
    <3> QED BY <1>1, <3>2
  <2>3. /\ SubSeq(rt, 1, n) \in Texts /\ Len(SubSeq(rt, 1, n)) = n
        /\ SubSeq(rx, 1, n) \in Texts /\ Len(SubSeq(rx, 1, n)) = n
        /\ \A i \in 1..n : SubSeq(rt, 1, n)[i] = rt[i] /\ SubSeq(rx, 1, n)[i] = rx[i]
    BY <1>1, <1>4, <1>5, <2>1, <2>2
  <2> QED BY <1>3, <2>3, SeqEqual DEF Texts
<1> HIDE DEF rt, rx
<1>7. SubSeq(rt, 1, n) = SubSeq(rx, 1, n)
  BY <1>3, <1>6
<1> QED BY <1>1, <1>4, <1>5, <1>7 DEF IsSuffix, IsPrefix, rt, rx, x

-----------------------------------------------------------------------------
(* The names. *)

NInv ==
  /\ rawNames \in Seq(Seq(Chars))
  /\ rawNames \in Seq(RawNames) /\ Len(rawNames) <= MaxNames
  /\ maxLength \in Int /\ includeCRC \in BOOLEAN

LEMMA NInvariance == NSpec => []NInv
<1>1. NInit => NInv
  BY NamesAssumption DEF NInit, NInv
<1>2. ASSUME NInv, [NNext]_nvars PROVE NInv'
  <2> USE DEF NInv
  <2>1. CASE AddName
    <3>1. PICK name \in RawNames : rawNames' = Append(rawNames, name)
      BY <2>1 DEF AddName
    <3>2. name \in Seq(Chars)
      BY NamesAssumption
    <3>3. rawNames' \in Seq(Seq(Chars)) /\ rawNames' \in Seq(RawNames)
      BY <1>2, <3>1, <3>2, AppendProperties
    <3>4. Len(rawNames') = Len(rawNames) + 1 /\ Len(rawNames) \in Nat
      BY <1>2, <3>1, AppendProperties
    <3> QED BY <1>2, <2>1, <3>3, <3>4, NamesAssumption DEF AddName
  <2>2. CASE AddLabel
    BY <1>2, <2>2 DEF AddLabel
  <2>3. CASE UNCHANGED nvars
    BY <1>2, <2>3 DEF nvars
  <2> QED BY <1>2, <2>1, <2>2, <2>3 DEF NNext
<1> QED BY <1>1, <1>2, PTL DEF NSpec

LEMMA ListProperties ==
  ASSUME NEW raw \in Lists
  PROVE  LET hash == StringHash(Join(raw, <<>>))
         IN  /\ raw \in Seq(Seq(Chars)) /\ raw # <<>>
             /\ hash \in Seq(Digits) /\ Len(hash) \in 1..hashLength
<1>1. PICK k \in 1..MaxNames : raw \in [1..k -> RawNames]
  BY DEF Lists
<1>2. k \in Nat /\ k > 0 /\ \A i \in 1..k : raw[i] \in Seq(Chars)
  BY <1>1, NamesAssumption
<1>3. raw \in Seq(Seq(Chars)) /\ Len(raw) = k
  BY <1>1, <1>2
<1>4. raw # <<>>
  BY <1>2, <1>3
<1> QED BY <1>3, <1>4, HashAssumption DEF StringHash

LEMMA NamesAreLists == ASSUME NInv, rawNames # <<>> PROVE rawNames \in Lists
<1> DEFINE k == Len(rawNames)
<1>1. k \in Nat /\ k > 0 /\ k <= MaxNames /\ rawNames \in [1..k -> RawNames]
  BY DEF NInv
<1> HIDE DEF k
<1>2. k \in 1..MaxNames
  BY <1>1, NamesAssumption
<1> QED BY <1>1, <1>2 DEF Lists

(* The room that MakeK8SName finds for the names, and each one's share. *)
LEMMA Room ==
  ASSUME NEW raw \in Seq(Seq(Chars)), raw # <<>>, NEW max \in Int, max >= hashLength + Len(raw)
  PROVE  LET names == Names(raw)
             v == ValidLength(max, names)
         IN  /\ names \in Seq(Seq(CompliantChars)) /\ names # <<>>
             /\ Len(names) = Len(raw) /\ Len(raw) \in Nat /\ Len(raw) > 0
             /\ v = max - 10 - Len(raw)
             /\ Share(names, v) \in Nat /\ Len(raw) * Share(names, v) <= v
             /\ max >= hashLength + 2 * Len(raw) => Share(names, v) > 0
<1> DEFINE names == Names(raw)
           n == Len(raw)
           v == ValidLength(max, names)
<1>1. n \in Nat /\ n > 0
  OBVIOUS
<1>2. names \in Seq(Seq(CompliantChars)) /\ Len(names) = n
  BY NamesProperties
<1>3. names # <<>>
  <2> HIDE DEF names
  <2> QED BY <1>1, <1>2
<1>4. v = max - 10 - n /\ v \in Nat
  BY <1>1, <1>2 DEF ValidLength, hashLength
<1>5. max >= hashLength + 2 * n => v >= n
  <2> HIDE DEF v
  <2> QED BY <1>1, <1>4 DEF hashLength
<1>6. Share(names, v) = v \div n
  BY <1>2 DEF Share
<1>7. v \div n \in Nat /\ n * (v \div n) <= v /\ (v >= n => v \div n > 0)
  <2> HIDE DEF n, v
  <2> QED BY <1>1, <1>4
<1> HIDE DEF n, v, names
<1>8. Share(names, v) \in Nat /\ n * Share(names, v) <= v
      /\ (max >= hashLength + 2 * n => Share(names, v) > 0)
  BY <1>5, <1>6, <1>7
<1> QED BY <1>1, <1>2, <1>3, <1>4, <1>8 DEF n, v, names

(* The parts of a name. *)
Fitted(raw, max) ==
  LET names == Names(raw)
  IN  IF TooLong(names, max) THEN Reduced(names, ValidLength(max, names)) ELSE names
WithoutCRC(raw, max) == Join(Fitted(raw, max), <<Dash>>)
HashOf(raw) == StringHash(Join(raw, <<>>))

LEMMA NameForm ==
  ASSUME NEW raw, raw # <<>>, NEW max, NEW crc
  PROVE  /\ Hashed(raw, Names(raw), max, crc) =>
              MakeK8SName(raw, max, crc) = Around(WithoutCRC(raw, max), Dash, HashOf(raw))
         /\ ~Hashed(raw, Names(raw), max, crc) =>
              /\ MakeK8SName(raw, max, crc) = WithoutCRC(raw, max)
              /\ Fitted(raw, max) = raw /\ Names(raw) = raw
              /\ ~crc /\ ~TooLong(raw, max)
  BY DEF MakeK8SName, Hashed, Around, Fitted, WithoutCRC, HashOf

LEMMA PartsOfName ==
  ASSUME NEW raw \in Lists, NEW max \in Int, ~Panics(raw, max)
  PROVE  /\ Fitted(raw, max) \in Seq(Seq(CompliantChars))
         /\ Len(Fitted(raw, max)) = Len(raw) /\ Fitted(raw, max) # <<>>
         /\ WithoutCRC(raw, max) \in Seq(CompliantChars)
<1> DEFINE names == Names(raw)
           v == ValidLength(max, names)
           C == CompliantChars
<1>1. raw \in Seq(Seq(Chars)) /\ raw # <<>> /\ Len(raw) \in Nat /\ Len(raw) > 0
  BY ListProperties
<1>2. names \in Seq(Seq(C)) /\ Len(names) = Len(raw)
  BY <1>1, NamesProperties
<1>3. ASSUME TooLong(names, max)
      PROVE  Reduced(names, v) \in Seq(Seq(C)) /\ Len(Reduced(names, v)) = Len(raw)
  <2>1. ~(Share(names, v) < 0)
    BY <1>1, <1>3 DEF Panics
  <2>2. v \in Int
    BY <1>1, <1>2 DEF ValidLength, hashLength
  <2>3. Share(names, v) \in Int
    <3> HIDE DEF v, names
    <3> QED BY <1>1, <1>2, <2>2 DEF Share
  <2> HIDE DEF v, names, C
  <2> QED BY <1>2, <2>1, <2>3, ReducedProperties
<1>4. Fitted(raw, max) \in Seq(Seq(C)) /\ Len(Fitted(raw, max)) = Len(raw)
  <2>1. Fitted(raw, max) = IF TooLong(names, max) THEN Reduced(names, v) ELSE names
    BY DEF Fitted
  <2> HIDE DEF v, names, C
  <2> QED BY <1>2, <1>3, <2>1
<1>5. Fitted(raw, max) # <<>>
  BY <1>1, <1>4
<1>6. <<Dash>> \in Seq(C)
  BY DEF CompliantChars
<1>7. WithoutCRC(raw, max) \in Seq(C)
  <2> HIDE DEF C
  <2> QED BY <1>4, <1>6, JoinType DEF WithoutCRC
<1> QED BY <1>4, <1>5, <1>7

LEMMA HashProperties ==
  ASSUME NEW raw \in Lists
  PROVE  /\ HashOf(raw) \in Seq(CompliantChars) /\ HashOf(raw) # <<>>
         /\ HashOf(raw)[Len(HashOf(raw))] \in Alphanumeric
         /\ Len(HashOf(raw)) \in 1..10
         /\ HashOf(raw) \in Texts /\ Free(HashOf(raw), Dash)
<1>1. HashOf(raw) \in Seq(Digits) /\ Len(HashOf(raw)) \in 1..10
  BY ListProperties DEF HashOf, hashLength
<1>2. /\ Digits \subseteq CompliantChars /\ Digits \subseteq Alphanumeric /\ Digits \subseteq Nat
      /\ \A d \in Digits : d # Dash
  BY DEF CompliantChars, Alphanumeric, Digits, Dash
<1>3. HashOf(raw) \in Seq(CompliantChars) /\ HashOf(raw) \in Seq(Nat)
  BY <1>1, <1>2, SeqMonotonic
<1>4. \A i \in 1..Len(HashOf(raw)) : HashOf(raw)[i] \in Digits
  BY <1>1, ElementOfSeq
<1>5. ASSUME NEW hash \in Seq(Digits), Len(hash) \in 1..10
      PROVE  Len(hash) \in 1..Len(hash) /\ hash # <<>>
  <2>1. \A m \in 1..10 : m >= 1 /\ m \in 1..m
    OBVIOUS
  <2>2. Len(hash) >= 1 /\ Len(hash) \in 1..Len(hash)
    BY <1>5, <2>1, Zenon
  <2> QED BY <2>2
<1>6. Len(HashOf(raw)) \in 1..Len(HashOf(raw)) /\ HashOf(raw) # <<>>
  BY <1>1, <1>5, Zenon
<1> QED BY <1>1, <1>2, <1>3, <1>4, <1>6 DEF Texts, Free

(* A name of MakeK8SName is as long as MaxLength at most if that leaves    *)
(* room for the hash and the dashes; and then nothing panics, whatever the *)
(* names are and however many.                                             *)
THEOREM NamesFit == NSpec => []FitsMaxLength
<1>1. NInv => FitsMaxLength
  <2> SUFFICES ASSUME NInv, rawNames # <<>>, maxLength >= hashLength + Len(rawNames)
               PROVE  ~Panics(rawNames, maxLength) /\ Len(Name) <= maxLength
    BY DEF FitsMaxLength
  <2> DEFINE n == Len(rawNames)
             names == Names(rawNames)
             v == ValidLength(maxLength, names)
             k == Share(names, v)
             fitted == Fitted(rawNames, maxLength)
             text == WithoutCRC(rawNames, maxLength)
             hash == HashOf(rawNames)
             total == Len(Join(fitted, <<>>))
             C == CompliantChars
  <2>1. /\ names \in Seq(Seq(C)) /\ names # <<>> /\ Len(names) = n /\ n \in Nat /\ n > 0
        /\ v = maxLength - 10 - n /\ k \in Nat /\ n * k <= v
    BY Room DEF NInv
  <2>2. ~Panics(rawNames, maxLength)
    BY <2>1 DEF Panics
  <2>3. rawNames \in Lists /\ maxLength \in Int
    BY NamesAreLists DEF NInv
  <2>4. <<Dash>> \in Seq(C) /\ <<>> \in Seq(C) /\ Len(<<Dash>>) = 1
    BY DEF CompliantChars
  <2>5. /\ Reduced(names, v) \in Seq(Seq(C)) /\ Len(Reduced(names, v)) = n
        /\ \A i \in 1..n : Len(Reduced(names, v)[i]) <= k
    BY <2>1, ReducedProperties
  <2>6. fitted \in Seq(Seq(C)) /\ Len(fitted) = n /\ fitted # <<>> /\ text \in Seq(C)
    BY <2>2, <2>3, PartsOfName
  <2>7. Join(fitted, <<>>) \in Seq(C)
    <3> HIDE DEF fitted, C
    <3> QED BY <2>4, <2>6, JoinType
  <2>8. total \in Nat
    BY <2>7
  <2>9. total <= v
    <3>1. CASE TooLong(names, maxLength)
      <4>1. fitted = Reduced(names, v)
        BY <3>1 DEF Fitted
      <4> HIDE DEF n, k, fitted, C
      <4>2. Len(Join(fitted, <<>>)) <= n * k
        BY <2>1, <2>5, <2>6, <4>1, JoinBound
      <4> QED BY <2>1, <2>8, <4>2 DEF NInv
    <3>2. CASE ~TooLong(names, maxLength)
      <4>1. fitted = names
        BY <3>2 DEF Fitted
      <4>2. ~(total > v)
        BY <3>2, <4>1 DEF TooLong, TotalLength
      <4> HIDE DEF n, v, total
      <4> QED BY <2>1, <2>8, <4>2 DEF NInv
    <3> QED BY <3>1, <3>2
  <2>10. Len(text) = total + n - 1
    <3> HIDE DEF fitted, C, n
    <3> QED BY <2>4, <2>6, JoinLength DEF WithoutCRC, fitted
  <2>11. Len(Around(text, Dash, hash)) <= Len(text) + 11 /\ Len(text) \in Nat
         /\ Len(Around(text, Dash, hash)) \in Nat
    <3>1. hash \in Seq(C) /\ Len(hash) <= 10 /\ Len(hash) \in Nat
      BY <2>3, HashProperties
    <3> HIDE DEF text, hash, C
    <3>2. text \o <<Dash>> \in Seq(C) /\ Len(text \o <<Dash>>) = Len(text) + 1 /\ Len(text) \in Nat
      BY <2>4, <2>6, ConcatProperties
    <3>3. Len(Around(text, Dash, hash)) = Len(text \o <<Dash>>) + Len(hash)
      BY <3>1, <3>2, ConcatProperties DEF Around
    <3> QED BY <3>1, <3>2, <3>3
  <2>12. Len(Name) \in Nat /\ Len(Name) <= Len(text) + 11
    <3>1. Name = Around(text, Dash, hash) \/ Name = text
      BY NameForm DEF Name
    <3> HIDE DEF text, hash
    <3> QED BY <2>11, <3>1
  <2>13. Len(Name) <= maxLength
    <3> HIDE DEF n, v, total, text
    <3> QED BY <2>1, <2>3, <2>8, <2>9, <2>10, <2>12
  <2> QED BY <2>2, <2>13
<1> QED BY <1>1, NInvariance, PTL

(* A name has compliant characters only, begins with an alphanumeric one   *)
(* if something is left of the first name, and ends with one, unless no    *)
(* hash follows a last name that is empty, whatever is cleaned and cut.    *)
THEOREM NamesAreCompliant == NSpec => []CompliantName
<1>1. NInv => CompliantName
  <2> DEFINE n == Len(rawNames)
             names == Names(rawNames)
             v == ValidLength(maxLength, names)
             fitted == Fitted(rawNames, maxLength)
             text == WithoutCRC(rawNames, maxLength)
             hash == HashOf(rawNames)
             hashed == Hashed(rawNames, names, maxLength, includeCRC)
             C == CompliantChars
             name == Name
  <2> SUFFICES ASSUME NInv, rawNames # <<>>, maxLength >= hashLength + 2 * n
               PROVE  /\ \A i \in DOMAIN name : Compliant(name[i])
                      /\ names[1] # <<>> => name[1] \in Alphanumeric
                      /\ rawNames[n] # <<>> \/ includeCRC => name[Len(name)] \in Alphanumeric
    BY DEF CompliantName
  <2>0. n \in Nat /\ n > 0 /\ maxLength >= hashLength + n /\ 1 \in 1..n /\ n \in 1..n
    BY DEF NInv, hashLength
  <2>1. /\ names \in Seq(Seq(C)) /\ Len(names) = n
        /\ Share(names, v) \in Nat /\ Share(names, v) > 0
    BY <2>0, Room DEF NInv
  <2>2. ASSUME names[1] # <<>>
        PROVE  fitted[1] # <<>> /\ fitted[1][1] = names[1][1] /\ names[1][1] \in Alphanumeric
    <3>1. Reduced(names, v)[1] # <<>> /\ Reduced(names, v)[1][1] = names[1][1]
      BY <2>0, <2>1, <2>2, ReducedProperties
    <3>2. names[1][1] \in Alphanumeric
      BY <2>0, <2>2, NamesProperties DEF NInv
    <3>3. fitted = Reduced(names, v) \/ fitted = names
      BY DEF Fitted
    <3> QED BY <2>2, <3>1, <3>2, <3>3
  <2>3. rawNames \in Lists /\ maxLength \in Int /\ ~Panics(rawNames, maxLength)
    BY <2>1, NamesAreLists DEF NInv, Panics
  <2>4. fitted \in Seq(Seq(C)) /\ Len(fitted) = n /\ fitted # <<>> /\ text \in Seq(C)
    BY <2>3, PartsOfName
  <2>5. <<Dash>> \in Seq(C)
    BY DEF CompliantChars
  <2>6. /\ fitted[1] # <<>> => text # <<>> /\ text[1] = fitted[1][1]
        /\ fitted[n] # <<>> => text # <<>> /\ text[Len(text)] = fitted[n][Len(fitted[n])]
    <3>1. LET m == Len(fitted)
          IN  /\ fitted[1] # <<>> => text # <<>> /\ text[1] = fitted[1][1]
              /\ fitted[m] # <<>> => text # <<>> /\ text[Len(text)] = fitted[m][Len(fitted[m])]
      <4>1. text = Join(fitted, <<Dash>>)
        BY DEF WithoutCRC
      <4> HIDE DEF fitted, C, text
      <4> QED BY <2>4, <2>5, <4>1, JoinEnds
    <3> HIDE DEF fitted, text, n
    <3> QED BY <2>4, <3>1
  <2>7. /\ hashed => name = Around(text, Dash, hash)
        /\ ~hashed => name = text /\ fitted = rawNames /\ names = rawNames /\ ~includeCRC
    BY NameForm DEF Name
  <2>8. /\ Around(text, Dash, hash) \in Seq(C)
        /\ text # <<>> => Around(text, Dash, hash)[1] = text[1]
        /\ Around(text, Dash, hash)[Len(Around(text, Dash, hash))] \in Alphanumeric
    <3>1. hash \in Seq(C) /\ hash # <<>> /\ hash[Len(hash)] \in Alphanumeric
      BY <2>3, HashProperties
    <3> DEFINE part == text \o <<Dash>>
    <3> HIDE DEF text, hash, C
    <3>2. part \in Seq(C) /\ (text # <<>> => part # <<>> /\ part[1] = text[1])
      BY <2>4, <2>5, ConcatProperties, ConcatEnds
    <3>3. Around(text, Dash, hash) = part \o hash
      BY DEF Around
    <3> HIDE DEF part
    <3> QED BY <3>1, <3>2, <3>3, ConcatProperties, ConcatEnds
  <2>9. name \in Seq(C)
    BY <2>4, <2>7, <2>8
  <2>10. \A i \in DOMAIN name : Compliant(name[i])
    <3> HIDE DEF name
    <3> QED BY <2>9 DEF Compliant
  <2>11. ASSUME ~hashed, rawNames[n] # <<>> PROVE name[Len(name)] \in Alphanumeric
    <3>1. names[n] # <<>> /\ name = text /\ fitted = names
      BY <2>7, <2>11
    <3>2. names[n][Len(names[n])] \in Alphanumeric
      BY <2>0, <3>1, NamesProperties DEF NInv
    <3> HIDE DEF n, names, fitted, text, name
    <3> QED BY <2>6, <3>1, <3>2
  <2> HIDE DEF n, v, names, fitted, C, text, hash, hashed, name
  <2> QED BY <2>2, <2>6, <2>7, <2>8, <2>10, <2>11
<1> QED BY <1>1, NInvariance, PTL

(* A hashed name is read back at its last dash, so it shows the hash: for  *)
(* any lists, lengths and option, and whatever crc32 is, two lists get one *)
(* name only if they have one hash, both are intact, or one is intact and  *)
(* spells the hash of the other.                                           *)
THEOREM ChangesAreHashed == NSpec => []ChangesShow
<1>1. ASSUME NEW raw \in Lists, maxLength \in Int, ~Panics(raw, maxLength)
      PROVE  LET name == MakeK8SName(raw, maxLength, includeCRC)
             IN  /\ WithoutCRC(raw, maxLength) \in Texts
                 /\ HashOf(raw) \in Texts /\ Free(HashOf(raw), Dash)
                 /\ \/ name = Around(WithoutCRC(raw, maxLength), Dash, HashOf(raw))
                    \/ Intact(raw) /\ name = Join(raw, <<Dash>>)
  <2>1. raw # <<>>
    BY ListProperties
  <2>2. Seq(CompliantChars) \subseteq Texts
    <3>1. CompliantChars \subseteq Nat
      BY DEF CompliantChars, Alphanumeric, Lower, Digits, Dash
    <3> QED BY <3>1, SeqMonotonic DEF Texts
  <2>3. WithoutCRC(raw, maxLength) \in Texts
    BY <1>1, <2>2, PartsOfName
  <2>4. \/ MakeK8SName(raw, maxLength, includeCRC)
             = Around(WithoutCRC(raw, maxLength), Dash, HashOf(raw))
        \/ Intact(raw) /\ MakeK8SName(raw, maxLength, includeCRC) = Join(raw, <<Dash>>)
    BY <2>1, NameForm DEF Intact, WithoutCRC
  <2> QED BY <2>3, <2>4, HashProperties
<1>2. ASSUME NEW raw, NEW other \in Lists, Intact(raw), NEW s \in Texts, HashOf(other) \in Texts,
             Join(raw, <<Dash>>) = Around(s, Dash, HashOf(other))
      PROVE  Spells(raw, other)
  <2> DEFINE hash == HashOf(other)
             dash == <<Dash>>
  <2>1. dash \in Texts /\ hash \in Texts
    BY <1>2 DEF Texts, Dash
  <2>2. Around(s, Dash, hash) = (s \o dash) \o hash
    BY DEF Around
  <2> HIDE DEF dash, hash
  <2>3. (s \o dash) \o hash = s \o (dash \o hash) /\ dash \o hash \in Texts
    BY <2>1, ConcatAssociative, ConcatProperties DEF Texts
  <2>4. IsSuffix(dash \o hash, s \o (dash \o hash))
    BY <2>3, SuffixOf
  <2>5. IsSuffix(dash \o hash, Join(raw, <<Dash>>))
    BY <1>2, <2>2, <2>3, <2>4 DEF hash
  <2> QED BY <1>2, <2>5 DEF Spells, HashOf, dash, hash
<1>3. ASSUME NInv PROVE ChangesShow
  <2> SUFFICES ASSUME rawNames # <<>>, ~Panics(rawNames, maxLength),
                      NEW other \in Lists, ~Panics(other, maxLength),
                      MakeK8SName(other, maxLength, includeCRC) = Name
               PROVE  \/ HashOf(rawNames) = HashOf(other)
                      \/ Intact(rawNames) /\ Intact(other)
                      \/ Spells(rawNames, other)
                      \/ Spells(other, rawNames)
    BY DEF ChangesShow, SameHash, HashOf
  <2> DEFINE s == WithoutCRC(rawNames, maxLength)
             t == WithoutCRC(other, maxLength)
  <2>1. rawNames \in Lists /\ maxLength \in Int
    BY <1>3, NamesAreLists DEF NInv
  <2>2. /\ s \in Texts /\ HashOf(rawNames) \in Texts /\ Free(HashOf(rawNames), Dash)
        /\ \/ Name = Around(s, Dash, HashOf(rawNames))
           \/ Intact(rawNames) /\ Name = Join(rawNames, <<Dash>>)
    BY <1>1, <2>1 DEF Name
  <2>3. /\ t \in Texts /\ HashOf(other) \in Texts /\ Free(HashOf(other), Dash)
        /\ \/ Name = Around(t, Dash, HashOf(other))
           \/ Intact(other) /\ Name = Join(other, <<Dash>>)
    BY <1>1, <2>1
  <2> HIDE DEF s, t
  <2>4. CASE Name = Around(s, Dash, HashOf(rawNames)) /\ Name = Around(t, Dash, HashOf(other))
    <3>1. Dash \in Nat
      BY DEF Dash
    <3>2. Around(s, Dash, HashOf(rawNames)) = Around(t, Dash, HashOf(other))
      BY <2>4
    <3>3. HashOf(rawNames) = HashOf(other)
      BY <2>2, <2>3, <3>1, <3>2, SplitAtLast
    <3> QED BY <3>3
  <2>5. CASE Name = Around(s, Dash, HashOf(rawNames)) /\ Intact(other)
             /\ Name = Join(other, <<Dash>>)
    BY <1>2, <2>1, <2>2, <2>5
  <2>6. CASE Intact(rawNames) /\ Name = Join(rawNames, <<Dash>>)
             /\ Name = Around(t, Dash, HashOf(other))
    BY <1>2, <2>3, <2>6
  <2> QED BY <2>2, <2>3, <2>4, <2>5, <2>6
<1> QED BY <1>3, NInvariance, PTL

-----------------------------------------------------------------------------
(* The order of the keys.                                                  *)

Strings == Seq(LabelBytes)
Pairs == [k : Strings, v : Strings]

LEMMA PairsOf ==
  ASSUME NEW kvs \in Seq(Pairs)
  PROVE  /\ Len(kvs) \in Nat /\ DOMAIN kvs = 1..Len(kvs)
         /\ \A i \in 1..Len(kvs) :
              kvs[i] \in Pairs /\ kvs[i].k \in Strings /\ kvs[i].v \in Strings
<1>1. \A i \in 1..Len(kvs) : kvs[i] \in Pairs
  BY ElementOfSeq
<1> QED BY <1>1, LenProperties DEF Pairs

LEMMA Bytes ==
  ASSUME NEW s \in Strings
  PROVE  s \in Seq(Nat) /\ Len(s) \in Nat /\ DOMAIN s = 1..Len(s)
         /\ \A i \in 1..Len(s) : s[i] \in Nat /\ s[i] # Colon /\ s[i] # Semicolon
<1>1. s \in Seq(LabelBytes) /\ LabelBytes \subseteq Nat
  BY DEF Strings, LabelBytes
<1>2. \A i \in 1..Len(s) : s[i] \in LabelBytes
  BY <1>1, ElementOfSeq
<1> QED BY <1>1, <1>2, SeqMonotonic DEF LabelBytes

(* Less is a strict order, and a total one. *)
LEMMA LessIsStrict ==
  ASSUME NEW s \in Strings, NEW t \in Strings, NEW u \in Strings
  PROVE  ~Less(s, s) /\ (Less(s, t) /\ Less(t, u) => Less(s, u))
<1>0. /\ Len(s) \in Nat /\ DOMAIN s = 1..Len(s) /\ \A i \in 1..Len(s) : s[i] \in Nat
      /\ Len(t) \in Nat /\ DOMAIN t = 1..Len(t) /\ \A i \in 1..Len(t) : t[i] \in Nat
      /\ Len(u) \in Nat /\ DOMAIN u = 1..Len(u) /\ \A i \in 1..Len(u) : u[i] \in Nat
  BY Bytes
<1>1. ~Less(s, s)
  BY <1>0 DEF Less
<1>2. ASSUME Less(s, t), Less(t, u) PROVE Less(s, u)
  <2>1. PICK i \in 1..Len(t) : /\ \A j \in 1..(i - 1) : j \in 1..Len(s) /\ s[j] = t[j]
                               /\ i \notin 1..Len(s) \/ s[i] < t[i]
    BY <1>0, <1>2 DEF Less
  <2>2. PICK k \in 1..Len(u) : /\ \A j \in 1..(k - 1) : j \in 1..Len(t) /\ t[j] = u[j]
                               /\ k \notin 1..Len(t) \/ t[k] < u[k]
    BY <1>0, <1>2 DEF Less
  <2>3. CASE i < k
    <3>1. i \in 1..Len(u) /\ t[i] = u[i]
      BY <1>0, <2>2, <2>3
    <3>2. \A j \in 1..(i - 1) : j \in 1..Len(s) /\ s[j] = u[j]
      BY <1>0, <2>1, <2>2, <2>3
    <3> QED BY <1>0, <2>1, <3>1, <3>2 DEF Less
  <2>4. CASE k <= i
    <3>1. \A j \in 1..(k - 1) : j \in 1..Len(s) /\ s[j] = u[j]
      BY <1>0, <2>1, <2>2, <2>4
    <3>2. k \in 1..Len(t) /\ t[k] < u[k]
      BY <1>0, <2>1, <2>2, <2>4
    <3>3. k \notin 1..Len(s) \/ s[k] < u[k]
      <4>1. CASE k = i
        BY <1>0, <2>1, <3>2, <4>1
      <4>2. CASE k < i
        BY <1>0, <2>1, <3>2, <4>2
      <4> QED BY <1>0, <2>4, <4>1, <4>2
    <3> QED BY <1>0, <3>1, <3>3 DEF Less
  <2> QED BY <1>0, <2>3, <2>4
<1> QED BY <1>1, <1>2

LEMMA LessIsTotal ==
  ASSUME NEW s \in Strings, NEW t \in Strings, s # t
  PROVE  Less(s, t) \/ Less(t, s)
<1>0. /\ s \in Seq(Nat) /\ Len(s) \in Nat /\ DOMAIN s = 1..Len(s)
      /\ t \in Seq(Nat) /\ Len(t) \in Nat /\ DOMAIN t = 1..Len(t)
      /\ \A i \in 1..Len(s) : s[i] \in Nat
      /\ \A i \in 1..Len(t) : t[i] \in Nat
  BY Bytes
<1> DEFINE D == {i \in Nat \ {0} : ~(i \in 1..Len(s) /\ i \in 1..Len(t) /\ s[i] = t[i])}
<1>1. Len(s) + 1 \in D
  BY <1>0
<1>2. PICK m \in D : \A i \in D : m <= i
  <2>1. D \in SUBSET Nat /\ D # {}
    BY <1>1
  <2> HIDE DEF D
  <2> QED BY <2>1, Least
<1>3. m \in Nat \ {0} /\ ~(m \in 1..Len(s) /\ m \in 1..Len(t) /\ s[m] = t[m])
  OBVIOUS
<1>4. ASSUME NEW j \in 1..(m - 1) PROVE j \in 1..Len(s) /\ j \in 1..Len(t) /\ s[j] = t[j]
  <2>1. j \in Nat \ {0} /\ ~(m <= j)
    BY <1>3
  <2>2. j \notin D
    BY <1>2, <2>1
  <2> QED BY <2>1, <2>2
<1> HIDE DEF D
<1>5. CASE m \in 1..Len(t) /\ (m \notin 1..Len(s) \/ s[m] < t[m])
  BY <1>0, <1>3, <1>4, <1>5 DEF Less
<1>6. CASE m \in 1..Len(s) /\ (m \notin 1..Len(t) \/ t[m] < s[m])
  BY <1>0, <1>3, <1>4, <1>6 DEF Less
<1>7. CASE m \notin 1..Len(s) /\ m \notin 1..Len(t)
  <2>1. m - 1 = Len(s) /\ m - 1 = Len(t)
    <3>1. m - 1 <= Len(s) /\ m - 1 <= Len(t)
      <4>1. CASE m = 1
        BY <1>0, <4>1
      <4>2. CASE m # 1
        <5>1. m - 1 \in 1..(m - 1)
          BY <1>3, <4>2
        <5> QED BY <1>0, <1>4, <5>1
      <4> QED BY <4>1, <4>2
    <3> QED BY <1>0, <1>3, <1>7, <3>1
  <2>2. s = t
    BY <1>0, <1>4, <2>1, SeqEqual
  <2> QED BY <2>2
<1> QED BY <1>0, <1>3, <1>5, <1>6, <1>7

-----------------------------------------------------------------------------
(* The sort.                                                               *)

DistinctKeys(kvs) == \A i, j \in DOMAIN kvs : kvs[i].k = kvs[j].k => i = j

(* Before is a strict order of the pairs, and a total one. *)
LEMMA BeforeOrders ==
  ASSUME NEW kvs \in Seq(Pairs), NEW a \in DOMAIN kvs, NEW b \in DOMAIN kvs, NEW c \in DOMAIN kvs
  PROVE  /\ ~Before(kvs, a, a)
         /\ Before(kvs, a, b) /\ Before(kvs, b, c) => Before(kvs, a, c)
         /\ a = b \/ Before(kvs, a, b) \/ Before(kvs, b, a)
<1> DEFINE x == kvs[a].k
           y == kvs[b].k
           z == kvs[c].k
<1>0. a \in Nat /\ b \in Nat /\ c \in Nat
  BY LenProperties
<1>2. x \in Strings /\ y \in Strings /\ z \in Strings
  BY PairsOf
<1>3. /\ Before(kvs, a, b) <=> Less(x, y) \/ (x = y /\ a < b)
      /\ Before(kvs, b, a) <=> Less(y, x) \/ (y = x /\ b < a)
      /\ Before(kvs, b, c) <=> Less(y, z) \/ (y = z /\ b < c)
      /\ Before(kvs, a, c) <=> Less(x, z) \/ (x = z /\ a < c)
      /\ Before(kvs, a, a) <=> Less(x, x) \/ (x = x /\ a < a)
  BY DEF Before
<1> HIDE DEF x, y, z
<1>4. ~Less(x, x) /\ (Less(x, y) /\ Less(y, z) => Less(x, z))
  BY <1>2, LessIsStrict
<1>5. x # y => Less(x, y) \/ Less(y, x)
  BY <1>2, LessIsTotal
<1> QED BY <1>0, <1>3, <1>4, <1>5

(* p lists the first m pairs, those that come before others first. *)
Orders(p, kvs, m) ==
  /\ p \in [1..m -> 1..m]
  /\ \A t \in 1..m : \E i \in 1..m : p[i] = t
  /\ \A i, j \in 1..m : i < j => Before(kvs, p[i], p[j])

(* Insertion: the pairs can be ordered. *)
LEMMA OrderExists ==
  ASSUME NEW kvs \in Seq(Pairs)
  PROVE  \E p : Orders(p, kvs, Len(kvs))
<1> DEFINE n == Len(kvs)
           P == {m \in 0..n : \E p : Orders(p, kvs, m)}
<1>0. n \in Nat /\ DOMAIN kvs = 1..n
  BY LenProperties
<1>1. 0 \in P
  <2>1. Orders([i \in 1..0 |-> i], kvs, 0)
    BY DEF Orders
  <2> QED BY <1>0, <2>1
<1>2. ASSUME NEW m \in 1..n, m - 1 \in P PROVE m \in P
  <2>0. m \in Nat /\ m \in 0..n /\ m - 1 \in Nat /\ \A i \in 1..m : i \in DOMAIN kvs
    BY <1>0
  <2>1. PICK p : Orders(p, kvs, m - 1)
    BY <1>2
  <2> DEFINE K == {i \in 1..m : i = m \/ (i < m /\ Before(kvs, m, p[i]))}
  <2>2. PICK k \in K : \A i \in K : k <= i
    <3>1. K \in SUBSET Nat /\ m \in K
      BY <2>0
    <3> HIDE DEF K
    <3> QED BY <3>1, Least
  <2> DEFINE q == [i \in 1..m |-> IF i < k THEN p[i] ELSE IF i = k THEN m ELSE p[i - 1]]
  <2>3. k \in 1..m /\ (k < m => Before(kvs, m, p[k]))
    OBVIOUS
  <2>4. \A i \in 1..(m - 1) : p[i] \in 1..(m - 1) /\ p[i] \in 1..m /\ p[i] # m
    <3>1. p \in [1..(m - 1) -> 1..(m - 1)]
      BY <2>1 DEF Orders
    <3>2. \A x \in 1..(m - 1) : x \in 1..m /\ x # m
      BY <2>0
    <3> QED BY <3>1, <3>2
  <2>5. ASSUME NEW i \in 1..(m - 1), i < k PROVE Before(kvs, p[i], m)
    <3>1. i \in 1..m /\ i < m /\ i # m
      BY <2>0
    <3>2. i \notin K
      BY <2>0, <2>2, <2>5
    <3>3. ~Before(kvs, m, p[i])
      BY <3>1, <3>2
    <3> QED BY <2>0, <2>4, <3>3, BeforeOrders
  <2>6. ASSUME NEW i \in 1..(m - 1), k <= i PROVE Before(kvs, m, p[i])
    <3>1. k < m /\ k \in 1..(m - 1) /\ Before(kvs, m, p[k])
      BY <2>0, <2>3, <2>6
    <3>2. k = i \/ Before(kvs, p[k], p[i])
      BY <2>0, <2>1, <2>6, <3>1 DEF Orders
    <3> QED BY <2>0, <2>4, <3>1, <3>2, BeforeOrders
  <2> HIDE DEF K
  <2>7. q \in [1..m -> 1..m]
    BY <2>0, <2>3, <2>4
  <2>8. ASSUME NEW t \in 1..m PROVE \E i \in 1..m : q[i] = t
    <3>1. CASE t = m
      BY <2>0, <2>3, <3>1
    <3>2. CASE t # m
      <4>1. PICK i \in 1..(m - 1) : p[i] = t
        BY <2>0, <2>1, <3>2 DEF Orders
      <4>2. CASE i < k
        BY <2>0, <4>1, <4>2
      <4>3. CASE k <= i
        <5>1. i + 1 \in 1..m /\ ~(i + 1 < k) /\ i + 1 # k /\ (i + 1) - 1 = i
          BY <2>0, <2>3, <4>3
        <5>2. q[i + 1] = p[i]
          BY <5>1
        <5> QED BY <4>1, <5>1, <5>2
      <4> QED BY <2>0, <2>3, <4>2, <4>3
    <3> QED BY <3>1, <3>2
  <2>9. ASSUME NEW i \in 1..m, NEW j \in 1..m, i < j PROVE Before(kvs, q[i], q[j])
    <3>1. ASSUME NEW x \in 1..(m - 1), NEW y \in 1..(m - 1), x < y
          PROVE  Before(kvs, p[x], p[y])
      BY <2>1, <3>1 DEF Orders
    <3>2. CASE j < k
      <4>1. i < k /\ i \in 1..(m - 1) /\ j \in 1..(m - 1)
        BY <2>0, <2>3, <2>9, <3>2
      <4>2. q[i] = p[i] /\ q[j] = p[j]
        BY <3>2, <4>1
      <4> QED BY <2>9, <3>1, <4>1, <4>2
    <3>3. CASE i < k /\ j = k
      BY <2>0, <2>3, <2>5, <3>3
    <3>4. CASE i < k /\ k < j
      BY <2>0, <2>3, <3>1, <3>4
    <3>5. CASE i = k
      BY <2>0, <2>3, <2>6, <2>9, <3>5
    <3>6. CASE k < i
      BY <2>0, <2>3, <2>9, <3>1, <3>6
    <3> QED BY <2>0, <2>3, <2>9, <3>2, <3>3, <3>4, <3>5, <3>6
  <2>10. Orders(q, kvs, m)
    BY <2>7, <2>8, <2>9 DEF Orders
  <2> QED BY <2>0, <2>10
<1>3. n \in P
  <2> HIDE DEF P, n
  <2>1. \A i \in 0..n : i \in P
    BY <1>0, <1>1, <1>2, Induction
  <2> QED BY <1>0, <2>1
<1> QED BY <1>3

Increasing(kvs) == \A i, j \in DOMAIN kvs : i < j => Less(kvs[i].k, kvs[j].k)

(* The sort of the pairs of a map: the same pairs, by increasing keys. *)
LEMMA SortedProperties ==
  ASSUME NEW kvs \in Seq(Pairs), DistinctKeys(kvs)
  PROVE  /\ Sorted(kvs) \in Seq(Pairs)
         /\ Increasing(Sorted(kvs))
         /\ ToSet(Sorted(kvs)) = ToSet(kvs)
<1> DEFINE n == Len(kvs)
           Right(p) == /\ p \in Bijection(DOMAIN kvs, DOMAIN kvs)
                       /\ \A i, j \in DOMAIN kvs : i < j => Before(kvs, p[i], p[j])
           order == CHOOSE p : Right(p)
<1>0. n \in Nat /\ DOMAIN kvs = 1..n /\ \A i \in 1..n : kvs[i] \in Pairs
  BY PairsOf
<1>1. Sorted(kvs) = [i \in DOMAIN kvs |-> kvs[order[i]]]
  BY DEF Sorted
<1>2. Right(order)
  <2>1. PICK p : Orders(p, kvs, n)
    BY OrderExists
  <2>2. \A i, j \in 1..n : p[i] = p[j] => i = j
    <3> SUFFICES ASSUME NEW i \in 1..n, NEW j \in 1..n, i < j PROVE p[i] # p[j]
      BY <1>0
    <3>1. Before(kvs, p[i], p[j]) /\ p[i] \in DOMAIN kvs
      BY <1>0, <2>1 DEF Orders
    <3> QED BY <3>1, BeforeOrders
  <2>3. Right(p)
    BY <1>0, <2>1, <2>2 DEF Orders, Bijection, Injection, Surjection, IsInjective
  <2> HIDE DEF Right
  <2> QED BY <2>3
<1> HIDE DEF order
<1>3. /\ order \in [1..n -> 1..n]
      /\ \A t \in 1..n : \E i \in 1..n : order[i] = t
      /\ \A i, j \in 1..n : i < j => Before(kvs, order[i], order[j])
  BY <1>0, <1>2 DEF Bijection, Injection, Surjection
<1>4. Sorted(kvs) = [i \in 1..n |-> kvs[order[i]]]
  BY <1>0, <1>1
<1>5. Sorted(kvs) \in Seq(Pairs)
  BY <1>0, <1>3, <1>4
<1>6. ToSet(Sorted(kvs)) = ToSet(kvs)
  BY <1>0, <1>3, <1>4 DEF ToSet
<1>7. ASSUME NEW i \in 1..n, NEW j \in 1..n, i < j
      PROVE  Less(kvs[order[i]].k, kvs[order[j]].k)
  <2>1. Before(kvs, order[i], order[j]) /\ order[i] \in DOMAIN kvs /\ order[j] \in DOMAIN kvs
    BY <1>0, <1>3, <1>7
  <2>2. kvs[order[i]].k = kvs[order[j]].k => order[i] = order[j]
    BY <2>1 DEF DistinctKeys
  <2>3. order[i] # order[j]
    BY <2>1, BeforeOrders
  <2> QED BY <2>1, <2>2, <2>3 DEF Before
<1> QED BY <1>4, <1>5, <1>6, <1>7 DEF Increasing

(* Two sequences of the same pairs by increasing keys are equal. *)
LEMMA SortedAlike ==
  ASSUME NEW a \in Seq(Pairs), NEW b \in Seq(Pairs), Increasing(a), Increasing(b),
         ToSet(a) = ToSet(b)
  PROVE  Len(a) <= Len(b) /\ \A l \in 1..Len(a) : a[l] = b[l]
<1> DEFINE n == Len(a)
           m == Len(b)
           P == {i \in 0..n : i <= m /\ \A l \in 1..i : a[l] = b[l]}
<1>0. /\ n \in Nat /\ DOMAIN a = 1..n /\ \A i \in 1..n : a[i] \in Pairs /\ a[i].k \in Strings
      /\ m \in Nat /\ DOMAIN b = 1..m /\ \A i \in 1..m : b[i] \in Pairs /\ b[i].k \in Strings
  BY PairsOf
<1>1. 0 \in P
  BY <1>0
<1>2. /\ \A i \in 1..n : \E j \in 1..m : a[i] = b[j]
      /\ \A j \in 1..m : \E i \in 1..n : a[i] = b[j]
  BY <1>0 DEF ToSet
<1>3. ASSUME NEW i \in 1..n, i - 1 \in P PROVE i \in P
  <2>0. i \in 0..n /\ i \in Nat /\ \A l \in 1..(i - 1) : a[l] = b[l]
    BY <1>0, <1>3
  <2>1. PICK j \in 1..m : a[i] = b[j]
    BY <1>2
  <2>2. i <= j
    <3> SUFFICES ASSUME j < i PROVE FALSE
      BY <1>0, <2>0
    <3>1. j \in 1..(i - 1) /\ j \in 1..n /\ a[j] = b[j]
      BY <1>0, <2>0
    <3>2. Less(a[j].k, a[i].k)
      BY <1>0, <3>1 DEF Increasing
    <3> QED BY <1>0, <2>1, <3>1, <3>2, LessIsStrict
  <2>3. i \in 1..m
    BY <1>0, <2>0, <2>2
  <2>4. PICK l \in 1..n : a[l] = b[i]
    BY <1>2, <2>3
  <2>5. i <= l
    <3> SUFFICES ASSUME l < i PROVE FALSE
      BY <1>0, <2>0
    <3>1. l \in 1..(i - 1) /\ l \in 1..m /\ a[l] = b[l]
      BY <1>0, <2>0, <2>3
    <3>2. Less(b[l].k, b[i].k)
      BY <1>0, <2>3, <3>1 DEF Increasing
    <3> QED BY <1>0, <2>3, <2>4, <3>1, <3>2, LessIsStrict
  <2>6. a[i] = b[i]
    <3> SUFFICES ASSUME i # j, i # l PROVE FALSE
      BY <2>1, <2>4
    <3>1. i < j /\ i < l
      BY <1>0, <2>0, <2>2, <2>5
    <3>2. Less(a[i].k, a[l].k) /\ Less(b[i].k, b[j].k)
      BY <1>0, <2>3, <3>1 DEF Increasing
    <3>3. Less(a[i].k, b[i].k) /\ Less(b[i].k, a[i].k)
      BY <2>1, <2>4, <3>2
    <3> QED BY <1>0, <2>3, <3>3, LessIsStrict
  <2> QED
    BY <1>0, <2>0, <2>3, <2>6
<1>4. n \in P
  <2> HIDE DEF P, n
  <2>1. \A i \in 0..n : i \in P
    BY <1>0, <1>1, <1>3, Induction
  <2> QED BY <1>0, <2>1
<1> QED BY <1>4

LEMMA OneOrder ==
  ASSUME NEW a \in Seq(Pairs), NEW b \in Seq(Pairs), Increasing(a), Increasing(b),
         ToSet(a) = ToSet(b)
  PROVE  a = b
<1>1. Len(a) <= Len(b) /\ Len(b) <= Len(a) /\ \A l \in 1..Len(a) : a[l] = b[l]
  BY SortedAlike
<1>2. Len(a) \in Nat /\ Len(b) \in Nat
  BY LenProperties
<1>3. Len(a) = Len(b)
  BY <1>1, <1>2
<1> QED BY <1>1, <1>3, SeqEqual

-----------------------------------------------------------------------------
(* The text of the labels.                                                 *)

Closed(s, c) == s = <<>> \/ \E e \in Texts : s = e \o <<c>>

(* A text that is empty or ends with c, and a string without c after it. *)
LEMMA SplitAfter ==
  ASSUME NEW c \in Nat, NEW s \in Texts, NEW t \in Texts, NEW u \in Texts, NEW v \in Texts,
         Closed(s, c), Closed(u, c), Free(t, c), Free(v, c),
         s \o t = u \o v
  PROVE  s = u /\ t = v
<1>1. ASSUME NEW a \in Texts, NEW e \in Texts, NEW b \in Texts, Free(b, c)
      PROVE  (e \o <<c>>) \o a # b
  <2>1. /\ e \o <<c>> \in Texts /\ Len(e \o <<c>>) = Len(e) + 1
        /\ (e \o <<c>>)[Len(e) + 1] = c /\ Len(e) \in Nat /\ Len(a) \in Nat
    <3>1. Len(e) \in Nat /\ Len(a) \in Nat
      BY DEF Texts
    <3> QED BY <3>1, Ended
  <2> DEFINE x == e \o <<c>>
  <2> HIDE DEF x
  <2>2. /\ Len(x \o a) = Len(x) + Len(a)
        /\ \A i \in 1..(Len(x) + Len(a)) : i <= Len(x) => (x \o a)[i] = x[i]
    BY <2>1, ConcatProperties DEF x, Texts
  <2>3. Len(e) + 1 \in 1..Len(x \o a) /\ (x \o a)[Len(e) + 1] = c
    BY <2>1, <2>2 DEF x
  <2> QED BY <1>1, <2>3 DEF x, Free
<1>2. \A a \in Texts : <<>> \o a = a
  BY ConcatEmptySeq DEF Texts
<1>3. CASE s = <<>> /\ u = <<>>
  BY <1>2, <1>3
<1>4. ASSUME s = <<>>, NEW e \in Texts, u = e \o <<c>> PROVE FALSE
  BY <1>1, <1>2, <1>4
<1>5. ASSUME u = <<>>, NEW e \in Texts, s = e \o <<c>> PROVE FALSE
  <2>1. (e \o <<c>>) \o t = v
    BY <1>2, <1>5
  <2> QED BY <1>1, <2>1
<1>6. ASSUME NEW e \in Texts, s = e \o <<c>>, NEW f \in Texts, u = f \o <<c>>
      PROVE  s = u /\ t = v
  <2>1. Around(e, c, t) = Around(f, c, v)
    BY <1>6 DEF Around
  <2>2. e = f /\ t = v
    BY <2>1, SplitAtLast
  <2> QED BY <1>6, <2>2
<1> QED BY <1>3, <1>4, <1>5, <1>6 DEF Closed

(* Whole writes a pair after what comes before it. *)
Whole(s, pair) == s \o Written(pair)

LEMMA WholeProperties ==
  ASSUME NEW s \in Texts, NEW pair \in Pairs
  PROVE  /\ Written(pair) \in Texts
         /\ Whole(s, pair) = ((((s \o pair.k) \o <<Colon>>) \o pair.v) \o <<Semicolon>>)
         /\ s \o pair.k \in Texts
         /\ (s \o pair.k) \o <<Colon>> \in Texts
         /\ ((s \o pair.k) \o <<Colon>>) \o pair.v \in Texts
         /\ Whole(s, pair) \in Texts /\ Whole(s, pair) # <<>>
<1> DEFINE k == pair.k
           v == pair.v
           c == <<Colon>>
           d == <<Semicolon>>
<1>1. k \in Texts /\ v \in Texts
  BY Bytes DEF Pairs, Texts
<1>2. c \in Texts /\ d \in Texts /\ Colon \in Nat /\ Semicolon \in Nat
  BY DEF Texts, Colon, Semicolon
<1>3. Written(pair) = ((k \o c) \o v) \o d /\ Whole(s, pair) = s \o Written(pair)
  BY DEF Written, Whole
<1> HIDE DEF k, v, c, d
<1>4. \A x, y \in Texts : x \o y \in Texts
  BY ConcatProperties DEF Texts
<1>5. \A x, y, z \in Texts : (x \o y) \o z = x \o (y \o z)
  BY ConcatAssociative DEF Texts
<1>6. k \o c \in Texts /\ (k \o c) \o v \in Texts /\ Written(pair) \in Texts
  BY <1>1, <1>2, <1>3, <1>4
<1>7. s \o k \in Texts /\ (s \o k) \o c \in Texts /\ ((s \o k) \o c) \o v \in Texts
  BY <1>1, <1>2, <1>4
<1>8. Whole(s, pair) = (((s \o k) \o c) \o v) \o d
  <2>1. s \o (((k \o c) \o v) \o d) = (s \o ((k \o c) \o v)) \o d
    BY <1>1, <1>2, <1>5, <1>6
  <2>2. s \o ((k \o c) \o v) = (s \o (k \o c)) \o v
    BY <1>1, <1>2, <1>5, <1>6
  <2>3. s \o (k \o c) = (s \o k) \o c
    BY <1>1, <1>2, <1>5
  <2> QED BY <1>3, <2>1, <2>2, <2>3
<1>9. Whole(s, pair) \in Texts /\ Whole(s, pair) # <<>>
  <2>1. Len((((s \o k) \o c) \o v) \o d) = Len(((s \o k) \o c) \o v) + 1
        /\ (((s \o k) \o c) \o v) \o d \in Texts
    BY <1>2, <1>7, Ended DEF d
  <2>2. Len(((s \o k) \o c) \o v) \in Nat
    BY <1>7 DEF Texts
  <2>3. Len(Whole(s, pair)) > 0 /\ Whole(s, pair) \in Texts
    BY <1>8, <2>1, <2>2
  <2> QED BY <2>3 DEF Texts
<1> QED BY <1>6, <1>7, <1>8, <1>9 DEF k, v, c, d

LEMMA ReadBack ==
  ASSUME NEW s \in Texts, NEW t \in Texts, NEW x \in Pairs, NEW y \in Pairs,
         Closed(s, Semicolon), Closed(t, Semicolon),
         Whole(s, x) = Whole(t, y)
  PROVE  s = t /\ x = y
<1> DEFINE a == s \o x.k
           b == t \o y.k
           ac == a \o <<Colon>>
           bc == b \o <<Colon>>
           av == ac \o x.v
           bv == bc \o y.v
<1>0. /\ x.k \in Texts /\ \A i \in 1..Len(x.k) : x.k[i] # Colon /\ x.k[i] # Semicolon
      /\ x.v \in Texts /\ \A i \in 1..Len(x.v) : x.v[i] # Colon /\ x.v[i] # Semicolon
      /\ y.k \in Texts /\ \A i \in 1..Len(y.k) : y.k[i] # Colon /\ y.k[i] # Semicolon
      /\ y.v \in Texts /\ \A i \in 1..Len(y.v) : y.v[i] # Colon /\ y.v[i] # Semicolon
  BY Bytes DEF Pairs, Texts
<1>1. /\ a \in Texts /\ av \in Texts /\ b \in Texts /\ bv \in Texts
      /\ av \o <<Semicolon>> = bv \o <<Semicolon>>
  <2>1. a \in Texts /\ av \in Texts /\ Whole(s, x) = av \o <<Semicolon>>
    BY WholeProperties
  <2>2. b \in Texts /\ bv \in Texts /\ Whole(t, y) = bv \o <<Semicolon>>
    BY WholeProperties
  <2> QED BY <2>1, <2>2
<1>2. Colon \in Nat /\ Semicolon \in Nat /\ <<>> \in Texts /\ Len(<<>>) = 0
  BY DEF Colon, Semicolon, Texts
<1> HIDE DEF av, bv
<1>3. av = bv
  <2> DEFINE empty == <<>>
  <2>1. empty \in Texts /\ Free(empty, Semicolon)
    BY <1>2 DEF Free
  <2>2. Around(av, Semicolon, empty) = Around(bv, Semicolon, empty)
    BY <1>1 DEF Around
  <2> HIDE DEF empty
  <2> QED BY <1>1, <1>2, <2>1, <2>2, SplitAtLast
<1> DEFINE xk == x.k
           xv == x.v
           yk == y.k
           yv == y.v
<1>4. Around(a, Colon, xv) = Around(b, Colon, yv)
  BY <1>3 DEF av, bv, Around
<1>5. s \o xk = a /\ t \o yk = b
  OBVIOUS
<1>6. /\ xk \in Texts /\ Free(xk, Semicolon) /\ yk \in Texts /\ Free(yk, Semicolon)
      /\ xv \in Texts /\ Free(xv, Colon) /\ yv \in Texts /\ Free(yv, Colon)
  BY <1>0 DEF Free
<1> HIDE DEF a, b, xk, xv, yk, yv
<1>7. a = b /\ xv = yv
  BY <1>1, <1>2, <1>4, <1>6, SplitAtLast
<1>8. s \o xk = t \o yk
  BY <1>5, <1>7
<1>9. s = t /\ xk = yk
  BY <1>2, <1>6, <1>8, SplitAfter
<1> QED BY <1>7, <1>9 DEF Pairs, xk, xv, yk, yv

Writings(kvs) == [i \in DOMAIN kvs |-> Written(kvs[i])]

(* The pairs that are written one after the other are read back. *)
LEMMA ReadAllBack ==
  ASSUME NEW a \in Seq(Pairs), NEW b \in Seq(Pairs),
         Join(Writings(a), <<>>) = Join(Writings(b), <<>>)
  PROVE  a = b
<1> DEFINE n == Len(a)
           m == Len(b)
<1>0. /\ n \in Nat /\ \A i \in 1..n : a[i] \in Pairs
      /\ m \in Nat /\ \A i \in 1..m : b[i] \in Pairs
  BY PairsOf
<1>1. ASSUME NEW kvs \in Seq(Pairs)
      PROVE  \E join : /\ join[0] = <<>> /\ join[Len(kvs)] = Join(Writings(kvs), <<>>)
                       /\ \A i \in 0..Len(kvs) : join[i] \in Texts /\ Closed(join[i], Semicolon)
                       /\ \A i \in 1..Len(kvs) : join[i] = Whole(join[i - 1], kvs[i])
                                                 /\ join[i] # <<>>
  <2> DEFINE strs == Writings(kvs)
             k == Len(kvs)
  <2>1. k \in Nat /\ DOMAIN kvs = 1..k /\ \A i \in 1..k : kvs[i] \in Pairs
    BY PairsOf
  <2>2. <<>> \in Texts /\ \A i \in 1..k : Written(kvs[i]) \in Texts
    <3>1. <<>> \in Texts
      BY DEF Texts
    <3> QED BY <2>1, <3>1, WholeProperties
  <2>3. strs \in Seq(Texts) /\ Len(strs) = k /\ \A i \in 1..k : strs[i] = Written(kvs[i])
    BY <2>1, <2>2 DEF Writings
  <2> HIDE DEF strs, k
  <2>4. PICK join : Joins(join, strs, <<>>, Nat)
    BY <2>2, <2>3, JoinSteps DEF Texts
  <2>5. ASSUME NEW i \in 1..k
        PROVE  join[i - 1] \in Texts /\ join[i] \in Texts /\ join[i] = join[i - 1] \o Written(kvs[i])
    <3>1. JoinStep(join, strs, <<>>, Nat, i)
      BY <2>3, <2>4 DEF Joins
    <3>2. /\ join[i - 1] \in Texts /\ join[i] \in Texts /\ strs[i] \in Texts
          /\ i = 1 => join[i] = strs[i]
          /\ i # 1 => join[i] = (join[i - 1] \o <<>>) \o strs[i]
      BY <3>1 DEF JoinStep, Texts
    <3>3. CASE i = 1
      <4>1. join[i - 1] = <<>>
        BY <2>4, <3>3 DEF Joins
      <4>2. <<>> \o strs[i] = strs[i]
        BY <3>2, ConcatEmptySeq DEF Texts
      <4> QED BY <2>3, <3>2, <3>3, <4>1, <4>2
    <3>4. CASE i # 1
      <4>1. join[i - 1] \o <<>> = join[i - 1]
        BY <3>2, ConcatEmptySeq DEF Texts
      <4> QED BY <2>3, <3>2, <3>4, <4>1
    <3> QED BY <3>3, <3>4
  <2>6. ASSUME NEW i \in 1..k
        PROVE  /\ join[i] = Whole(join[i - 1], kvs[i]) /\ join[i] # <<>>
               /\ Closed(join[i], Semicolon)
    <3>1. join[i - 1] \in Texts /\ join[i] = Whole(join[i - 1], kvs[i]) /\ kvs[i] \in Pairs
      BY <2>1, <2>5 DEF Whole
    <3>2. /\ join[i] # <<>>
          /\ \E e \in Texts : join[i] = e \o <<Semicolon>>
      BY <3>1, WholeProperties
    <3> QED BY <3>1, <3>2 DEF Closed
  <2>7. join[0] = <<>> /\ join[k] = Join(strs, <<>>)
    BY <2>3, <2>4 DEF Joins
  <2>8. \A i \in 0..k : join[i] \in Texts /\ Closed(join[i], Semicolon)
    <3>1. \A i \in 0..k : i = 0 \/ i \in 1..k
      BY <2>1
    <3> QED BY <2>2, <2>5, <2>6, <2>7, <3>1 DEF Closed
  <2> QED BY <2>6, <2>7, <2>8 DEF strs, k
<1>2. PICK f : /\ f[0] = <<>> /\ f[n] = Join(Writings(a), <<>>)
               /\ \A i \in 0..n : f[i] \in Texts /\ Closed(f[i], Semicolon)
               /\ \A i \in 1..n : f[i] = Whole(f[i - 1], a[i]) /\ f[i] # <<>>
  BY <1>1
<1>3. PICK g : /\ g[0] = <<>> /\ g[m] = Join(Writings(b), <<>>)
               /\ \A i \in 0..m : g[i] \in Texts /\ Closed(g[i], Semicolon)
               /\ \A i \in 1..m : g[i] = Whole(g[i - 1], b[i]) /\ g[i] # <<>>
  BY <1>1
<1> DEFINE P == {i \in 0..n : \A j \in 0..m :
                   f[i] = g[j] => i = j /\ \A l \in 1..i : a[l] = b[l]}
<1>4. 0 \in P
  <2>1. \A j \in 0..m : j = 0 \/ j \in 1..m
    BY <1>0
  <2> QED BY <1>0, <1>2, <1>3, <2>1
<1>5. ASSUME NEW i \in 1..n, i - 1 \in P PROVE i \in P
  <2>0. i \in 0..n /\ i - 1 \in 0..n /\ i \in Nat
    BY <1>0
  <2> SUFFICES ASSUME NEW j \in 0..m, f[i] = g[j] PROVE i = j /\ \A l \in 1..i : a[l] = b[l]
    BY <2>0
  <2>1. j \in 1..m /\ j - 1 \in 0..m
    <3>1. j # 0
      BY <1>2, <1>3
    <3> QED BY <1>0, <3>1
  <2>2. /\ f[i - 1] \in Texts /\ Closed(f[i - 1], Semicolon)
        /\ g[j - 1] \in Texts /\ Closed(g[j - 1], Semicolon)
        /\ Whole(f[i - 1], a[i]) = Whole(g[j - 1], b[j])
    BY <1>2, <1>3, <2>0, <2>1
  <2>3. f[i - 1] = g[j - 1] /\ a[i] = b[j]
    BY <1>0, <2>1, <2>2, ReadBack
  <2>4. i - 1 = j - 1 /\ \A l \in 1..(i - 1) : a[l] = b[l]
    BY <1>5, <2>1, <2>3
  <2>5. i = j
    BY <1>0, <2>0, <2>4
  <2>6. \A l \in 1..i : l = i \/ l \in 1..(i - 1)
    BY <2>0
  <2> QED BY <2>3, <2>4, <2>5, <2>6
<1>6. n \in P
  <2> HIDE DEF P, n
  <2>1. \A i \in 0..n : i \in P
    BY <1>0, <1>4, <1>5, Induction
  <2> QED BY <1>0, <2>1
<1>7. n = m /\ \A l \in 1..n : a[l] = b[l]
  <2>1. m \in 0..m /\ f[n] = g[m]
    BY <1>0, <1>2, <1>3
  <2> QED BY <1>6, <2>1
<1> QED BY <1>7, SeqEqual

-----------------------------------------------------------------------------
LabelsInv == labels \in Seq(Pairs) /\ DistinctKeys(labels)

LEMMA LabelsInvariance == ASSUME NoSeparators PROVE NSpec => []LabelsInv
<1>1. NInit => LabelsInv
  BY DEF NInit, LabelsInv, DistinctKeys
<1>2. ASSUME LabelsInv, [NNext]_nvars PROVE LabelsInv'
  <2> USE DEF LabelsInv
  <2>1. CASE AddLabel
    <3>1. PICK k \in Keys, v \in Values :
            /\ \A i \in DOMAIN labels : labels[i].k # k
            /\ labels' = Append(labels, [k |-> k, v |-> v])
      BY <2>1 DEF AddLabel
    <3> DEFINE pair == [k |-> k, v |-> v]
    <3>2. pair \in Pairs /\ pair.k = k
      BY DEF NoSeparators, Pairs, Strings
    <3> HIDE DEF pair
    <3>3. /\ labels' \in Seq(Pairs) /\ Len(labels') = Len(labels) + 1
          /\ \A i \in 1..Len(labels) : labels'[i] = labels[i]
          /\ labels'[Len(labels) + 1] = pair
      BY <1>2, <3>1, <3>2, AppendProperties DEF pair
    <3>4. /\ Len(labels) \in Nat /\ DOMAIN labels = 1..Len(labels)
          /\ DOMAIN labels' = 1..(Len(labels) + 1)
      BY <1>2, <3>3, LenProperties
    <3>5. DistinctKeys(labels)'
      <4> SUFFICES ASSUME NEW i \in DOMAIN labels', NEW j \in DOMAIN labels',
                          labels'[i].k = labels'[j].k
                   PROVE  i = j
        BY DEF DistinctKeys
      <4>1. \A l \in DOMAIN labels' : l \in DOMAIN labels \/ l = Len(labels) + 1
        BY <3>4
      <4> QED BY <1>2, <3>1, <3>2, <3>3, <3>4, <4>1 DEF DistinctKeys
    <3> QED BY <3>3, <3>5
  <2>2. CASE AddName \/ UNCHANGED nvars
    BY <1>2, <2>2 DEF AddName, nvars, DistinctKeys
  <2> QED BY <1>2, <2>1, <2>2 DEF NNext
<1> QED BY <1>1, <1>2, PTL DEF NSpec

(* However many labels a nodeSelector has and in whatever order Go         *)
(* iterates them, equal nodeSelectors have equal hashes, and different     *)
(* ones are hashed from different texts.                                   *)
THEOREM MapsHaveOneHash == ASSUME NoSeparators PROVE NSpec => []OneHashPerMap
<1>1. ASSUME LabelsInv PROVE OneHashPerMap
  <2> SUFFICES ASSUME NEW other \in Maps
               PROVE  StringMap(other) = StringMap(labels) <=> ToSet(other) = ToSet(labels)
    BY DEF OneHashPerMap
  <2>1. other \in Seq(Pairs) /\ DistinctKeys(other)
    <3>1. PICK k \in 0..MaxLabels : other \in [1..k -> [k : Keys, v : Values]]
      BY DEF Maps
    <3>2. k \in Nat
      BY NamesAssumption
    <3>3. [k : Keys, v : Values] \subseteq Pairs
      BY DEF NoSeparators, Pairs, Strings
    <3>4. other \in Seq(Pairs)
      BY <3>1, <3>2, <3>3
    <3> QED BY <3>4 DEF Maps, DistinctKeys
  <2> DEFINE a == Sorted(other)
             b == Sorted(labels)
  <2>2. a \in Seq(Pairs) /\ Increasing(a) /\ ToSet(a) = ToSet(other)
    BY <2>1, SortedProperties
  <2>3. b \in Seq(Pairs) /\ Increasing(b) /\ ToSet(b) = ToSet(labels)
    BY <1>1, SortedProperties DEF LabelsInv
  <2>4. /\ StringMap(other) = Join(Writings(a), <<>>)
        /\ StringMap(labels) = Join(Writings(b), <<>>)
    BY DEF StringMap, Writings
  <2> HIDE DEF a, b
  <2>5. ToSet(other) = ToSet(labels) => a = b
    BY <2>2, <2>3, OneOrder
  <2>6. StringMap(other) = StringMap(labels) => a = b
    BY <2>2, <2>3, <2>4, ReadAllBack
  <2> QED BY <2>2, <2>3, <2>4, <2>5, <2>6
<1> QED BY <1>1, LabelsInvariance, PTL
=============================================================================

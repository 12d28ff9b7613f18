---- MODULE SelectionsProofs ----
(***************************************************************************)
(* Lemmas about Selections: what a filter leaves of a sequence.  They rest *)
(* on least counterexamples, because the induction theorems of the library *)
(* take an operator that the provers cannot instantiate.                   *)
(***************************************************************************)
EXTENDS Integers, Selections, SequenceTheorems, WellFoundedInduction, TLAPS

\* A non-empty set of natural numbers has a least element.
LEMMA LeastNumber ==
  ASSUME NEW T \in SUBSET Nat, T # {}
  PROVE  \E n \in T : \A m \in T : n <= m
<1> DEFINE R == {ss \in Nat \X Nat : ss[1] < ss[2]}
<1>1. IsWellFoundedOn(R, Nat)
  BY NatLessThanWellFounded DEF OpToRel
<1>2. \E n \in T : \A m \in T : ~ (<<m, n>> \in R)
  BY <1>1, WFMin
<1>3. PICK n \in T : \A m \in T : ~ (<<m, n>> \in R)
  BY <1>2
<1>4. ASSUME NEW m \in T PROVE n <= m
  <2>1. <<m, n>> \in Nat \X Nat
    OBVIOUS
  <2> QED BY <1>3, <2>1
<1> QED BY <1>4

\* The function that Without is defined with, up to n.
Remains(q, S, rest, i) ==
  IF i = 0 THEN <<>> ELSE IF q[i] \in S THEN rest[i - 1] ELSE Append(rest[i - 1], q[i])
Rests(q, S, n, rest) == rest = [i \in 0..n |-> Remains(q, S, rest, i)]

\* The recursive function that Without is defined with exists.
LEMMA RestExists == ASSUME NEW q, NEW S PROVE \A n \in Nat : \E rest : Rests(q, S, n, rest)
<1> DEFINE Bad == {n \in Nat : ~ \E rest : Rests(q, S, n, rest)}
<1> SUFFICES ASSUME Bad # {} PROVE FALSE
  OBVIOUS
<1>1. PICK n \in Bad : \A m \in Bad : n <= m
  BY LeastNumber
<1>2. n \in Nat /\ ~ \E rest : Rests(q, S, n, rest)
  BY <1>1
<1>3. CASE n = 0
  <2> DEFINE rest == [i \in 0..0 |-> <<>>]
  <2>1. rest = [i \in 0..0 |-> Remains(q, S, rest, i)]
    BY DEF Remains
  <2>2. Rests(q, S, 0, rest)
    BY <2>1 DEF Rests
  <2> QED BY <1>2, <1>3, <2>2
<1>4. CASE n # 0
  <2>1. n - 1 \in Nat /\ n - 1 \notin Bad
    BY <1>1, <1>2, <1>4
  <2>2. PICK old : Rests(q, S, n - 1, old)
    BY <2>1
  <2> DEFINE rest == [i \in 0..n |-> Remains(q, S, old, i)]
  <2>3. ASSUME NEW i \in 0..n PROVE Remains(q, S, old, i) = Remains(q, S, rest, i)
    <3>1. CASE i = 0
      BY <3>1 DEF Remains
    <3>2. CASE i # 0
      <4>1. i - 1 \in 0..(n - 1) /\ i - 1 \in 0..n
        BY <1>2, <3>2
      <4>2. old[i - 1] = Remains(q, S, old, i - 1)
        BY <2>2, <4>1 DEF Rests
      <4>3. rest[i - 1] = Remains(q, S, old, i - 1)
        BY <4>1
      <4> QED BY <3>2, <4>2, <4>3 DEF Remains
    <3> QED BY <3>1, <3>2
  <2>4. rest = [i \in 0..n |-> Remains(q, S, rest, i)]
    BY <2>3
  <2> HIDE DEF rest
  <2>5. Rests(q, S, n, rest)
    BY <2>4 DEF Rests
  <2> QED BY <1>2, <2>5
<1> QED BY <1>3, <1>4

\* What of the first n elements of q is in s, when those of S are left out.
LeftOf(A, q, S, n, s) ==
  /\ s \in Seq(A) /\ Len(s) \in 0..n
  /\ \A j \in 1..Len(s) : \E i \in 1..n : s[j] = q[i] /\ q[i] \notin S
  /\ \A i \in 1..n : q[i] \notin S => \E j \in 1..Len(s) : s[j] = q[i]
  /\ (\A i, j \in 1..n : q[i] = q[j] => i = j) => \A i, j \in 1..Len(s) : s[i] = s[j] => i = j

\* One element more.
LEMMA LeftOfNext ==
  ASSUME NEW A, NEW q \in Seq(A), NEW S, NEW n \in 1..Len(q), NEW s, LeftOf(A, q, S, n - 1, s)
  PROVE  LeftOf(A, q, S, n, IF q[n] \in S THEN s ELSE Append(s, q[n]))
<1>1. n \in Nat /\ n >= 1 /\ q[n] \in A /\ n - 1 \in Nat
  BY LenProperties, ElementOfSeq
<1>2. CASE q[n] \in S
  <2>1. \A i \in 1..n : i \in 1..(n - 1) \/ i = n
    BY <1>1
  <2>2. \A i \in 1..(n - 1) : i \in 1..n
    BY <1>1
  <2>3. Len(s) \in 0..n
    BY <1>1 DEF LeftOf
  <2> QED BY <1>2, <2>1, <2>2, <2>3 DEF LeftOf
<1>3. CASE q[n] \notin S
  <2> DEFINE p == Append(s, q[n])
             m == Len(s)
  <2>1. s \in Seq(A) /\ m \in 0..(n - 1)
    BY DEF LeftOf
  <2>2. /\ p \in Seq(A) /\ Len(p) = m + 1 /\ p[m + 1] = q[n]
        /\ \A j \in 1..m : p[j] = s[j]
    BY <1>1, <2>1
  <2> HIDE DEF p
  <2>3. \A j \in 1..m : \E i \in 1..(n - 1) : s[j] = q[i] /\ q[i] \notin S
    BY DEF LeftOf
  <2>4. \A i \in 1..(n - 1) : q[i] \notin S => \E j \in 1..m : s[j] = q[i]
    BY DEF LeftOf
  <2>5. (\A i, j \in 1..(n - 1) : q[i] = q[j] => i = j) => \A i, j \in 1..m : s[i] = s[j] => i = j
    BY DEF LeftOf
  <2> HIDE DEF m
  <2>6. /\ \A i \in 1..n : i \in 1..(n - 1) \/ i = n
        /\ \A i \in 1..(n - 1) : i \in 1..n /\ i # n
        /\ \A j \in 1..(m + 1) : j \in 1..m \/ j = m + 1
        /\ \A j \in 1..m : j \in 1..(m + 1)
        /\ n \in 1..n /\ m + 1 \in 1..(m + 1) /\ m + 1 \in 0..n
    BY <1>1, <2>1
  <2>7. \A j \in 1..(m + 1) : \E i \in 1..n : p[j] = q[i] /\ q[i] \notin S
    BY <1>3, <2>2, <2>3, <2>6
  <2>8. \A i \in 1..n : q[i] \notin S => \E j \in 1..(m + 1) : p[j] = q[i]
    BY <2>2, <2>4, <2>6
  <2>9. ASSUME \A i, j \in 1..n : q[i] = q[j] => i = j,
               NEW i \in 1..(m + 1), NEW j \in 1..(m + 1), p[i] = p[j]
        PROVE  i = j
    <3>1. \A a \in 1..m : p[a] # q[n]
      BY <2>2, <2>3, <2>6, <2>9
    <3>2. \A a, b \in 1..m : s[a] = s[b] => a = b
      BY <2>5, <2>6, <2>9
    <3>3. CASE i \in 1..m /\ j \in 1..m
      BY <2>2, <2>9, <3>2, <3>3
    <3>4. CASE i = m + 1
      BY <2>2, <2>6, <2>9, <3>1, <3>4
    <3>5. CASE j = m + 1
      BY <2>2, <2>6, <2>9, <3>1, <3>5
    <3> QED BY <2>6, <3>3, <3>4, <3>5
  <2>10. LeftOf(A, q, S, n, p)
    BY <2>2, <2>6, <2>7, <2>8, <2>9 DEF LeftOf
  <2> QED BY <1>3, <2>10 DEF p
<1> QED BY <1>2, <1>3

\* What Without leaves of q: its elements that are not in S, once if it was there once.
LEMMA WithoutIs ==
  ASSUME NEW A, NEW q \in Seq(A), NEW S
  PROVE  LeftOf(A, q, S, Len(q), Without(q, S))
<1> DEFINE g == CHOOSE rest : Rests(q, S, Len(q), rest)
           Bad == {n \in 0..Len(q) : ~LeftOf(A, q, S, n, g[n])}
<1>1. Without(q, S) = g[Len(q)]
  BY DEF Without, Rests, Remains
<1>2. Len(q) \in Nat
  BY LenProperties
<1>3. Rests(q, S, Len(q), g)
  BY <1>2, RestExists
<1> HIDE DEF g
<1>4. ASSUME NEW n \in 0..Len(q) PROVE g[n] = Remains(q, S, g, n)
  BY <1>3 DEF Rests
<1>5. ASSUME Bad # {} PROVE FALSE
  <2>1. Bad \in SUBSET Nat
    BY <1>2
  <2>2. PICK n \in Bad : \A m \in Bad : n <= m
    BY <1>5, <2>1, LeastNumber
  <2>3. n \in 0..Len(q) /\ ~LeftOf(A, q, S, n, g[n])
    BY <2>2
  <2>4. CASE n = 0
    <3>1. g[0] = <<>>
      BY <1>4, <2>3, <2>4 DEF Remains
    <3>2. LeftOf(A, q, S, 0, <<>>)
      BY DEF LeftOf
    <3> QED BY <2>3, <2>4, <3>1, <3>2
  <2>5. CASE n # 0
    <3>1. n \in 1..Len(q) /\ n - 1 \in 0..Len(q) /\ n - 1 \notin Bad
      BY <1>2, <2>2, <2>3, <2>5
    <3>2. LeftOf(A, q, S, n - 1, g[n - 1])
      BY <3>1
    <3>3. g[n] = IF q[n] \in S THEN g[n - 1] ELSE Append(g[n - 1], q[n])
      BY <1>4, <2>3, <2>5 DEF Remains
    <3> QED BY <2>3, <3>1, <3>2, <3>3, LeftOfNext
  <2> QED BY <2>4, <2>5
<1>6. Len(q) \in 0..Len(q)
  BY <1>2
<1> QED BY <1>1, <1>5, <1>6
====

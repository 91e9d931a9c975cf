---------------------------- MODULE FusionProofs ----------------------------
(***************************************************************************)
(* What FuseResponses does to any list of single-tensor responses: which   *)
(* of them ends up in which fused response, and at which place.  Before    *)
(* that, the facts about recursive functions and about sequences that this *)
(* and the proofs of other modules need.  Induction is stated for sets of  *)
(* numbers: a property is the set of the numbers that have it.             *)
(***************************************************************************)
EXTENDS Integers, Sequences, FiniteSets, SequencesExt, Lists, Fusion,
        WellFoundedInduction, FiniteSetTheorems, TLAPS

\* A set of numbers that has 0, and with a number its successor, has them all.
LEMMA NatSetInduction ==
    ASSUME NEW S, 0 \in S, \A n \in Nat : n \in S => n + 1 \in S
    PROVE  Nat \subseteq S
<1> SUFFICES ASSUME Nat \ S # {} PROVE FALSE
    OBVIOUS
<1>1. PICK m \in Nat \ S : \A k \in Nat \ S : ~ <<k, m>> \in OpToRel(<, Nat)
  BY NatLessThanWellFounded, WFMin
<1>2. \A k \in Nat \ S : ~ (k < m)
  BY <1>1 DEF OpToRel
<1>3. m # 0
  BY <1>1
<1>4. m - 1 \in Nat /\ m - 1 < m /\ (m - 1) + 1 = m
  <2>1. m \in Nat BY <1>1
  <2> QED BY <1>3, <2>1
<1>5. m - 1 \in S
  BY <1>2, <1>4
<1> QED BY <1>1, <1>4, <1>5

\* The same up to n.
LEMMA UpToInduction ==
    ASSUME NEW n \in Nat, NEW S, 0 \in S, \A i \in 1 .. n : i - 1 \in S => i \in S
    PROVE  0 .. n \subseteq S
<1> DEFINE T == {i \in Nat : i > n \/ i \in S}
<1>1. 0 \in T
  OBVIOUS
<1>2. ASSUME NEW i \in Nat, i \in T PROVE i + 1 \in T
  <2>1. CASE i + 1 > n BY <2>1
  <2>2. CASE i + 1 <= n
    <3>1. i + 1 \in 1 .. n /\ (i + 1) - 1 = i /\ i \in S BY <1>2, <2>2
    <3>2. i + 1 \in S BY <3>1
    <3> QED BY <3>2
  <2> QED BY <2>1, <2>2
<1>3. Nat \subseteq T
  <2> HIDE DEF T
  <2> QED BY <1>1, <1>2, NatSetInduction
<1> QED BY <1>3

\* g starts with b, and each of its values follows from the one before by F.
Follows(g, b, n, F) == g[0] = b /\ \A i \in 1 .. n : g[i] = F[i][g[i - 1]]

Recursive(T, b, n, F) == \E g \in [0 .. n -> T] : Follows(g, b, n, F)

\* A function that is defined by recursion on 0 .. n exists.
LEMMA Recursion ==
    \A T : \A b \in T : \A n \in Nat : \A F \in [1 .. n -> [T -> T]] :
        Recursive(T, b, n, F)
<1> SUFFICES ASSUME NEW T, NEW b \in T, NEW n \in Nat,
                    NEW F \in [1 .. n -> [T -> T]]
             PROVE  \E g \in [0 .. n -> T] :
                        g[0] = b /\ \A i \in 1 .. n : g[i] = F[i][g[i - 1]]
    BY DEF Recursive, Follows
<1> DEFINE Good(m, g) == g[0] = b /\ \A i \in 1 .. m : g[i] = F[i][g[i - 1]]
           S == {m \in 0 .. n : \E g \in [0 .. m -> T] : Good(m, g)}
<1>1. 0 \in S
  <2>1. [i \in 0 .. 0 |-> b] \in [0 .. 0 -> T] /\ Good(0, [i \in 0 .. 0 |-> b])
    OBVIOUS
  <2>2. \E g \in [0 .. 0 -> T] : Good(0, g)
    <3> HIDE DEF Good
    <3> QED BY <2>1
  <2> QED BY <2>2
<1>2. ASSUME NEW m \in 1 .. n, m - 1 \in S PROVE m \in S
  <2>1. PICK g \in [0 .. m - 1 -> T] : Good(m - 1, g)
    BY <1>2
  <2> DEFINE h == [i \in 0 .. m |-> IF i = m THEN F[m][g[m - 1]] ELSE g[i]]
  <2>2. m - 1 \in 0 .. m - 1 /\ g[m - 1] \in T /\ F[m][g[m - 1]] \in T
    BY <2>1
  <2>3. h \in [0 .. m -> T]
    BY <2>1, <2>2
  <2>4. h[0] = b
    BY <2>1
  <2>5. ASSUME NEW i \in 1 .. m PROVE h[i] = F[i][h[i - 1]]
    <3>1. h[i - 1] = g[i - 1] BY <2>5
    <3>2. CASE i = m
      <4>1. h[i] = F[m][g[m - 1]] BY <3>2
      <4> QED BY <3>1, <3>2, <4>1
    <3>3. CASE i # m
      <4>1. i \in 1 .. m - 1 /\ h[i] = g[i] BY <3>3
      <4> QED BY <2>1, <3>1, <4>1
    <3> QED BY <3>2, <3>3
  <2>6. Good(m, h)
    BY <2>4, <2>5
  <2>7. \E f \in [0 .. m -> T] : Good(m, f)
    <3> HIDE DEF Good, h
    <3> QED BY <2>3, <2>6
  <2>8. m \in 0 .. n
    OBVIOUS
  <2> HIDE DEF Good
  <2> QED BY <2>7, <2>8
<1>3. 0 .. n \subseteq S
  <2> HIDE DEF S
  <2> QED BY <1>1, <1>2, UpToInduction
<1>4. n \in S
  BY <1>3
<1> QED BY <1>4

-----------------------------------------------------------------------------
\* A sequence is a function on the numbers up to its length.
LEMMA SequenceIsFunction ==
    ASSUME NEW S, NEW s \in Seq(S)
    PROVE  /\ s \in [1 .. Len(s) -> S]
           /\ s = [x \in 1 .. Len(s) |-> s[x]]
           /\ DOMAIN s = 1 .. Len(s)
<1>1. s \in [1 .. Len(s) -> S] OBVIOUS
<1>2. s = [x \in 1 .. Len(s) |-> s[x]] BY <1>1
<1> QED BY <1>1, <1>2

\* The elements of a sequence that has one more at its end.
LEMMA AppendElements ==
    ASSUME NEW S, NEW s \in Seq(S), NEW e \in S
    PROVE  /\ Append(s, e) \in Seq(S)
           /\ Len(s) \in Nat /\ Len(Append(s, e)) = Len(s) + 1
           /\ DOMAIN s = 1 .. Len(s) /\ DOMAIN Append(s, e) = 1 .. Len(s) + 1
           /\ Len(s) + 1 \in DOMAIN Append(s, e)
           /\ Append(s, e)[Len(s) + 1] = e
           /\ \A x \in DOMAIN s : /\ x \in Nat /\ x < Len(s) + 1
                                  /\ x \in DOMAIN Append(s, e)
                                  /\ Append(s, e)[x] = s[x]
           /\ \A x \in DOMAIN Append(s, e) : x = Len(s) + 1 \/ x \in DOMAIN s
<1>1. /\ Len(s) \in Nat /\ DOMAIN s = 1 .. Len(s)
      /\ Append(s, e) \in Seq(S) /\ Len(Append(s, e)) = Len(s) + 1
      /\ Append(s, e)[Len(s) + 1] = e
      /\ \A x \in 1 .. Len(s) : Append(s, e)[x] = s[x]
  OBVIOUS
<1>2. DOMAIN Append(s, e) = 1 .. Len(s) + 1
  BY <1>1
<1> QED BY <1>1, <1>2

\* Sums are what adding from the left gives.
LEMMA SumIs ==
    ASSUME NEW s \in Seq(Nat), NEW w \in [0 .. Len(s) -> Nat], w[0] = 0,
           \A x \in 1 .. Len(s) : w[x] = w[x - 1] + s[x]
    PROVE  SumOf(s) = w[Len(s)]
<1> DEFINE n == Len(s)
           Body(f) == [i \in 0 .. n |-> IF i = 0 THEN 0 ELSE f[i - 1] + s[i]]
           h == CHOOSE f : f = Body(f)
<1>0. n \in Nat /\ \A i \in 1 .. n : s[i] \in Nat OBVIOUS
<1>1. w = Body(w)
  <2>1. w = [i \in 0 .. n |-> w[i]] OBVIOUS
  <2>2. \A i \in 0 .. n : w[i] = IF i = 0 THEN 0 ELSE w[i - 1] + s[i] BY <1>0
  <2> QED BY <2>1, <2>2
<1>2. h = Body(h)
  <2> HIDE DEF Body
  <2> QED BY <1>1
<1>3. SumOf(s) = h[n] BY DEF SumOf
<1> DEFINE S == {m \in 0 .. n : h[m] = w[m]}
<1> HIDE DEF h
<1>4. \A i \in 0 .. n : h[i] = IF i = 0 THEN 0 ELSE h[i - 1] + s[i] BY <1>2
<1>5. 0 \in S BY <1>0, <1>4
<1>6. \A i \in 1 .. n : i - 1 \in S => i \in S
  <2> SUFFICES ASSUME NEW i \in 1 .. n, h[i - 1] = w[i - 1] PROVE h[i] = w[i]
    BY <1>0
  <2>1. i \in 0 .. n /\ i # 0 BY <1>0
  <2>2. h[i] = h[i - 1] + s[i] BY <1>4, <2>1
  <2> QED BY <2>2
<1>7. 0 .. n \subseteq S
  <2> HIDE DEF S, n
  <2> QED BY <1>0, <1>5, <1>6, UpToInduction
<1>8. n \in S BY <1>0, <1>7
<1> QED BY <1>3, <1>8

-----------------------------------------------------------------------------
(* FlattenSeq.                                                             *)

\* FlattenSeq is what concatenating from the left, starting with nothing, gives.
LEMMA FlattenSteps ==
    ASSUME NEW S, NEW seqs \in Seq(Seq(S))
    PROVE  \E g \in [0 .. Len(seqs) -> Seq(S)] :
              /\ g[0] = <<>>
              /\ \A i \in 1 .. Len(seqs) : g[i] = g[i - 1] \o seqs[i]
              /\ FlattenSeq(seqs) = g[Len(seqs)]
<1> DEFINE n == Len(seqs)
           F == [i \in 1 .. n |-> [x \in Seq(S) |-> x \o seqs[i]]]
<1>0. n \in Nat /\ \A i \in 1 .. n : seqs[i] \in Seq(S)
  OBVIOUS
<1>1. F \in [1 .. n -> [Seq(S) -> Seq(S)]]
  BY <1>0
<1>2. PICK g \in [0 .. n -> Seq(S)] :
          g[0] = <<>> /\ \A i \in 1 .. n : g[i] = F[i][g[i - 1]]
  <2>1. n \in Nat BY <1>0
  <2>2. <<>> \in Seq(S) OBVIOUS
  <2> HIDE DEF F, n
  <2>3. Recursive(Seq(S), <<>>, n, F)
    BY <1>1, <2>1, <2>2, Recursion, Zenon
  <2> QED BY <2>3 DEF Recursive, Follows
<1>3. \A i \in 1 .. n : g[i] = g[i - 1] \o seqs[i]
  <2> SUFFICES ASSUME NEW i \in 1 .. n PROVE g[i] = g[i - 1] \o seqs[i]
    OBVIOUS
  <2>1. i - 1 \in 0 .. n BY <1>0
  <2>2. g[i - 1] \in Seq(S) BY <1>2, <2>1
  <2> QED BY <1>2, <2>2
<1>4. CASE n = 0
  BY <1>2, <1>4 DEF FlattenSeq
<1>5. CASE n # 0
  <2> DEFINE Body(f) == [i \in 1 .. n |-> IF i = 1 THEN seqs[i] ELSE f[i - 1] \o seqs[i]]
             h == CHOOSE h : h = Body(h)
             f0 == [i \in 1 .. n |-> g[i]]
  <2>1. f0 = Body(f0)
    <3>1. ASSUME NEW i \in 1 .. n
          PROVE  g[i] = IF i = 1 THEN seqs[i] ELSE f0[i - 1] \o seqs[i]
      <4>1. CASE i = 1
        <5>0. i - 1 = 0 BY <4>1
        <5>1. g[i] = <<>> \o seqs[i] BY <1>2, <1>3, <5>0
        <5> QED BY <1>0, <4>1, <5>1
      <4>2. CASE i # 1
        <5>1. i - 1 \in 1 .. n BY <1>0, <4>2
        <5> QED BY <1>3, <4>2, <5>1
      <4> QED BY <4>1, <4>2
    <3> QED BY <3>1
  <2>2. h = Body(h)
    <3> HIDE DEF Body, f0
    <3> QED BY <2>1
  <2>3. FlattenSeq(seqs) = h[n]
    BY <1>5 DEF FlattenSeq
  <2> HIDE DEF h
  <2>4. ASSUME NEW i \in 1 .. n PROVE h[i] = IF i = 1 THEN seqs[i] ELSE h[i - 1] \o seqs[i]
    BY <2>2
  <2> DEFINE T == {i \in 0 .. n : i = 0 \/ h[i] = g[i]}
  <2>5. 0 \in T BY <1>0
  <2>6. ASSUME NEW i \in 1 .. n, i - 1 \in T PROVE i \in T
    <3>1. CASE i = 1
      <4>1. h[i] = seqs[i] BY <2>4, <3>1
      <4>0. i - 1 = 0 BY <3>1
      <4>2. g[i] = <<>> \o seqs[i] BY <1>2, <1>3, <4>0
      <4>3. h[i] = g[i] BY <1>0, <4>1, <4>2
      <4> QED BY <1>0, <4>3
    <3>2. CASE i # 1
      <4>1. h[i - 1] = g[i - 1] BY <2>6, <3>2
      <4>2. h[i] = g[i] BY <1>3, <2>4, <3>2, <4>1
      <4> QED BY <1>0, <4>2
    <3> QED BY <3>1, <3>2
  <2>7. 0 .. n \subseteq T
    <3> HIDE DEF T
    <3> QED BY <1>0, <2>5, <2>6, UpToInduction
  <2>8. h[n] = g[n]
    BY <1>0, <1>5, <2>7
  <2> QED BY <1>2, <1>3, <2>3, <2>8
<1> QED BY <1>4, <1>5

\* Where the elements of the parts are in the whole: those of part a begin
\* behind place off[a - 1], and no place is left over.
LaidOut(seqs, whole) ==
    \E off \in [0 .. Len(seqs) -> Nat] :
        /\ off[0] = 0 /\ off[Len(seqs)] = Len(whole)
        /\ \A a \in 1 .. Len(seqs) : off[a] = off[a - 1] + Len(seqs[a])
        /\ \A a \in 1 .. Len(seqs) : \A k \in 1 .. Len(seqs[a]) :
              /\ off[a - 1] + k \in 1 .. Len(whole)
              /\ whole[off[a - 1] + k] = seqs[a][k]
        /\ \A j \in 1 .. Len(whole) :
              \E a \in 1 .. Len(seqs) : \E k \in 1 .. Len(seqs[a]) :
                  j = off[a - 1] + k

\* Places in a list that grows from x elements to x + y.
LEMMA Grows ==
    ASSUME NEW x \in Nat, NEW y \in Nat
    PROVE  /\ \A k \in 1 .. y : /\ x + k \in 1 .. x + y
                                /\ ~(x + k <= x) /\ (x + k) - x = k
           /\ \A j \in 1 .. x : j \in 1 .. x + y /\ j <= x
           /\ \A j \in 1 .. x + y : ~(j <= x) =>
                   j - x \in 1 .. y /\ j = x + (j - x)
OBVIOUS

\* FlattenSeq lays its parts out in this way.
LEMMA FlattenLayout ==
    ASSUME NEW S, NEW seqs \in Seq(Seq(S))
    PROVE  FlattenSeq(seqs) \in Seq(S) /\ LaidOut(seqs, FlattenSeq(seqs))
<1> DEFINE n == Len(seqs)
<1>0. n \in Nat /\ \A i \in 1 .. n : seqs[i] \in Seq(S) /\ Len(seqs[i]) \in Nat
  OBVIOUS
<1>1. PICK g \in [0 .. n -> Seq(S)] :
              /\ g[0] = <<>>
              /\ \A i \in 1 .. n : g[i] = g[i - 1] \o seqs[i]
              /\ FlattenSeq(seqs) = g[n]
  BY FlattenSteps
<1> DEFINE off == [i \in 0 .. n |-> Len(g[i])]
           Places(m) ==
              /\ \A a \in 1 .. m : \A k \in 1 .. Len(seqs[a]) :
                      /\ off[a - 1] + k \in 1 .. off[m]
                      /\ g[m][off[a - 1] + k] = seqs[a][k]
              /\ \A j \in 1 .. off[m] :
                      \E a \in 1 .. m : \E k \in 1 .. Len(seqs[a]) : j = off[a - 1] + k
           T == {m \in 0 .. n : Places(m)}
<1>2. off \in [0 .. n -> Nat] /\ off[0] = 0
  BY <1>0, <1>1
<1>3. ASSUME NEW i \in 1 .. n
      PROVE  /\ i - 1 \in 0 .. n /\ i \in 0 .. n
             /\ g[i - 1] \in Seq(S) /\ g[i] \in Seq(S) /\ seqs[i] \in Seq(S)
             /\ off[i] \in Nat /\ off[i - 1] \in Nat /\ Len(seqs[i]) \in Nat
             /\ off[i] = off[i - 1] + Len(seqs[i])
             /\ off[i - 1] = Len(g[i - 1]) /\ off[i] = Len(g[i])
             /\ \A j \in 1 .. off[i] :
                    g[i][j] = IF j <= off[i - 1] THEN g[i - 1][j]
                              ELSE seqs[i][j - off[i - 1]]
  <2>1. i - 1 \in 0 .. n /\ i \in 0 .. n BY <1>0
  <2>2. g[i - 1] \in Seq(S) /\ g[i] = g[i - 1] \o seqs[i] /\ seqs[i] \in Seq(S)
    BY <1>0, <1>1, <2>1
  <2>3. /\ off[i - 1] = Len(g[i - 1]) /\ off[i] = Len(g[i])
        /\ off[i - 1] \in Nat /\ off[i] \in Nat /\ Len(seqs[i]) \in Nat
    BY <1>0, <1>2, <2>1
  <2>4. Len(g[i]) = Len(g[i - 1]) + Len(seqs[i])
    BY <2>2
  <2>5. \A j \in 1 .. Len(g[i - 1]) + Len(seqs[i]) :
          (g[i - 1] \o seqs[i])[j] = IF j <= Len(g[i - 1]) THEN g[i - 1][j]
                                     ELSE seqs[i][j - Len(g[i - 1])]
    BY <2>2
  <2> HIDE DEF off, n
  <2> QED BY <2>1, <2>2, <2>3, <2>4, <2>5
<1> HIDE DEF off
<1>4. 0 \in T
  BY <1>0, <1>2
<1>5. ASSUME NEW m \in 1 .. n, m - 1 \in T PROVE m \in T
  <2>0. Places(m - 1) /\ m \in Nat BY <1>0, <1>5
  <2>1. ASSUME NEW a \in 1 .. m, NEW k \in 1 .. Len(seqs[a])
        PROVE  off[a - 1] + k \in 1 .. off[m] /\ g[m][off[a - 1] + k] = seqs[a][k]
    <3>1. CASE a = m
      <4>0. /\ off[m - 1] \in Nat /\ off[m] = off[m - 1] + Len(seqs[m])
            /\ Len(seqs[m]) \in Nat /\ k \in 1 .. Len(seqs[m])
        BY <1>3, <3>1
      <4>1. off[m - 1] + k \in 1 .. off[m] /\ ~ (off[m - 1] + k <= off[m - 1])
            /\ (off[m - 1] + k) - off[m - 1] = k
        <5> HIDE DEF off
        <5> QED BY <4>0, Grows
      <4> QED BY <1>3, <3>1, <4>1
    <3>2. CASE a # m
      <4>1. a \in 1 .. m - 1 BY <2>0, <3>2
      <4>2. off[a - 1] + k \in 1 .. off[m - 1] /\ g[m - 1][off[a - 1] + k] = seqs[a][k]
        BY <2>0, <4>1
      <4>3. off[a - 1] + k \in 1 .. off[m] /\ off[a - 1] + k <= off[m - 1]
        <5>1. /\ off[m - 1] \in Nat /\ off[m] = off[m - 1] + Len(seqs[m])
              /\ Len(seqs[m]) \in Nat
          BY <1>3
        <5> HIDE DEF off
        <5> QED BY <4>2, <5>1, Grows
      <4> QED BY <1>3, <4>2, <4>3
    <3> QED BY <3>1, <3>2
  <2>2. ASSUME NEW j \in 1 .. off[m]
        PROVE  \E a \in 1 .. m : \E k \in 1 .. Len(seqs[a]) : j = off[a - 1] + k
    <3>1. CASE j <= off[m - 1]
      <4>1. j \in 1 .. off[m - 1] BY <1>3, <3>1
      <4>2. PICK a \in 1 .. m - 1 : \E k \in 1 .. Len(seqs[a]) : j = off[a - 1] + k
        BY <2>0, <4>1
      <4>3. a \in 1 .. m BY <2>0
      <4> QED BY <4>2, <4>3
    <3>2. CASE ~ (j <= off[m - 1])
      <4>0. /\ off[m - 1] \in Nat /\ off[m] = off[m - 1] + Len(seqs[m])
            /\ Len(seqs[m]) \in Nat
        BY <1>3
      <4>1. j - off[m - 1] \in 1 .. Len(seqs[m]) /\ j = off[m - 1] + (j - off[m - 1])
        BY <3>2, <4>0, Grows
      <4>2. m \in 1 .. m BY <2>0
      <4> QED BY <4>1, <4>2
    <3> QED BY <3>1, <3>2
  <2>3. Places(m)
    BY <2>1, <2>2
  <2> QED BY <1>3, <2>3
<1>6. 0 .. n \subseteq T
  <2> HIDE DEF T
  <2> QED BY <1>0, <1>4, <1>5, UpToInduction
<1>7. Places(n)
  <2>1. n \in 0 .. n BY <1>0
  <2> QED BY <1>6, <2>1
<1>8. off[n] = Len(g[n]) /\ g[n] \in Seq(S)
  <2>1. n \in 0 .. n BY <1>0
  <2> QED BY <1>1, <2>1 DEF off
<1>9. FlattenSeq(seqs) \in Seq(S) /\ off[n] = Len(FlattenSeq(seqs))
  BY <1>1, <1>8
<1>10. \A a \in 1 .. n : off[a] = off[a - 1] + Len(seqs[a])
  BY <1>3
<1>11. /\ \A a \in 1 .. n : \A k \in 1 .. Len(seqs[a]) :
            /\ off[a - 1] + k \in 1 .. Len(FlattenSeq(seqs))
            /\ FlattenSeq(seqs)[off[a - 1] + k] = seqs[a][k]
       /\ \A j \in 1 .. Len(FlattenSeq(seqs)) :
            \E a \in 1 .. n : \E k \in 1 .. Len(seqs[a]) : j = off[a - 1] + k
  BY <1>1, <1>7, <1>9
<1> HIDE DEF n
<1>12. \E f \in [0 .. n -> Nat] :
        /\ f[0] = 0 /\ f[n] = Len(FlattenSeq(seqs))
        /\ \A a \in 1 .. n : f[a] = f[a - 1] + Len(seqs[a])
        /\ \A a \in 1 .. n : \A k \in 1 .. Len(seqs[a]) :
              /\ f[a - 1] + k \in 1 .. Len(FlattenSeq(seqs))
              /\ FlattenSeq(seqs)[f[a - 1] + k] = seqs[a][k]
        /\ \A j \in 1 .. Len(FlattenSeq(seqs)) :
              \E a \in 1 .. n : \E k \in 1 .. Len(seqs[a]) : j = f[a - 1] + k
  <2> USE <1>2
  <2> WITNESS off \in [0 .. n -> Nat]
  <2> QED BY <1>2, <1>9, <1>10, <1>11
<1>13. LaidOut(seqs, FlattenSeq(seqs)) BY <1>12 DEF LaidOut, n
<1> QED BY <1>9, <1>13

-----------------------------------------------------------------------------
(* Ascending and At.                                                       *)

Increasing(p) == \A x, y \in DOMAIN p : x < y => p[x] < p[y]

\* A set of numbers that is not empty has a least element.
LEMMA LeastElement ==
    ASSUME NEW S \in SUBSET Nat, S # {}
    PROVE  \E m \in S : \A k \in S : m <= k
<1>1. PICK m \in S : \A k \in S : ~ <<k, m>> \in OpToRel(<, Nat)
  BY NatLessThanWellFounded, WFMin
<1>2. \A k \in S : ~ (k < m)
  BY <1>1 DEF OpToRel
<1> QED BY <1>2

\* How many elements of S are below b.
Below(S, b) == {c \in S : c < b}

\* The elements of a finite set of numbers have different numbers of elements
\* below them, from none to all but one.
LEMMA BelowIsFinite ==
    ASSUME NEW S \in SUBSET Nat, IsFiniteSet(S), NEW b \in S
    PROVE  /\ IsFiniteSet(Below(S, b))
           /\ Cardinality(Below(S, b)) \in 0 .. Cardinality(S) - 1
           /\ \A c \in S : b < c => Cardinality(Below(S, b)) < Cardinality(Below(S, c))
<1>1. \A c \in S : /\ Below(S, c) \subseteq S /\ IsFiniteSet(Below(S, c))
                   /\ Cardinality(Below(S, c)) \in Nat
  BY FS_Subset, FS_CardinalityType DEF Below
<1>2. Cardinality(Below(S, b)) < Cardinality(S)
  <2>1. b \notin Below(S, b) BY DEF Below
  <2>2. Below(S, b) \subseteq S /\ Below(S, b) # S BY <1>1, <2>1
  <2> QED BY <2>2, FS_Subset, FS_CardinalityType
<1>3. ASSUME NEW c \in S, b < c
      PROVE  Cardinality(Below(S, b)) < Cardinality(Below(S, c))
  <2>1. ASSUME NEW x \in Below(S, b) PROVE x \in Below(S, c)
    <3>1. x \in Nat /\ b \in Nat /\ c \in Nat /\ x \in S /\ x < b BY DEF Below
    <3> QED BY <1>3, <3>1 DEF Below
  <2>2. Below(S, b) # Below(S, c) BY <1>3 DEF Below
  <2> QED BY <1>1, <2>1, <2>2, FS_Subset
<1>4. Cardinality(S) \in Nat BY FS_CardinalityType
<1> QED BY <1>1, <1>2, <1>3, <1>4

LEMMA EveryRank ==
    ASSUME NEW S \in SUBSET Nat, IsFiniteSet(S), NEW k \in 1 .. Cardinality(S)
    PROVE  \E b \in S : Cardinality(Below(S, b)) = k - 1
<1> DEFINE T == {n \in Nat : \A U \in SUBSET Nat :
                    IsFiniteSet(U) /\ Cardinality(U) = n =>
                        \A j \in 1 .. n : \E b \in U : Cardinality(Below(U, b)) = j - 1}
<1>1. 0 \in T
  OBVIOUS
<1>2. ASSUME NEW n \in Nat, n \in T PROVE n + 1 \in T
  <2> SUFFICES ASSUME NEW U \in SUBSET Nat, IsFiniteSet(U), Cardinality(U) = n + 1,
                      NEW j \in 1 .. n + 1
               PROVE  \E b \in U : Cardinality(Below(U, b)) = j - 1
    OBVIOUS
  <2>1. U # {} BY FS_EmptySet
  <2>2. PICK m \in U : \A c \in U : m <= c
    BY <2>1, LeastElement
  <2> DEFINE V == U \ {m}
  <2>3. V \in SUBSET Nat /\ IsFiniteSet(V) /\ Cardinality(V) = n
    <3>1. IsFiniteSet(V) /\ Cardinality(V) = (n + 1) - 1 BY FS_RemoveElement
    <3> QED BY <3>1
  <2>4. CASE j = 1
    <3>1. Below(U, m) = {}
      <4>1. \A c \in U : ~ (c < m) BY <2>2
      <4> QED BY <4>1 DEF Below
    <3> QED BY <2>4, <3>1, FS_EmptySet
  <2>5. CASE j # 1
    <3>1. j - 1 \in 1 .. n BY <2>5
    <3>2. PICK b \in V : Cardinality(Below(V, b)) = (j - 1) - 1
      BY <1>2, <2>3, <3>1
    <3>3. Below(U, b) = Below(V, b) \cup {m}
      <4>1. m < b BY <2>2
      <4> QED BY <4>1 DEF Below
    <3>4. IsFiniteSet(Below(V, b)) /\ m \notin Below(V, b)
      BY <2>3, FS_Subset DEF Below
    <3>5. Cardinality(Below(U, b)) = Cardinality(Below(V, b)) + 1
      BY <3>3, <3>4, FS_AddElement
    <3> QED BY <3>1, <3>2, <3>5
  <2> QED BY <2>4, <2>5
<1>3. Nat \subseteq T
  <2> HIDE DEF T
  <2> QED BY <1>1, <1>2, NatSetInduction
<1> QED BY <1>3, FS_CardinalityType

\* Ascending enumerates a finite set of numbers in order.
LEMMA AscendingEnumerates ==
    ASSUME NEW S \in SUBSET Nat, IsFiniteSet(S), NEW a, a = Ascending(S)
    PROVE  /\ a \in Seq(S) /\ Len(a) = Cardinality(S)
           /\ Increasing(a)
           /\ \A b \in S : \E k \in DOMAIN a : a[k] = b
<1> DEFINE n == Cardinality(S)
           R(b) == Cardinality(Below(S, b))
<1>1. n \in Nat BY FS_CardinalityType
<1>2. \A b \in S : R(b) \in 0 .. n - 1 /\ \A c \in S : b < c => R(b) < R(c)
  BY BelowIsFinite
<1>3. \A k \in 1 .. n : \E b \in S : R(b) = k - 1
  BY EveryRank
<1>4. a = [k \in 1 .. n |-> CHOOSE b \in S : R(b) = k - 1]
  BY DEF Ascending, Below
<1> HIDE DEF R, n
<1>5. \A k \in 1 .. n : a[k] \in S /\ R(a[k]) = k - 1
  BY <1>3, <1>4
<1>6. a \in Seq(S) /\ Len(a) = n /\ DOMAIN a = 1 .. n
  BY <1>1, <1>4, <1>5
<1>7. ASSUME NEW x \in 1 .. n, NEW y \in 1 .. n, x < y PROVE a[x] < a[y]
  <2>0. a[x] \in S /\ a[y] \in S /\ R(a[x]) = x - 1 /\ R(a[y]) = y - 1 BY <1>5
  <2>9. x \in Int /\ y \in Int BY <1>1
  <2>8. R(a[x]) < R(a[y]) BY <1>7, <2>0, <2>9
  <2>1. R(a[x]) < R(a[y]) /\ a[x] \in Nat /\ a[y] \in Nat BY <2>0, <2>8
  <2>2. CASE a[x] = a[y] BY <1>1, <1>5, <1>7, <2>2
  <2>3. CASE a[y] < a[x]
    <3>1. R(a[y]) < R(a[x]) BY <1>2, <1>5, <2>3
    <3> QED BY <1>1, <1>5, <2>1, <3>1
  <2> QED BY <2>1, <2>2, <2>3
<1>8. ASSUME NEW b \in S PROVE \E k \in 1 .. n : a[k] = b
  <2>1. R(b) + 1 \in 1 .. n /\ (R(b) + 1) - 1 = R(b) BY <1>1, <1>2
  <2>2. a[R(b) + 1] \in S /\ R(a[R(b) + 1]) = R(b) BY <1>5, <2>1
  <2>3. PICK c \in S : c = a[R(b) + 1] BY <2>2
  <2>4. c = b
    <3>1. R(c) = R(b) /\ R(b) \in Int /\ c \in Nat /\ b \in Nat BY <1>2, <2>2, <2>3
    <3>2. ~ (c < b) /\ ~ (b < c) BY <1>2, <3>1
    <3> QED BY <3>1, <3>2
  <2> QED BY <2>1, <2>3, <2>4
<1> QED BY <1>6, <1>7, <1>8 DEF Increasing, n

\* t has the elements of s at the places P, each from the place that f gives.
Selects(t, s, P) ==
    \E f \in [1 .. Len(t) -> P] :
        /\ Increasing(f)
        /\ \A k \in 1 .. Len(t) : t[k] = s[f[k]]
        /\ \A i \in P : \E k \in 1 .. Len(t) : f[k] = i

\* At selects the elements at the places.
LEMMA AtPlaces ==
    ASSUME NEW X, NEW s \in Seq(X), NEW P \in SUBSET (DOMAIN s),
           NEW t, t = At(s, P)
    PROVE  t \in Seq(X) /\ IsFiniteSet(P) /\ Len(t) = Cardinality(P) /\ Selects(t, s, P)
<1> DEFINE f == Ascending(P)
<1>1. DOMAIN s = 1 .. Len(s) /\ Len(s) \in Nat /\ \A i \in DOMAIN s : s[i] \in X
  OBVIOUS
<1>2. P \in SUBSET Nat /\ IsFiniteSet(P)
  <2>1. IsFiniteSet(1 .. Len(s)) BY <1>1, FS_Interval
  <2> QED BY <1>1, <2>1, FS_Subset
<1>3. /\ f \in Seq(P) /\ Len(f) = Cardinality(P)
      /\ Increasing(f)
      /\ \A b \in P : \E k \in DOMAIN f : f[k] = b
  BY <1>2, AscendingEnumerates
<1>4. t = [i \in DOMAIN f |-> s[f[i]]]
  BY DEF At
<1> HIDE DEF f
<1>5. DOMAIN f = 1 .. Len(f) /\ Len(f) \in Nat /\ f \in [1 .. Len(f) -> P]
  BY <1>3, SequenceIsFunction
<1>6. \A k \in 1 .. Len(f) : t[k] = s[f[k]] /\ s[f[k]] \in X
  BY <1>1, <1>4, <1>5
<1>7. t \in Seq(X) /\ Len(t) = Len(f)
  <2>1. t = [i \in 1 .. Len(f) |-> s[f[i]]] BY <1>4, <1>5
  <2> QED BY <1>5, <1>6, <2>1
<1>8. /\ Increasing(f)
      /\ \A k \in 1 .. Len(t) : t[k] = s[f[k]]
      /\ \A i \in P : \E k \in 1 .. Len(t) : f[k] = i
  BY <1>3, <1>5, <1>6, <1>7
<1>9. f \in [1 .. Len(t) -> P] BY <1>5, <1>7
<1>10. Selects(t, s, P) BY <1>8, <1>9 DEF Selects
<1> QED BY <1>2, <1>3, <1>7, <1>10

\* At keeps the elements, keeps them different, and can keep all or nothing.
LEMMA AtElements ==
    ASSUME NEW X, NEW s \in Seq(X), NEW P \in SUBSET (DOMAIN s)
    PROVE  /\ At(s, P) \in Seq(X)
           /\ ToSet(At(s, P)) = {s[i] : i \in P}
           /\ \A k \in DOMAIN At(s, P) : \E i \in P : At(s, P)[k] = s[i]
           /\ IsInjective(s) => IsInjective(At(s, P))
           /\ P = {} => At(s, P) = <<>>
           /\ P = DOMAIN s => At(s, P) = s
           /\ IsFiniteSet(P) /\ Len(At(s, P)) = Cardinality(P)
<1> PICK t : t = At(s, P) OBVIOUS
<1>1. t \in Seq(X) /\ IsFiniteSet(P) /\ Len(t) = Cardinality(P) /\ Selects(t, s, P)
  BY AtPlaces
<1>2. PICK f \in [1 .. Len(t) -> P] :
            /\ Increasing(f)
            /\ \A k \in 1 .. Len(t) : t[k] = s[f[k]]
            /\ \A i \in P : \E k \in 1 .. Len(t) : f[k] = i
  BY <1>1 DEF Selects
<1>3. /\ DOMAIN t = 1 .. Len(t) /\ Len(t) \in Nat
      /\ DOMAIN s = 1 .. Len(s) /\ Len(s) \in Nat
      /\ \A k \in 1 .. Len(t) : f[k] \in P /\ f[k] \in DOMAIN s /\ f[k] \in Nat
  <2>1. /\ DOMAIN t = 1 .. Len(t) /\ Len(t) \in Nat
        /\ DOMAIN s = 1 .. Len(s) /\ Len(s) \in Nat
    BY <1>1
  <2>2. \A k \in 1 .. Len(t) : f[k] \in P OBVIOUS
  <2> QED BY <2>1, <2>2
<1>4. ToSet(t) = {s[i] : i \in P}
  <2>1. ASSUME NEW x \in ToSet(t) PROVE x \in {s[i] : i \in P}
    <3>1. PICK k \in 1 .. Len(t) : x = t[k] BY <1>3 DEF ToSet
    <3> QED BY <1>2, <1>3, <3>1
  <2>2. ASSUME NEW i \in P PROVE s[i] \in ToSet(t)
    <3>1. PICK k \in 1 .. Len(t) : f[k] = i BY <1>2
    <3>2. t[k] = s[i] BY <1>2, <3>1
    <3> QED BY <1>3, <3>2 DEF ToSet
  <2> QED BY <2>1, <2>2
<1>5. ASSUME IsInjective(s) PROVE IsInjective(t)
  <2> SUFFICES ASSUME NEW k \in 1 .. Len(t), NEW m \in 1 .. Len(t), t[k] = t[m], k < m
               PROVE  FALSE
    <3>1. ASSUME NEW k \in 1 .. Len(t), NEW m \in 1 .. Len(t), t[k] = t[m] PROVE k = m
      <4>1. ~ (k < m) /\ ~ (m < k) BY <3>1
      <4>2. k \in Int /\ m \in Int OBVIOUS
      <4> QED BY <4>1, <4>2
    <3> QED BY <1>3, <3>1 DEF IsInjective
  <2>1. f[k] < f[m] BY <1>2 DEF Increasing
  <2>2. s[f[k]] = s[f[m]] BY <1>2
  <2>3. f[k] = f[m] BY <1>3, <1>5, <2>2 DEF IsInjective
  <2> QED BY <1>3, <2>1, <2>3
<1>6. ASSUME P = {} PROVE t = <<>>
  <2>1. Len(t) = 0 BY <1>1, <1>6, FS_EmptySet
  <2> QED BY <1>1, <2>1
<1>7. ASSUME P = DOMAIN s PROVE t = s
  <2> DEFINE n == Len(s)
             S == {k \in 0 .. n : k = 0 \/ f[k] >= k}
  <2>1. Len(t) = n
    <3>1. Cardinality(1 .. n) = n
      <4> HIDE DEF n
      <4>0. n \in Int /\ 1 \in Int /\ n \in Nat BY <1>3 DEF n
      <4>1. Cardinality(1 .. n) = IF 1 > n THEN 0 ELSE n - 1 + 1 BY <4>0, FS_Interval
      <4> QED BY <4>0, <4>1
    <3> QED BY <1>1, <1>3, <1>7, <3>1
  <2>2. \A k \in 1 .. n : f[k] \in 1 .. n
    BY <1>3, <1>7, <2>1
  <2> HIDE DEF n
  <2>3. n \in Nat BY <1>3 DEF n
  <2>4. \A k, m \in 1 .. n : k < m => f[k] < f[m]
    BY <1>2, <2>1 DEF Increasing
  <2>5. 0 .. n \subseteq S
    <3>1. 0 \in S BY <2>3
    <3>2. ASSUME NEW k \in 1 .. n, k - 1 \in S PROVE k \in S
      <4>1. CASE k = 1 BY <2>2, <2>3, <4>1
      <4>2. CASE k # 1
        <5>1. k - 1 \in 1 .. n /\ k - 1 < k /\ f[k - 1] >= k - 1 BY <2>3, <3>2, <4>2
        <5>2. f[k - 1] < f[k] BY <2>4, <5>1
        <5>3. f[k - 1] \in Nat /\ f[k] \in Nat BY <2>2, <5>1
        <5> QED BY <2>3, <5>1, <5>2, <5>3
      <4> QED BY <4>1, <4>2
    <3> HIDE DEF S
    <3> QED BY <2>3, <3>1, <3>2, UpToInduction
  <2>6. \A k \in 1 .. n : f[k] >= k
    BY <2>3, <2>5
  <2> DEFINE D == {d \in 0 .. n : d = n \/ f[n - d] = n - d}
  <2>7. 0 .. n \subseteq D
    <3>1. 0 \in D
      <4>1. CASE n = 0 BY <4>1
      <4>2. CASE n # 0
        <5>1. n - 0 = n /\ n \in 1 .. n BY <2>3, <4>2
        <5>2. f[n] = n BY <2>2, <2>3, <2>6, <5>1
        <5> QED BY <2>3, <5>1, <5>2
      <4> QED BY <4>1, <4>2
    <3>2. ASSUME NEW d \in 1 .. n, d - 1 \in D PROVE d \in D
      <4>1. CASE d = n BY <2>3, <4>1
      <4>2. CASE d # n
        <5>1. /\ n - d \in 1 .. n /\ n - (d - 1) \in 1 .. n
              /\ n - (d - 1) = (n - d) + 1 /\ d - 1 # n
          BY <2>3, <4>2
        <5>2. f[(n - d) + 1] = (n - d) + 1 BY <3>2, <5>1
        <5>3. f[n - d] < f[(n - d) + 1] BY <2>3, <2>4, <5>1
        <5>4. f[n - d] >= n - d /\ f[n - d] \in 1 .. n BY <2>2, <2>6, <5>1
        <5>5. f[n - d] = n - d BY <2>3, <5>1, <5>2, <5>3, <5>4
        <5> QED BY <2>3, <5>5
      <4> QED BY <4>1, <4>2
    <3> HIDE DEF D
    <3> QED BY <2>3, <3>1, <3>2, UpToInduction
  <2>8. ASSUME NEW k \in 1 .. n PROVE f[k] = k
    <3>1. n - k \in 0 .. n /\ n - k # n /\ n - (n - k) = k BY <2>3
    <3>2. n - k \in D BY <2>7, <3>1
    <3> QED BY <3>1, <3>2
  <2>9. \A k \in 1 .. n : t[k] = s[k]
    BY <1>2, <2>1, <2>8
  <2>10. t = [k \in 1 .. n |-> t[k]] /\ s = [k \in 1 .. n |-> s[k]]
    BY <1>1, <2>1, SequenceIsFunction DEF n
  <2> QED BY <2>9, <2>10
<1>8. \A k \in DOMAIN t : \E i \in P : t[k] = s[i]
  BY <1>2, <1>3
<1> QED BY <1>1, <1>4, <1>5, <1>6, <1>7, <1>8

-----------------------------------------------------------------------------
(* Elements and sets of sequences.                                         *)

\* What Tail does to each element.
LEMMA TailElements ==
    ASSUME NEW S, NEW s \in Seq(S), s # <<>>
    PROVE  /\ Tail(s) \in Seq(S)
           /\ Len(s) \in Nat \ {0} /\ DOMAIN s = 1 .. Len(s) /\ 1 \in DOMAIN s
           /\ Head(s) = s[1] /\ Head(s) \in S
           /\ Len(Tail(s)) = Len(s) - 1 /\ DOMAIN Tail(s) = 1 .. Len(s) - 1
           /\ \A k \in DOMAIN Tail(s) : k + 1 \in DOMAIN s /\ Tail(s)[k] = s[k + 1]
           /\ \A i \in DOMAIN s : i # 1 => i - 1 \in DOMAIN Tail(s) /\ Tail(s)[i - 1] = s[i]
<1>1. Len(s) \in Nat \ {0} /\ DOMAIN s = 1 .. Len(s)
  OBVIOUS
<1>2. Tail(s) \in Seq(S) /\ Len(Tail(s)) = Len(s) - 1
  OBVIOUS
<1>3. Head(s) = s[1] /\ 1 \in DOMAIN s BY <1>1
<1>4. DOMAIN Tail(s) = 1 .. Len(s) - 1
  BY <1>2
<1>5. \A k \in 1 .. Len(s) - 1 : k + 1 \in DOMAIN s /\ Tail(s)[k] = s[k + 1]
  BY <1>1
<1>6. \A i \in DOMAIN s : i # 1 => i - 1 \in 1 .. Len(s) - 1 /\ Tail(s)[i - 1] = s[i]
  BY <1>1
<1>7. s[1] \in S BY <1>1
<1> QED BY <1>1, <1>2, <1>3, <1>4, <1>5, <1>6, <1>7

\* What \o does to each element.
LEMMA ConcatElements ==
    ASSUME NEW S, NEW s \in Seq(S), NEW t \in Seq(S)
    PROVE  /\ s \o t \in Seq(S)
           /\ Len(s) \in Nat /\ Len(t) \in Nat /\ Len(s \o t) = Len(s) + Len(t)
           /\ DOMAIN s = 1 .. Len(s) /\ DOMAIN t = 1 .. Len(t)
           /\ DOMAIN (s \o t) = 1 .. Len(s) + Len(t)
           /\ \A k \in DOMAIN s : k \in DOMAIN (s \o t) /\ (s \o t)[k] = s[k]
           /\ \A l \in DOMAIN t : /\ Len(s) + l \in DOMAIN (s \o t)
                                  /\ (s \o t)[Len(s) + l] = t[l]
           /\ \A k \in DOMAIN (s \o t) : \/ k \in DOMAIN s
                                         \/ \E l \in DOMAIN t : k = Len(s) + l
<1>1. /\ Len(s) \in Nat /\ Len(t) \in Nat
      /\ DOMAIN s = 1 .. Len(s) /\ DOMAIN t = 1 .. Len(t)
  OBVIOUS
<1>2. s \o t \in Seq(S) /\ Len(s \o t) = Len(s) + Len(t)
  OBVIOUS
<1>3. DOMAIN (s \o t) = 1 .. Len(s) + Len(t)
  BY <1>2
<1>4. \A k \in 1 .. Len(s) : (s \o t)[k] = s[k]
  BY <1>1
<1>5. \A l \in 1 .. Len(t) : (s \o t)[Len(s) + l] = t[l]
  BY <1>1
<1>6. \A k \in 1 .. Len(s) + Len(t) :
         k \in 1 .. Len(s) \/ \E l \in 1 .. Len(t) : k = Len(s) + l
  <2> TAKE k \in 1 .. Len(s) + Len(t)
  <2>1. k \in 1 .. Len(s) \/ (k - Len(s) \in 1 .. Len(t) /\ k = Len(s) + (k - Len(s)))
    BY <1>1
  <2> QED BY <2>1
<1>7. /\ \A k \in 1 .. Len(s) : k \in 1 .. Len(s) + Len(t)
      /\ \A l \in 1 .. Len(t) : Len(s) + l \in 1 .. Len(s) + Len(t)
  BY <1>1
<1> HIDE <1>2
<1> QED BY <1>1, <1>2, <1>3, <1>4, <1>5, <1>6, <1>7

\* How many elements an interval from 1 has, and that its subsets are finite.
LEMMA UpTo ==
    ASSUME NEW n \in Nat
    PROVE  /\ IsFiniteSet(1 .. n) /\ Cardinality(1 .. n) = n
           /\ \A P \in SUBSET (1 .. n) :
                 IsFiniteSet(P) /\ Cardinality(P) \in Nat /\ Cardinality(P) <= n
<1>1. IsFiniteSet(1 .. n) /\ Cardinality(1 .. n) = n
  <2>1. 1 \in Int /\ n \in Int OBVIOUS
  <2>2. /\ IsFiniteSet(1 .. n)
        /\ Cardinality(1 .. n) = IF 1 > n THEN 0 ELSE n - 1 + 1
    BY <2>1, FS_Interval
  <2> QED BY <2>2
<1>2. ASSUME NEW P \in SUBSET (1 .. n)
      PROVE  IsFiniteSet(P) /\ Cardinality(P) \in Nat /\ Cardinality(P) <= n
  <2>1. IsFiniteSet(P) /\ Cardinality(P) <= Cardinality(1 .. n)
    BY <1>1, FS_Subset
  <2> QED BY <1>1, <2>1, FS_CardinalityType
<1> QED BY <1>1, <1>2

\* The empty sequence has no elements.
LEMMA NoElements == ToSet(<<>>) = {} /\ IsInjective(<<>>) /\ <<>> \in Seq({})
<1>1. DOMAIN <<>> = {} OBVIOUS
<1> QED BY <1>1 DEF ToSet, IsInjective

\* The elements of a longer sequence, and when they are all different.
LEMMA AppendSet ==
    ASSUME NEW S, NEW s \in Seq(S), NEW e \in S
    PROVE  /\ ToSet(Append(s, e)) = ToSet(s) \cup {e}
           /\ IsInjective(s) /\ e \notin ToSet(s) => IsInjective(Append(s, e))
<1> DEFINE t == Append(s, e)
<1>1. /\ Len(s) + 1 \in DOMAIN t /\ t[Len(s) + 1] = e
      /\ \A x \in DOMAIN s : x \in DOMAIN t /\ t[x] = s[x]
      /\ \A x \in DOMAIN t : x = Len(s) + 1 \/ x \in DOMAIN s
  BY AppendElements
<1> HIDE DEF t
<1>2. ToSet(t) = ToSet(s) \cup {e}
  BY <1>1 DEF ToSet
<1>3. IsInjective(s) /\ e \notin ToSet(s) => IsInjective(t)
  BY <1>1 DEF ToSet, IsInjective
<1> QED BY <1>2, <1>3 DEF t

\* The elements of the tail.
LEMMA TailSet ==
    ASSUME NEW S, NEW s \in Seq(S), s # <<>>
    PROVE  /\ ToSet(s) = {Head(s)} \cup ToSet(Tail(s))
           /\ IsInjective(s) => IsInjective(Tail(s)) /\ Head(s) \notin ToSet(Tail(s))
<1> DEFINE t == Tail(s)
<1>1. /\ 1 \in DOMAIN s /\ Head(s) = s[1]
      /\ DOMAIN t = 1 .. Len(s) - 1 /\ Len(s) \in Nat
      /\ \A k \in DOMAIN t : k + 1 \in DOMAIN s /\ t[k] = s[k + 1]
      /\ \A i \in DOMAIN s : i # 1 => i - 1 \in DOMAIN t /\ t[i - 1] = s[i]
  BY TailElements
<1> HIDE DEF t
<1>2. ToSet(s) = {Head(s)} \cup ToSet(t)
  <2>1. ASSUME NEW x \in ToSet(s) PROVE x = Head(s) \/ x \in ToSet(t)
    <3>1. PICK i \in DOMAIN s : x = s[i] BY DEF ToSet
    <3> QED BY <1>1, <3>1 DEF ToSet
  <2>2. ASSUME NEW x \in ToSet(t) PROVE x \in ToSet(s)
    <3>1. PICK k \in DOMAIN t : x = t[k] BY DEF ToSet
    <3> QED BY <1>1, <3>1 DEF ToSet
  <2>3. Head(s) \in ToSet(s) BY <1>1 DEF ToSet
  <2> QED BY <2>1, <2>2, <2>3
<1>3. ASSUME IsInjective(s) PROVE IsInjective(t) /\ Head(s) \notin ToSet(t)
  <2>1. \A i, j \in DOMAIN s : s[i] = s[j] => i = j BY <1>3 DEF IsInjective
  <2>2. ASSUME NEW k \in DOMAIN t, NEW l \in DOMAIN t, t[k] = t[l] PROVE k = l
    <3>1. k + 1 = l + 1 BY <1>1, <2>1, <2>2
    <3>2. k \in Int /\ l \in Int BY <1>1
    <3> QED BY <3>1, <3>2
  <2>3. ASSUME NEW k \in DOMAIN t, t[k] = Head(s) PROVE FALSE
    <3>1. k + 1 = 1 BY <1>1, <2>1, <2>3
    <3>2. k \in Int /\ k >= 1 BY <1>1
    <3> QED BY <3>1, <3>2
  <2> QED BY <2>2, <2>3 DEF IsInjective, ToSet
<1> QED BY <1>2, <1>3 DEF t

\* The elements of two sequences together.
LEMMA ConcatSet ==
    ASSUME NEW S, NEW s \in Seq(S), NEW t \in Seq(S)
    PROVE  /\ ToSet(s \o t) = ToSet(s) \cup ToSet(t)
           /\ IsInjective(s) /\ IsInjective(t) /\ ToSet(s) \cap ToSet(t) = {}
                 => IsInjective(s \o t)
<1> DEFINE u == s \o t
<1>1. /\ Len(s) \in Nat /\ DOMAIN t = 1 .. Len(t)
      /\ \A k \in DOMAIN s : k \in DOMAIN u /\ u[k] = s[k]
      /\ \A l \in DOMAIN t : Len(s) + l \in DOMAIN u /\ u[Len(s) + l] = t[l]
      /\ \A k \in DOMAIN u : k \in DOMAIN s \/ \E l \in DOMAIN t : k = Len(s) + l
  BY ConcatElements
<1> HIDE DEF u
<1>2. ToSet(u) = ToSet(s) \cup ToSet(t)
  <2>1. ASSUME NEW x \in ToSet(u) PROVE x \in ToSet(s) \cup ToSet(t)
    <3>1. PICK k \in DOMAIN u : x = u[k] BY DEF ToSet
    <3> QED BY <1>1, <3>1 DEF ToSet
  <2>2. ASSUME NEW x \in ToSet(s) PROVE x \in ToSet(u)
    BY <1>1 DEF ToSet
  <2>3. ASSUME NEW x \in ToSet(t) PROVE x \in ToSet(u)
    <3>1. PICK l \in DOMAIN t : x = t[l] BY DEF ToSet
    <3> QED BY <1>1, <3>1 DEF ToSet
  <2> QED BY <2>1, <2>2, <2>3
<1>3. ASSUME IsInjective(s), IsInjective(t), ToSet(s) \cap ToSet(t) = {}
      PROVE  IsInjective(u)
  <2>1. /\ \A i, j \in DOMAIN s : s[i] = s[j] => i = j
        /\ \A i, j \in DOMAIN t : t[i] = t[j] => i = j
        /\ \A i \in DOMAIN s, j \in DOMAIN t : s[i] # t[j]
    BY <1>3 DEF IsInjective, ToSet
  <2> SUFFICES ASSUME NEW k \in DOMAIN u, NEW l \in DOMAIN u, u[k] = u[l]
               PROVE  k = l
    BY DEF IsInjective
  <2>2. CASE k \in DOMAIN s /\ l \in DOMAIN s
    BY <1>1, <2>1, <2>2
  <2>3. ASSUME NEW x \in DOMAIN t, k = Len(s) + x, l \in DOMAIN s PROVE FALSE
    BY <1>1, <2>1, <2>3
  <2>4. ASSUME NEW y \in DOMAIN t, l = Len(s) + y, k \in DOMAIN s PROVE FALSE
    BY <1>1, <2>1, <2>4
  <2>5. ASSUME NEW x \in DOMAIN t, NEW y \in DOMAIN t, k = Len(s) + x, l = Len(s) + y
        PROVE  k = l
    BY <1>1, <2>1, <2>5
  <2> QED BY <1>1, <2>2, <2>3, <2>4, <2>5
<1> QED BY <1>2, <1>3 DEF u

\* Only the empty sequence has length 0.
LEMMA EmptyByLength ==
    ASSUME NEW S, NEW s \in Seq(S), Len(s) = 0
    PROVE  s = <<>>
OBVIOUS

\* A product of natural numbers is one.
LEMMA ProductIsNatural ==
    ASSUME NEW s \in Seq(Nat)
    PROVE  ProductOf(s) \in Nat
<1> DEFINE n == Len(s)
           F == [i \in 1 .. n |-> [x \in Nat |-> x * s[i]]]
           Body(f) == [i \in 0 .. n |-> IF i = 0 THEN 1 ELSE f[i - 1] * s[i]]
           h == CHOOSE f : f = Body(f)
<1>0. n \in Nat /\ \A i \in 1 .. n : s[i] \in Nat
  OBVIOUS
<1>1. F \in [1 .. n -> [Nat -> Nat]]
  <2>1. \A i \in 1 .. n : \A x \in Nat : x * s[i] \in Nat BY <1>0
  <2> QED BY <2>1
<1>2. PICK g \in [0 .. n -> Nat] :
          g[0] = 1 /\ \A i \in 1 .. n : g[i] = F[i][g[i - 1]]
  <2>1. n \in Nat BY <1>0
  <2>2. 1 \in Nat OBVIOUS
  <2> HIDE DEF F, n
  <2>3. Recursive(Nat, 1, n, F)
    BY <1>1, <2>1, <2>2, Recursion, Zenon
  <2> QED BY <2>3 DEF Recursive, Follows
<1>3. \A i \in 1 .. n : g[i] = g[i - 1] * s[i]
  <2> SUFFICES ASSUME NEW i \in 1 .. n PROVE g[i] = g[i - 1] * s[i]
    OBVIOUS
  <2>1. i - 1 \in 0 .. n BY <1>0
  <2>2. g[i - 1] \in Nat BY <1>2, <2>1
  <2> QED BY <1>2, <2>2
<1>4. g = Body(g)
  <2>1. g = [i \in 0 .. n |-> g[i]] BY <1>2
  <2>2. \A i \in 0 .. n : g[i] = IF i = 0 THEN 1 ELSE g[i - 1] * s[i]
    BY <1>0, <1>2, <1>3
  <2> QED BY <2>1, <2>2
<1>5. h = Body(h)
  <2> HIDE DEF Body
  <2> QED BY <1>4
<1>6. ProductOf(s) = h[n]
  BY DEF ProductOf
<1> DEFINE S == {m \in 0 .. n : h[m] = g[m]}
<1> HIDE DEF h, F
<1>7. \A i \in 0 .. n : h[i] = IF i = 0 THEN 1 ELSE h[i - 1] * s[i]
  BY <1>5
<1>8. 0 \in S BY <1>0, <1>2, <1>7
<1>9. \A i \in 1 .. n : i - 1 \in S => i \in S
  <2> SUFFICES ASSUME NEW i \in 1 .. n, h[i - 1] = g[i - 1] PROVE h[i] = g[i]
    BY <1>0
  <2>1. i \in 0 .. n /\ i # 0 BY <1>0
  <2>2. h[i] = h[i - 1] * s[i] BY <1>7, <2>1
  <2> QED BY <1>3, <2>2
<1>10. 0 .. n \subseteq S
  <2> HIDE DEF S, n
  <2> QED BY <1>0, <1>8, <1>9, UpToInduction
<1>11. n \in S BY <1>0, <1>10
<1> QED BY <1>0, <1>2, <1>6, <1>11

\* Every element of FlattenSeq is an element of a part.
LEMMA FlattenElements ==
    ASSUME NEW S, NEW seqs \in Seq(Seq(S))
    PROVE  /\ FlattenSeq(seqs) \in Seq(S)
           /\ \A j \in DOMAIN FlattenSeq(seqs) : \E a \in DOMAIN seqs :
                 \E k \in DOMAIN seqs[a] : FlattenSeq(seqs)[j] = seqs[a][k]
<1> DEFINE flat == FlattenSeq(seqs)
<1>1. flat \in Seq(S) /\ LaidOut(seqs, flat) BY FlattenLayout
<1> HIDE DEF flat
<1>2. PICK off \in [0 .. Len(seqs) -> Nat] :
        /\ \A a \in 1 .. Len(seqs) : \A k \in 1 .. Len(seqs[a]) :
              /\ off[a - 1] + k \in 1 .. Len(flat)
              /\ flat[off[a - 1] + k] = seqs[a][k]
        /\ \A j \in 1 .. Len(flat) :
              \E a \in 1 .. Len(seqs) : \E k \in 1 .. Len(seqs[a]) :
                  j = off[a - 1] + k
  BY <1>1 DEF LaidOut
<1>3. /\ DOMAIN flat = 1 .. Len(flat) /\ DOMAIN seqs = 1 .. Len(seqs)
      /\ \A a \in DOMAIN seqs : DOMAIN seqs[a] = 1 .. Len(seqs[a])
  BY <1>1
<1>4. ASSUME NEW j \in DOMAIN flat
      PROVE  \E a \in DOMAIN seqs : \E k \in DOMAIN seqs[a] : flat[j] = seqs[a][k]
  <2>1. PICK a \in 1 .. Len(seqs) : \E k \in 1 .. Len(seqs[a]) : j = off[a - 1] + k
    BY <1>2, <1>3
  <2>2. PICK k \in 1 .. Len(seqs[a]) : j = off[a - 1] + k BY <2>1
  <2>3. flat[off[a - 1] + k] = seqs[a][k] BY <1>2
  <2>4. a \in DOMAIN seqs /\ k \in DOMAIN seqs[a] BY <1>3
  <2> QED BY <2>2, <2>3, <2>4
<1> QED BY <1>1, <1>4 DEF flat

\* Parts without repetitions that have nothing in common make a whole without
\* repetitions.
LEMMA FlattenInjective ==
    ASSUME NEW S, NEW seqs \in Seq(Seq(S)),
           \A a \in DOMAIN seqs : IsInjective(seqs[a]),
           \A a, b \in DOMAIN seqs : ToSet(seqs[a]) \cap ToSet(seqs[b]) # {} => a = b
    PROVE  IsInjective(FlattenSeq(seqs))
<1> DEFINE flat == FlattenSeq(seqs)
<1>1. flat \in Seq(S) /\ LaidOut(seqs, flat) BY FlattenLayout
<1> HIDE DEF flat
<1>2. PICK off \in [0 .. Len(seqs) -> Nat] :
        /\ \A a \in 1 .. Len(seqs) : \A k \in 1 .. Len(seqs[a]) :
              /\ off[a - 1] + k \in 1 .. Len(flat)
              /\ flat[off[a - 1] + k] = seqs[a][k]
        /\ \A j \in 1 .. Len(flat) :
              \E a \in 1 .. Len(seqs) : \E k \in 1 .. Len(seqs[a]) :
                  j = off[a - 1] + k
  BY <1>1 DEF LaidOut
<1>3. /\ DOMAIN flat = 1 .. Len(flat) /\ DOMAIN seqs = 1 .. Len(seqs)
      /\ \A a \in DOMAIN seqs : DOMAIN seqs[a] = 1 .. Len(seqs[a])
  BY <1>1
<1>4. ASSUME NEW i \in DOMAIN flat, NEW j \in DOMAIN flat, flat[i] = flat[j]
      PROVE  i = j
  <2>0. i \in 1 .. Len(flat) /\ j \in 1 .. Len(flat) BY <1>3
  <2>1. PICK a \in 1 .. Len(seqs) : \E k \in 1 .. Len(seqs[a]) : i = off[a - 1] + k
    BY <1>2, <2>0
  <2>2. PICK k \in 1 .. Len(seqs[a]) : i = off[a - 1] + k BY <2>1
  <2>3. PICK b \in 1 .. Len(seqs) : \E l \in 1 .. Len(seqs[b]) : j = off[b - 1] + l
    BY <1>2, <2>0
  <2>4. PICK l \in 1 .. Len(seqs[b]) : j = off[b - 1] + l BY <2>3
  <2>5. a \in DOMAIN seqs /\ k \in DOMAIN seqs[a] /\ b \in DOMAIN seqs /\ l \in DOMAIN seqs[b]
    BY <1>3
  <2>6. flat[off[a - 1] + k] = seqs[a][k] /\ flat[off[b - 1] + l] = seqs[b][l]
    BY <1>2
  <2>7. seqs[a][k] = seqs[b][l] BY <1>4, <2>2, <2>4, <2>6
  <2>8. seqs[a][k] \in ToSet(seqs[a]) /\ seqs[b][l] \in ToSet(seqs[b]) BY <2>5 DEF ToSet
  <2>9. a = b BY <2>5, <2>7, <2>8
  <2>10. k = l BY <2>5, <2>7, <2>9 DEF IsInjective
  <2> QED BY <2>2, <2>4, <2>9, <2>10
<1>5. IsInjective(flat) BY <1>4 DEF IsInjective
<1> QED BY <1>5 DEF flat

-----------------------------------------------------------------------------
(* Fusion.                                                                 *)

\* Responses with names, devices and sizes from these sets.
Responses(T, N, D, Z) ==
    [type : T, names : Seq(N), devices : D, sizes : Seq(Z)]

NameOf(item) == Head(item.response.names)

\* Items are as FuseResponses gets them: a response covers one tensor.
Single(I, T, N, D, Z) ==
    \A x \in I : /\ x.response \in Responses(T, N, D, Z)
                 /\ NameOf(x) \in N
                 /\ x.response.names = <<NameOf(x)>>

\* The places in p and in r are those from 1 to i, each once.
Splits(p, r, i) ==
    /\ p \in Seq(1 .. i) /\ r \in Seq(1 .. i)
    /\ Increasing(p) /\ Increasing(r)
    /\ \A j \in 1 .. i : \/ \E x \in DOMAIN p : p[x] = j
                         \/ \E y \in DOMAIN r : r[y] = j
    /\ \A x \in DOMAIN p, y \in DOMAIN r : p[x] # r[y]

\* The bytes of the items at the places in p, added up, are `total`.
AddUp(items, p, total) ==
    \E w \in [0 .. Len(p) -> Nat] :
        /\ w[0] = 0 /\ w[Len(p)] = total
        /\ \A x \in 1 .. Len(p) :
              w[x] = w[x - 1] + ItemBytes(items[1], items[p[x]])

\* The numbers that the scan compares.
Sized(items, threshold) ==
    /\ threshold \in Int
    /\ \A j \in DOMAIN items : items[j].size \in Nat /\ items[j].out \in Nat

\* The scan of a list of items from I.
IsScan(scan, I, T, N, D, Z) ==
    /\ scan = [fused |-> scan.fused, bytes |-> scan.bytes, skipped |-> scan.skipped,
               rest |-> scan.rest, open |-> scan.open]
    /\ scan.fused \in Responses(T, N, D, Z)
    /\ scan.rest \in Seq(I)
    /\ scan.open \in BOOLEAN

\* The scan behind the head has fused the items at the places in p and left
\* those at the places in r, of the first i.
Scanned(items, i, scan, p, r) ==
    /\ Splits(p, r, i)
    /\ Len(p) > 0 /\ p[1] = 1
    /\ scan.fused.type = items[1].response.type
    /\ scan.fused.devices = items[1].response.devices
    /\ scan.fused.names = [x \in 1 .. Len(p) |-> NameOf(items[p[x]])]
    /\ scan.rest = [y \in 1 .. Len(r) |-> items[r[y]]]
    /\ \A x \in DOMAIN p : SameClass(items[1], items[p[x]])
    /\ scan.fused.type # "ALLGATHER" => scan.fused.sizes = items[1].response.sizes

\* Nothing of the class of the head is left while the scan goes on, and none
\* that is left is before one that was fused; what is fused fits.
Fitting(items, threshold, scan, p, r) ==
    /\ scan.bytes \in Nat /\ scan.skipped \in Nat
    /\ scan.open => \A y \in DOMAIN r : ~SameClass(items[1], items[r[y]])
    /\ \A x \in DOMAIN p, y \in DOMAIN r :
          SameClass(items[1], items[r[y]]) => p[x] < r[y]
    /\ AddUp(items, p, scan.bytes)
    /\ Len(p) > 1 => scan.bytes <= threshold

\* The scan of the first i items has dealt each of them out.
Dealt(items, threshold, i, scan) ==
    \E p, r :
        /\ Scanned(items, i, scan, p, r)
        /\ Sized(items, threshold) => Fitting(items, threshold, scan, p, r)

\* The places s are those of the items that response covers.
Covers(items, threshold, response, s) ==
    /\ s \in Seq(1 .. Len(items)) /\ Len(s) > 0
    /\ Increasing(s)
    /\ response.type = items[s[1]].response.type
    /\ response.devices = items[s[1]].response.devices
    /\ response.names = [x \in 1 .. Len(s) |-> NameOf(items[s[x]])]
    /\ \A x \in DOMAIN s : SameClass(items[s[1]], items[s[x]])
    /\ response.type # "ALLGATHER" => response.sizes = items[s[1]].response.sizes

\* Several items together fit the threshold.
FitsIn(items, threshold, s) ==
    Len(s) > 1 =>
        \E w \in [0 .. Len(s) -> Nat] :
            /\ w[0] = 0 /\ w[Len(s)] <= threshold
            /\ \A x \in 1 .. Len(s) :
                  w[x] = w[x - 1] + ItemBytes(items[s[1]], items[s[x]])

\* The places p and q are different, the first of p is before all of q, and
\* no item of q is behind one of p of its class.
Apart(items, threshold, p, q) ==
    \A x \in DOMAIN p, y \in DOMAIN q :
        /\ p[x] # q[y]
        /\ p[1] < q[y]
        /\ Sized(items, threshold) /\ SameClass(items[p[x]], items[q[y]]) =>
              p[x] < q[y]

\* src[a] are the places of the items in response a of the list.
Laid(items, threshold, list, src) ==
    /\ \A a \in 1 .. Len(list) :
          /\ Covers(items, threshold, list[a], src[a])
          /\ Sized(items, threshold) => FitsIn(items, threshold, src[a])
    /\ \A a, b \in 1 .. Len(list) :
          a < b => Apart(items, threshold, src[a], src[b])

\* Some of the items are in the list of responses; those at the places in f
\* are left.
Held(items, threshold, acc, src, f) ==
    /\ Laid(items, threshold, acc.list, src)
    /\ f \in Seq(1 .. Len(items)) /\ Increasing(f)
    /\ acc.items = [y \in 1 .. Len(f) |-> items[f[y]]]
    /\ \A a \in 1 .. Len(acc.list) : Apart(items, threshold, src[a], f)
    /\ \A j \in 1 .. Len(items) :
          \/ \E a \in 1 .. Len(acc.list) : \E x \in DOMAIN src[a] : src[a][x] = j
          \/ \E y \in DOMAIN f : f[y] = j

Placed(items, threshold, acc) == \E src, f : Held(items, threshold, acc, src, f)

IsAcc(acc, I, T, N, D, Z) ==
    /\ acc = [list |-> acc.list, items |-> acc.items]
    /\ acc.list \in Seq(Responses(T, N, D, Z))
    /\ acc.items \in Seq(I)

\* After k responses at least k items are no longer left.
Holds(items, threshold, k, acc) ==
    /\ Len(acc.items) <= Len(items) - k \/ acc.items = <<>>
    /\ Placed(items, threshold, acc)

-----------------------------------------------------------------------------
\* The next place goes to the end of p or of r.
LEMMA SplitsNext ==
    ASSUME NEW i \in Nat \ {0}, NEW p, NEW r, Splits(p, r, i - 1)
    PROVE  Splits(Append(p, i), r, i) /\ Splits(p, Append(r, i), i)
<1> DEFINE p2 == Append(p, i)
           r2 == Append(r, i)
<1>1. /\ p \in Seq(1 .. i - 1) /\ r \in Seq(1 .. i - 1)
      /\ DOMAIN p = 1 .. Len(p) /\ DOMAIN r = 1 .. Len(r)
      /\ Len(p) \in Nat /\ Len(r) \in Nat
      /\ \A x \in DOMAIN p : p[x] \in 1 .. i - 1
      /\ \A y \in DOMAIN r : r[y] \in 1 .. i - 1
  BY DEF Splits
<1>2. p \in Seq(1 .. i) /\ r \in Seq(1 .. i)
  <2>1. 1 .. i - 1 \subseteq 1 .. i OBVIOUS
  <2> QED BY <1>1, <2>1
<1> HIDE DEF p2, r2
<1>0. i \in 1 .. i OBVIOUS
<1>3. /\ p2 \in Seq(1 .. i) /\ Len(p) + 1 \in DOMAIN p2 /\ p2[Len(p) + 1] = i
      /\ \A x \in DOMAIN p : x < Len(p) + 1 /\ x \in DOMAIN p2 /\ p2[x] = p[x]
      /\ \A x \in DOMAIN p2 : x = Len(p) + 1 \/ x \in DOMAIN p
      /\ r2 \in Seq(1 .. i) /\ Len(r) + 1 \in DOMAIN r2 /\ r2[Len(r) + 1] = i
      /\ \A y \in DOMAIN r : y < Len(r) + 1 /\ y \in DOMAIN r2 /\ r2[y] = r[y]
      /\ \A y \in DOMAIN r2 : y = Len(r) + 1 \/ y \in DOMAIN r
  BY <1>0, <1>2, AppendElements DEF p2, r2
<1>4. Increasing(p2) /\ Increasing(r2)
  <2>1. ASSUME NEW x \in DOMAIN p2, NEW y \in DOMAIN p2, x < y PROVE p2[x] < p2[y]
    <3>0. x # Len(p) + 1
      <4>1. y = Len(p) + 1 \/ (y \in 1 .. Len(p) /\ y < Len(p) + 1) BY <1>1, <1>3
      <4> QED BY <1>1, <4>1, <2>1
    <3>1. x \in DOMAIN p /\ p2[x] = p[x] BY <1>3, <3>0
    <3>2. CASE y = Len(p) + 1 BY <1>1, <1>3, <3>1, <3>2
    <3>3. CASE y # Len(p) + 1
      <4>1. y \in DOMAIN p /\ p2[y] = p[y] BY <1>1, <1>3, <3>3
      <4> QED BY <2>1, <3>1, <4>1 DEF Splits, Increasing
    <3> QED BY <3>2, <3>3
  <2>2. ASSUME NEW x \in DOMAIN r2, NEW y \in DOMAIN r2, x < y PROVE r2[x] < r2[y]
    <3>0. x # Len(r) + 1
      <4>1. y = Len(r) + 1 \/ (y \in 1 .. Len(r) /\ y < Len(r) + 1) BY <1>1, <1>3
      <4> QED BY <1>1, <4>1, <2>2
    <3>1. x \in DOMAIN r /\ r2[x] = r[x] BY <1>3, <3>0
    <3>2. CASE y = Len(r) + 1 BY <1>1, <1>3, <3>1, <3>2
    <3>3. CASE y # Len(r) + 1
      <4>1. y \in DOMAIN r /\ r2[y] = r[y] BY <1>1, <1>3, <3>3
      <4> QED BY <2>2, <3>1, <4>1 DEF Splits, Increasing
    <3> QED BY <3>2, <3>3
  <2> QED BY <2>1, <2>2 DEF Increasing
<1>5. ASSUME NEW j \in 1 .. i
      PROVE  /\ \/ \E x \in DOMAIN p2 : p2[x] = j
                \/ \E y \in DOMAIN r : r[y] = j
             /\ \/ \E x \in DOMAIN p : p[x] = j
                \/ \E y \in DOMAIN r2 : r2[y] = j
  <2>1. CASE j = i BY <1>3, <2>1
  <2>2. CASE j # i
    <3>1. j \in 1 .. i - 1 BY <2>2
    <3>2. \/ \E x \in DOMAIN p : p[x] = j
          \/ \E y \in DOMAIN r : r[y] = j
      BY <3>1 DEF Splits
    <3> QED BY <1>3, <3>2
  <2> QED BY <2>1, <2>2
<1>6. ASSUME NEW x \in DOMAIN p2, NEW y \in DOMAIN r PROVE p2[x] # r[y]
  <2>1. CASE x = Len(p) + 1 BY <1>1, <1>3, <2>1
  <2>2. CASE x # Len(p) + 1
    <3>1. x \in DOMAIN p /\ p2[x] = p[x] BY <1>1, <1>3, <2>2
    <3> QED BY <3>1 DEF Splits
  <2> QED BY <2>1, <2>2
<1>7. ASSUME NEW x \in DOMAIN p, NEW y \in DOMAIN r2 PROVE p[x] # r2[y]
  <2>1. CASE y = Len(r) + 1 BY <1>1, <1>3, <2>1
  <2>2. CASE y # Len(r) + 1
    <3>1. y \in DOMAIN r /\ r2[y] = r[y] BY <1>1, <1>3, <2>2
    <3> QED BY <3>1 DEF Splits
  <2> QED BY <2>1, <2>2
<1>8. Increasing(p) /\ Increasing(r) BY DEF Splits
<1>9. Splits(p2, r, i) BY <1>2, <1>3, <1>4, <1>5, <1>6, <1>8 DEF Splits
<1>10. Splits(p, r2, i) BY <1>2, <1>3, <1>4, <1>5, <1>7, <1>8 DEF Splits
<1> QED BY <1>9, <1>10 DEF p2, r2


\* One more item at the end of p makes the sum larger by its bytes.
LEMMA AddUpNext ==
    ASSUME NEW items, NEW i \in Nat \ {0}, NEW p \in Seq(1 .. i - 1), NEW total \in Nat,
           AddUp(items, p, total), ItemBytes(items[1], items[i]) \in Nat
    PROVE  AddUp(items, Append(p, i), total + ItemBytes(items[1], items[i]))
<1> DEFINE n == Len(p)
           b == ItemBytes(items[1], items[i])
           p2 == Append(p, i)
<1>1. PICK w \in [0 .. n -> Nat] :
        /\ w[0] = 0 /\ w[n] = total
        /\ \A x \in 1 .. n : w[x] = w[x - 1] + ItemBytes(items[1], items[p[x]])
  BY DEF AddUp
<1> DEFINE w2 == [x \in 0 .. n + 1 |-> IF x = n + 1 THEN total + b ELSE w[x]]
<1>2. n \in Nat OBVIOUS
<1>3. p \in Seq(Nat) /\ i \in Nat
  <2>1. 1 .. i - 1 \subseteq Nat OBVIOUS
  <2> QED BY <2>1
<1>4. /\ Len(p2) = n + 1 /\ p2[n + 1] = i
      /\ \A x \in 1 .. n : p2[x] = p[x]
  BY <1>3, AppendElements
<1>5. w2 \in [0 .. n + 1 -> Nat]
  <2> HIDE DEF n, b
  <2>1. b \in Nat BY DEF b
  <2> QED BY <1>1, <1>2, <2>1
<1>6. w2[0] = 0 /\ w2[n + 1] = total + b
  BY <1>1, <1>2
<1>7. ASSUME NEW x \in 1 .. n + 1
      PROVE  w2[x] = w2[x - 1] + ItemBytes(items[1], items[p2[x]])
  <2>1. CASE x = n + 1
    <3>1. w2[x - 1] = w[n] BY <1>2, <2>1
    <3> QED BY <1>1, <1>4, <1>6, <2>1, <3>1
  <2>2. CASE x # n + 1
    <3>1. x \in 1 .. n /\ x - 1 \in 0 .. n BY <1>2, <2>2
    <3>2. w2[x] = w[x] /\ w2[x - 1] = w[x - 1] BY <1>2, <3>1
    <3> QED BY <1>1, <1>4, <3>1, <3>2
  <2> QED BY <2>1, <2>2
<1> HIDE DEF n, b, p2, w2
<1>8. \E v \in [0 .. Len(p2) -> Nat] :
        /\ v[0] = 0 /\ v[Len(p2)] = total + b
        /\ \A x \in 1 .. Len(p2) :
              v[x] = v[x - 1] + ItemBytes(items[1], items[p2[x]])
  BY <1>4, <1>5, <1>6, <1>7
<1> QED BY <1>8 DEF AddUp, p2, b

\* The next item is fused with the head, or it is left.
LEMMA LookAtCases ==
    ASSUME NEW I, NEW T, NEW N, NEW D, NEW Z, Single(I, T, N, D, Z),
           NEW head \in I, NEW item \in I, NEW threshold,
           NEW scan, IsScan(scan, I, T, N, D, Z),
           NEW next, next = LookAt(threshold, head, scan, item)
    PROVE  /\ IsScan(next, I, T, N, D, Z)
           /\ next.fused.type = scan.fused.type
           /\ next.fused.devices = scan.fused.devices
           /\ scan.fused.type # "ALLGATHER" => next.fused.sizes = scan.fused.sizes
           /\ \/ /\ scan.open
                 /\ SameClass(head, item)
                 /\ scan.bytes + ItemBytes(head, item) <= threshold
                 /\ next.fused.names = Append(scan.fused.names, NameOf(item))
                 /\ next.bytes = scan.bytes + ItemBytes(head, item)
                 /\ next.skipped = scan.skipped
                 /\ next.rest = scan.rest
                 /\ next.open
              \/ /\ ~ (/\ scan.open
                       /\ SameClass(head, item)
                       /\ scan.bytes + ItemBytes(head, item) <= threshold)
                 /\ next.fused = scan.fused
                 /\ next.bytes = scan.bytes
                 /\ scan.open => next.skipped = scan.skipped + ItemBytes(head, item)
                 /\ ~scan.open => next.skipped = scan.skipped
                 /\ next.rest = Append(scan.rest, item)
                 /\ next.open => /\ scan.open
                                 /\ scan.bytes + next.skipped <= threshold
<1> DEFINE bytes == ItemBytes(head, item)
           fits == scan.open /\ SameClass(head, item) /\ scan.bytes + bytes <= threshold
<1>1. CASE fits
  <2>1. next = [scan EXCEPT !.fused = AddResponse(@, item.response), !.bytes = @ + bytes]
    BY <1>1 DEF LookAt
  <2>2. next = [fused |-> AddResponse(scan.fused, item.response),
                bytes |-> scan.bytes + bytes, skipped |-> scan.skipped,
                rest |-> scan.rest, open |-> scan.open]
    BY <2>1 DEF IsScan
  <2>3. /\ AddResponse(scan.fused, item.response) \in Responses(T, N, D, Z)
        /\ AddResponse(scan.fused, item.response).type = scan.fused.type
        /\ AddResponse(scan.fused, item.response).devices = scan.fused.devices
        /\ AddResponse(scan.fused, item.response).names = scan.fused.names \o item.response.names
        /\ scan.fused.type # "ALLGATHER" =>
              AddResponse(scan.fused, item.response).sizes = scan.fused.sizes
    <3>1. scan.fused \in Responses(T, N, D, Z) /\ item.response \in Responses(T, N, D, Z)
      BY DEF IsScan, Single
    <3>2. /\ scan.fused.names \o item.response.names \in Seq(N)
          /\ scan.fused.sizes \o item.response.sizes \in Seq(Z)
      BY <3>1 DEF Responses
    <3> QED BY <3>1, <3>2 DEF Responses, AddResponse
  <2>4. scan.fused.names \o item.response.names = Append(scan.fused.names, NameOf(item))
    <3>1. /\ scan.fused.names \in Seq(N) /\ NameOf(item) \in N
          /\ item.response.names = <<NameOf(item)>>
      BY DEF IsScan, Single, Responses
    <3> HIDE DEF NameOf
    <3> QED BY <3>1
  <2> QED BY <1>1, <2>2, <2>3, <2>4 DEF IsScan
<1>2. CASE ~fits
  <2>1. next = [scan EXCEPT !.rest = Append(@, item),
                            !.skipped = IF scan.open THEN scan.skipped + bytes ELSE @,
                            !.open = scan.open /\ scan.bytes + (scan.skipped + bytes) <= threshold]
    BY <1>2 DEF LookAt
  <2>2. next = [fused |-> scan.fused, bytes |-> scan.bytes,
                skipped |-> IF scan.open THEN scan.skipped + bytes ELSE scan.skipped,
                rest |-> Append(scan.rest, item),
                open |-> scan.open /\ scan.bytes + (scan.skipped + bytes) <= threshold]
    BY <2>1 DEF IsScan
  <2>3. Append(scan.rest, item) \in Seq(I)
    BY DEF IsScan
  <2> HIDE DEF bytes
  <2>4. IsScan(next, I, T, N, D, Z)
    BY <2>2, <2>3 DEF IsScan
  <2>5. /\ next.fused = scan.fused /\ next.bytes = scan.bytes
        /\ next.rest = Append(scan.rest, item)
    BY <2>2
  <2>6. next.skipped = IF scan.open THEN scan.skipped + bytes ELSE scan.skipped
    BY <2>2
  <2>7. next.open = (scan.open /\ scan.bytes + (scan.skipped + bytes) <= threshold)
    BY <2>2
  <2>8. next.open => scan.open /\ scan.bytes + next.skipped <= threshold
    BY <2>6, <2>7 DEF IsScan
  <2> QED BY <1>2, <2>4, <2>5, <2>6, <2>8 DEF bytes
<1> QED BY <1>1, <1>2

\* One more look keeps what is known of the scan.
LEMMA ScanNext ==
    ASSUME NEW I, NEW T, NEW N, NEW D, NEW Z, Single(I, T, N, D, Z),
           NEW items \in Seq(I), NEW threshold, NEW i \in 2 .. Len(items),
           NEW scan, IsScan(scan, I, T, N, D, Z),
           NEW next, next = LookAt(threshold, items[1], scan, items[i]),
           Dealt(items, threshold, i - 1, scan)
    PROVE  Dealt(items, threshold, i, next)
<1> SUFFICES ASSUME NEW p, NEW r, Scanned(items, i - 1, scan, p, r),
                    Sized(items, threshold) => Fitting(items, threshold, scan, p, r)
             PROVE  \E p2, r2 :
                      /\ Scanned(items, i, next, p2, r2)
                      /\ Sized(items, threshold) =>
                            Fitting(items, threshold, next, p2, r2)
    BY DEF Dealt
<1> DEFINE head == items[1]
           item == items[i]
           bytes == ItemBytes(head, item)
           fits == scan.open /\ SameClass(head, item) /\ scan.bytes + bytes <= threshold
           p2 == Append(p, i)
           r2 == Append(r, i)
<1>1. /\ Len(items) \in Nat /\ i \in Nat \ {0} /\ i \in DOMAIN items
      /\ 1 \in DOMAIN items /\ head \in I /\ item \in I
  OBVIOUS
<1>2. /\ Splits(p, r, i - 1) /\ p \in Seq(1 .. i - 1) /\ r \in Seq(1 .. i - 1)
      /\ Len(p) > 0 /\ p[1] = 1 /\ Len(p) \in Nat /\ Len(r) \in Nat
      /\ DOMAIN p = 1 .. Len(p) /\ DOMAIN r = 1 .. Len(r)
      /\ \A x \in DOMAIN p : p[x] \in 1 .. i - 1
      /\ \A y \in DOMAIN r : r[y] \in 1 .. i - 1
  BY DEF Scanned, Splits
<1>3. Splits(p2, r, i) /\ Splits(p, r2, i)
  BY <1>1, <1>2, SplitsNext
<1>4. p \in Seq(1 .. i) /\ r \in Seq(1 .. i) /\ i \in 1 .. i
  <2>1. 1 .. i - 1 \subseteq 1 .. i BY <1>1
  <2> QED BY <1>1, <1>2, <2>1
<1>5. /\ Len(p2) = Len(p) + 1 /\ p2[Len(p) + 1] = i
      /\ Len(p) + 1 \in DOMAIN p2
      /\ \A x \in DOMAIN p : x \in DOMAIN p2 /\ p2[x] = p[x]
      /\ \A x \in DOMAIN p2 : x = Len(p) + 1 \/ x \in DOMAIN p
      /\ Len(r2) = Len(r) + 1 /\ r2[Len(r) + 1] = i
      /\ Len(r) + 1 \in DOMAIN r2
      /\ \A y \in DOMAIN r : y \in DOMAIN r2 /\ r2[y] = r[y]
      /\ \A y \in DOMAIN r2 : y = Len(r) + 1 \/ y \in DOMAIN r
  <2> HIDE DEF p2, r2
  <2>1. /\ Len(p2) = Len(p) + 1 /\ p2[Len(p) + 1] = i
        /\ Len(p) + 1 \in DOMAIN p2
        /\ \A x \in DOMAIN p : x \in DOMAIN p2 /\ p2[x] = p[x]
        /\ \A x \in DOMAIN p2 : x = Len(p) + 1 \/ x \in DOMAIN p
    BY <1>4, AppendElements DEF p2
  <2>2. /\ Len(r2) = Len(r) + 1 /\ r2[Len(r) + 1] = i
        /\ Len(r) + 1 \in DOMAIN r2
        /\ \A y \in DOMAIN r : y \in DOMAIN r2 /\ r2[y] = r[y]
        /\ \A y \in DOMAIN r2 : y = Len(r) + 1 \/ y \in DOMAIN r
    BY <1>4, AppendElements DEF r2
  <2> QED BY <2>1, <2>2
<1>6. Sized(items, threshold) => bytes \in Nat /\ threshold \in Int
  BY <1>1 DEF Sized, ItemBytes
<1> HIDE DEF p2, r2, bytes
<1>7. CASE fits
  <2>1. /\ next.fused.type = scan.fused.type
        /\ next.fused.devices = scan.fused.devices
        /\ scan.fused.type # "ALLGATHER" => next.fused.sizes = scan.fused.sizes
        /\ next.fused.names = Append(scan.fused.names, NameOf(item))
        /\ next.bytes = scan.bytes + bytes
        /\ next.skipped = scan.skipped
        /\ next.rest = scan.rest
        /\ next.open
        /\ SameClass(head, item)
    BY <1>1, <1>7, LookAtCases DEF bytes
  <2>2. next.fused.names = [x \in 1 .. Len(p2) |-> NameOf(items[p2[x]])]
    <3> DEFINE names == scan.fused.names
    <3>1. /\ names = [x \in 1 .. Len(p) |-> NameOf(items[p[x]])]
          /\ names \in Seq(N) /\ NameOf(item) \in N
      BY <1>1 DEF Scanned, IsScan, Responses, Single
    <3>2. Len(names) = Len(p)
      BY <1>2, <3>1
    <3> HIDE DEF names, item
    <3>3. Append(names, NameOf(item)) \in Seq(N)
          /\ Len(Append(names, NameOf(item))) = Len(p) + 1
          /\ Append(names, NameOf(item))[Len(p) + 1] = NameOf(item)
          /\ DOMAIN Append(names, NameOf(item)) = 1 .. Len(p) + 1
          /\ \A x \in 1 .. Len(p) : Append(names, NameOf(item))[x] = names[x]
      BY <1>2, <3>1, <3>2, AppendElements
    <3>4. \A x \in 1 .. Len(p2) : Append(names, NameOf(item))[x] = NameOf(items[p2[x]])
      <4> SUFFICES ASSUME NEW x \in 1 .. Len(p2)
                   PROVE  Append(names, NameOf(item))[x] = NameOf(items[p2[x]])
        OBVIOUS
      <4>1. CASE x = Len(p) + 1 BY <1>5, <3>3, <4>1 DEF item
      <4>2. CASE x # Len(p) + 1
        <5>1. x \in 1 .. Len(p) BY <1>2, <1>5, <4>2
        <5> QED BY <1>2, <1>5, <3>1, <3>3, <5>1
      <4> QED BY <4>1, <4>2
    <3>5. Append(names, NameOf(item)) = [x \in 1 .. Len(p2) |-> NameOf(items[p2[x]])]
      <4>1. DOMAIN Append(names, NameOf(item)) = 1 .. Len(p2) BY <1>5, <3>3
      <4>2. Append(names, NameOf(item)) = [x \in 1 .. Len(p2) |-> Append(names, NameOf(item))[x]]
        BY <3>3, <4>1, SequenceIsFunction
      <4> QED BY <3>4, <4>2
    <3> QED BY <2>1, <3>5 DEF names
  <2>3. Len(p2) > 0 /\ p2[1] = 1
    <3>1. 1 \in DOMAIN p BY <1>2
    <3>2. p2[1] = 1 BY <1>2, <1>5, <3>1
    <3>3. Len(p2) > 0 BY <1>2, <1>5
    <3> QED BY <3>2, <3>3
  <2>4. \A x \in DOMAIN p2 : SameClass(items[1], items[p2[x]])
    BY <1>5, <2>1 DEF Scanned
  <2>5. Scanned(items, i, next, p2, r)
    BY <1>3, <2>1, <2>2, <2>3, <2>4 DEF Scanned
  <2>6. ASSUME Sized(items, threshold)
        PROVE  Fitting(items, threshold, next, p2, r)
    <3>1. Fitting(items, threshold, scan, p, r) BY <2>6
    <3>2. next.bytes \in Nat /\ next.skipped \in Nat
      BY <1>6, <2>1, <2>6, <3>1 DEF Fitting
    <3>3. \A y \in DOMAIN r : ~SameClass(items[1], items[r[y]])
      BY <1>7, <3>1 DEF Fitting
    <3>4. AddUp(items, p2, next.bytes)
      BY <1>1, <1>2, <1>6, <2>1, <2>6, <3>1, AddUpNext DEF Fitting, p2, bytes
    <3>5. next.bytes <= threshold
      BY <1>7, <2>1
    <3> QED BY <3>2, <3>3, <3>4, <3>5 DEF Fitting
  <2> QED BY <2>5, <2>6
<1>8. CASE ~fits
  <2>1. /\ next.fused = scan.fused
        /\ next.bytes = scan.bytes
        /\ scan.open => next.skipped = scan.skipped + bytes
        /\ ~scan.open => next.skipped = scan.skipped
        /\ next.rest = Append(scan.rest, item)
        /\ next.open => scan.open /\ scan.bytes + next.skipped <= threshold
    BY <1>1, <1>8, LookAtCases DEF bytes
  <2>2. next.rest = [y \in 1 .. Len(r2) |-> items[r2[y]]]
    <3> DEFINE rest == scan.rest
    <3>1. /\ rest = [y \in 1 .. Len(r) |-> items[r[y]]]
          /\ rest \in Seq(I)
      BY DEF Scanned, IsScan
    <3>2. Len(rest) = Len(r)
      BY <1>2, <3>1
    <3> HIDE DEF rest, item
    <3>3. Append(rest, item) \in Seq(I)
          /\ Len(Append(rest, item)) = Len(r) + 1
          /\ Append(rest, item)[Len(r) + 1] = item
          /\ DOMAIN Append(rest, item) = 1 .. Len(r) + 1
          /\ \A y \in 1 .. Len(r) : Append(rest, item)[y] = rest[y]
      BY <1>1, <1>2, <3>1, <3>2, AppendElements
    <3>4. \A y \in 1 .. Len(r2) : Append(rest, item)[y] = items[r2[y]]
      <4> SUFFICES ASSUME NEW y \in 1 .. Len(r2)
                   PROVE  Append(rest, item)[y] = items[r2[y]]
        OBVIOUS
      <4>1. CASE y = Len(r) + 1 BY <1>5, <3>3, <4>1 DEF item
      <4>2. CASE y # Len(r) + 1
        <5>0. Len(r) \in Nat /\ Len(r2) = Len(r) + 1 BY <1>2, <1>5
        <5>1. y \in 1 .. Len(r) BY <4>2, <5>0
        <5> QED BY <1>2, <1>5, <3>1, <3>3, <5>1
      <4> QED BY <4>1, <4>2
    <3>5. Append(rest, item) = [y \in 1 .. Len(r2) |-> items[r2[y]]]
      <4>1. DOMAIN Append(rest, item) = 1 .. Len(r2) BY <1>5, <3>3
      <4>2. Append(rest, item) = [y \in 1 .. Len(r2) |-> Append(rest, item)[y]]
        BY <3>3, <4>1, SequenceIsFunction
      <4> QED BY <3>4, <4>2
    <3> QED BY <2>1, <3>5 DEF rest
  <2>3. Scanned(items, i, next, p, r2)
    BY <1>2, <1>3, <2>1, <2>2 DEF Scanned
  <2>4. ASSUME Sized(items, threshold)
        PROVE  Fitting(items, threshold, next, p, r2)
    <3>1. Fitting(items, threshold, scan, p, r) BY <2>4
    <3>2. /\ scan.bytes \in Nat /\ scan.skipped \in Nat
          /\ next.bytes = scan.bytes /\ next.skipped \in Nat
      BY <1>6, <2>1, <2>4, <3>1 DEF Fitting
    <3>3. next.open => ~SameClass(head, item)
      <4> SUFFICES ASSUME next.open, SameClass(head, item) PROVE FALSE
        OBVIOUS
      <4>1. scan.open /\ next.skipped = scan.skipped + bytes BY <2>1
      <4>2. ~ (scan.bytes + bytes <= threshold) BY <1>8, <4>1
      <4>3. scan.bytes + (scan.skipped + bytes) <= threshold BY <2>1, <4>1
      <4> QED BY <1>6, <2>4, <3>2, <4>2, <4>3
    <3>4. next.open => \A y \in DOMAIN r2 : ~SameClass(items[1], items[r2[y]])
      BY <1>5, <2>1, <3>1, <3>3 DEF Fitting
    <3>5. ASSUME NEW x \in DOMAIN p, NEW y \in DOMAIN r2,
                 SameClass(items[1], items[r2[y]])
          PROVE  p[x] < r2[y]
      <4>1. CASE y = Len(r) + 1 BY <1>2, <1>5, <4>1
      <4>2. CASE y \in DOMAIN r BY <1>5, <3>1, <3>5, <4>2 DEF Fitting
      <4> QED BY <1>5, <4>1, <4>2
    <3> QED BY <3>1, <3>2, <3>4, <3>5 DEF Fitting
  <2> QED BY <2>3, <2>4
<1> QED BY <1>7, <1>8

\* The scans that FuseHead chains exist.
LEMMA ScansExist ==
    ASSUME NEW items, NEW threshold, NEW n \in Nat \ {0}, n = Len(items)
    PROVE  \E g : /\ \A i \in 1 .. n :
                        g[i] = IF i = 1 THEN HeadAlone(items[1])
                               ELSE LookAt(threshold, items[1], g[i - 1], items[i])
                  /\ FuseHead(items, threshold) = g[n]
<1> DEFINE Scan(g, i) == IF i = 1 THEN HeadAlone(items[1])
                         ELSE LookAt(threshold, items[1], g[i - 1], items[i])
           S == {m \in 0 .. n : \E g : \A i \in 1 .. m : g[i] = Scan(g, i)}
<1>1. 0 \in S
  OBVIOUS
<1>2. ASSUME NEW m \in 1 .. n, m - 1 \in S PROVE m \in S
  <2>1. PICK g : \A i \in 1 .. m - 1 : g[i] = Scan(g, i)
    BY <1>2
  <2> DEFINE h == [i \in 1 .. m |-> IF i = m THEN Scan(g, m) ELSE g[i]]
  <2>2. ASSUME NEW i \in 1 .. m PROVE h[i] = Scan(h, i)
    <3>1. i # 1 => i - 1 \in 1 .. m - 1 /\ h[i - 1] = g[i - 1] OBVIOUS
    <3>2. Scan(h, i) = Scan(g, i) BY <3>1
    <3>3. CASE i = m BY <3>2, <3>3
    <3>4. CASE i # m
      <4>1. i \in 1 .. m - 1 BY <3>4
      <4> QED BY <2>1, <3>2, <3>4, <4>1
    <3> QED BY <3>3, <3>4
  <2> HIDE DEF Scan, h
  <2> QED BY <2>2
<1>3. 0 .. n \subseteq S
  <2> HIDE DEF S
  <2> QED BY <1>1, <1>2, UpToInduction
<1>4. PICK g : \A i \in 1 .. n : g[i] = Scan(g, i)
  <2>1. n \in S BY <1>3
  <2> QED BY <2>1
<1> DEFINE Body(f) == [i \in 1 .. n |-> IF i = 1 THEN HeadAlone(items[1])
                                        ELSE LookAt(threshold, items[1], f[i - 1], items[i])]
           f0 == [i \in 1 .. n |-> g[i]]
           h == CHOOSE f : f = Body(f)
<1>5. f0 = Body(f0)
  <2>1. ASSUME NEW i \in 1 .. n PROVE g[i] = Scan(f0, i)
    <3>1. i # 1 => i - 1 \in 1 .. n /\ f0[i - 1] = g[i - 1] OBVIOUS
    <3> QED BY <1>4, <3>1
  <2> QED BY <2>1
<1>6. h = Body(h)
  <2> HIDE DEF Body, f0
  <2> QED BY <1>5
<1>7. FuseHead(items, threshold) = h[n]
  BY DEF FuseHead
<1> HIDE DEF h
<1>8. \A i \in 1 .. n : h[i] = Scan(h, i)
  BY <1>6
<1> QED BY <1>7, <1>8

\* FuseHead deals the items out, in order, to the response and to what is left.
LEMMA FuseHeadSplits ==
    ASSUME NEW I, NEW T, NEW N, NEW D, NEW Z, Single(I, T, N, D, Z),
           NEW items \in Seq(I), NEW threshold, items # <<>>,
           NEW scan, scan = FuseHead(items, threshold)
    PROVE  /\ IsScan(scan, I, T, N, D, Z)
           /\ Dealt(items, threshold, Len(items), scan)
<1> DEFINE n == Len(items)
<1>1. n \in Nat \ {0} /\ 1 \in DOMAIN items /\ items[1] \in I
  OBVIOUS
<1>2. PICK g : /\ \A i \in 1 .. n :
                     g[i] = IF i = 1 THEN HeadAlone(items[1])
                            ELSE LookAt(threshold, items[1], g[i - 1], items[i])
               /\ FuseHead(items, threshold) = g[n]
  BY <1>1, ScansExist
<1> DEFINE Good(i) == /\ IsScan(g[i], I, T, N, D, Z)
                      /\ Dealt(items, threshold, i, g[i])
           S == {i \in 0 .. n : i = 0 \/ Good(i)}
<1>3. Good(1)
  <2>1. g[1] = HeadAlone(items[1]) BY <1>1, <1>2
  <2>2. items[1].response \in Responses(T, N, D, Z) /\ items[1].response.names = <<NameOf(items[1])>>
    BY <1>1 DEF Single
  <2>3. IsScan(g[1], I, T, N, D, Z)
    BY <2>1, <2>2 DEF IsScan, HeadAlone
  <2> DEFINE p == <<1>>
             r == <<>>
  <2>4. p \in Seq(1 .. 1) /\ r \in Seq(1 .. 1) /\ Len(p) = 1 /\ Len(r) = 0
        /\ DOMAIN p = 1 .. 1 /\ DOMAIN r = {} /\ p[1] = 1
    OBVIOUS
  <2> HIDE DEF p, r
  <2>5. Splits(p, r, 1)
    BY <2>4 DEF Splits, Increasing
  <2>6. /\ g[1].fused.names = [x \in 1 .. Len(p) |-> NameOf(items[p[x]])]
        /\ g[1].rest = [y \in 1 .. Len(r) |-> items[r[y]]]
    <3>1. <<NameOf(items[1])>> = [x \in 1 .. 1 |-> NameOf(items[p[x]])]
      <4> HIDE DEF NameOf
      <4> QED BY <2>4
    <3>2. <<>> = [y \in 1 .. 0 |-> items[r[y]]] OBVIOUS
    <3> QED BY <2>1, <2>2, <2>4, <3>1, <3>2 DEF HeadAlone
  <2>7. Scanned(items, 1, g[1], p, r)
    BY <2>1, <2>4, <2>5, <2>6 DEF Scanned, HeadAlone, SameClass
  <2>8. ASSUME Sized(items, threshold)
        PROVE  Fitting(items, threshold, g[1], p, r)
    <3> DEFINE b == ItemBytes(items[1], items[1])
               w == [x \in 0 .. 1 |-> IF x = 0 THEN 0 ELSE b]
    <3>1. b \in Nat BY <1>1, <2>8 DEF Sized, ItemBytes
    <3>2. g[1].bytes = b /\ g[1].skipped = 0 BY <2>1 DEF HeadAlone
    <3> HIDE DEF b
    <3>3. w \in [0 .. 1 -> Nat] /\ w[0] = 0 /\ w[1] = 0 + b BY <3>1
    <3>4. \A x \in 1 .. 1 : w[x] = w[x - 1] + ItemBytes(items[1], items[p[x]])
      <4>1. 1 - 1 = 0 OBVIOUS
      <4>2. w[1] = w[1 - 1] + ItemBytes(items[1], items[p[1]])
        BY <2>4, <3>3, <4>1 DEF b
      <4> QED BY <4>2
    <3>5. w[Len(p)] = b BY <2>4, <3>1, <3>3
    <3> HIDE DEF w
    <3>6. AddUp(items, p, b)
      BY <2>4, <3>3, <3>4, <3>5 DEF AddUp
    <3> QED BY <2>4, <3>1, <3>2, <3>6 DEF Fitting
  <2> QED BY <2>3, <2>7, <2>8 DEF Dealt
<1>4. ASSUME NEW i \in 1 .. n, i - 1 \in S PROVE i \in S
  <2>1. CASE i = 1 BY <1>3, <2>1
  <2>2. CASE i # 1
    <3>1. /\ i \in 2 .. n /\ i - 1 \in 0 .. n /\ i - 1 # 0 /\ i \in 0 .. n
          /\ g[i] = LookAt(threshold, items[1], g[i - 1], items[i])
          /\ items[i] \in I
      BY <1>1, <1>2, <2>2
    <3>2. IsScan(g[i - 1], I, T, N, D, Z)
      BY <1>4, <3>1
    <3>3. Dealt(items, threshold, i - 1, g[i - 1])
      BY <1>4, <3>1
    <3>4. IsScan(g[i], I, T, N, D, Z)
      BY <1>1, <3>1, <3>2, LookAtCases
    <3>5. Dealt(items, threshold, i, g[i])
      BY <3>1, <3>2, <3>3, ScanNext
    <3> QED BY <3>1, <3>4, <3>5
  <2> QED BY <2>1, <2>2
<1>5. 0 .. n \subseteq S
  <2> HIDE DEF S
  <2>1. 0 \in S BY <1>1 DEF S
  <2> QED BY <1>1, <1>4, <2>1, UpToInduction
<1>6. Good(n)
  <2>1. n \in 0 .. n /\ n # 0 BY <1>1
  <2> QED BY <1>5, <2>1
<1> QED BY <1>2, <1>6

-----------------------------------------------------------------------------
\* Places within places.
Picked(f, p) == [x \in 1 .. Len(p) |-> f[p[x]]]

LEMMA Within ==
    ASSUME NEW n \in Nat, NEW f \in Seq(1 .. n), Increasing(f),
           NEW p \in Seq(1 .. Len(f)), Increasing(p),
           NEW c, c = Picked(f, p)
    PROVE  /\ c \in Seq(1 .. n) /\ Increasing(c) /\ Len(c) = Len(p)
           /\ DOMAIN c = DOMAIN p
           /\ \A x \in DOMAIN c : c[x] = f[p[x]] /\ p[x] \in DOMAIN f
<1>1. /\ Len(p) \in Nat /\ DOMAIN p = 1 .. Len(p) /\ DOMAIN f = 1 .. Len(f)
      /\ \A x \in DOMAIN p : p[x] \in DOMAIN f /\ x \in Nat
      /\ \A y \in DOMAIN f : f[y] \in 1 .. n
  OBVIOUS
<1>2. c \in Seq(1 .. n) /\ Len(c) = Len(p) /\ DOMAIN c = 1 .. Len(p)
  BY <1>1 DEF Picked
<1>3. \A x \in DOMAIN c : c[x] = f[p[x]]
  BY <1>2 DEF Picked
<1>4. ASSUME NEW x \in DOMAIN c, NEW y \in DOMAIN c, x < y PROVE c[x] < c[y]
  <2>1. p[x] < p[y] BY <1>1, <1>2, <1>4 DEF Increasing
  <2> QED BY <1>1, <1>2, <1>3, <2>1 DEF Increasing
<1> QED BY <1>1, <1>2, <1>3, <1>4 DEF Increasing

\* An increasing sequence that begins behind 1 is shorter than its range.
LEMMA IncreasingBound ==
    ASSUME NEW n \in Nat, NEW r \in Seq(1 .. n), Increasing(r),
           \A y \in DOMAIN r : r[y] # 1
    PROVE  Len(r) = 0 \/ Len(r) <= n - 1
<1> DEFINE m == Len(r)
           S == {y \in 0 .. m : y = 0 \/ r[y] >= y + 1}
<1>1. m \in Nat /\ DOMAIN r = 1 .. m /\ \A y \in 1 .. m : r[y] \in 1 .. n
  OBVIOUS
<1>2. ASSUME NEW y \in 1 .. m, y - 1 \in S PROVE y \in S
  <2>1. CASE y = 1
    <3>1. r[y] \in 1 .. n /\ r[y] # 1 BY <1>1
    <3> QED BY <1>1, <2>1, <3>1
  <2>2. CASE y # 1
    <3>1. /\ y - 1 \in 1 .. m /\ y - 1 < y /\ r[y - 1] >= (y - 1) + 1
          /\ r[y] \in Nat /\ r[y - 1] \in Nat
      BY <1>1, <1>2, <2>2
    <3>2. r[y - 1] < r[y] BY <1>1, <3>1 DEF Increasing
    <3> QED BY <1>1, <3>1, <3>2
  <2> QED BY <2>1, <2>2
<1>3. 0 .. m \subseteq S
  <2>1. 0 \in S BY <1>1
  <2> HIDE DEF S
  <2> QED BY <1>1, <1>2, <2>1, UpToInduction
<1>4. CASE m # 0
  <2>1. m \in S /\ r[m] \in 1 .. n BY <1>1, <1>3, <1>4
  <2>2. r[m] >= m + 1 BY <1>4, <2>1
  <2> QED BY <1>1, <2>1, <2>2
<1> QED BY <1>4

\* What was apart from all that is left is apart from a part of it.
LEMMA ApartWithin ==
    ASSUME NEW items, NEW threshold, NEW s, NEW f, Apart(items, threshold, s, f),
           NEW p, NEW c, \A x \in DOMAIN c : c[x] = f[p[x]] /\ p[x] \in DOMAIN f
    PROVE  Apart(items, threshold, s, c)
BY DEF Apart

\* One more head taken from what is left.
LEMMA HeldNext ==
    ASSUME NEW I, NEW T, NEW N, NEW D, NEW Z, Single(I, T, N, D, Z),
           NEW items \in Seq(I), NEW threshold,
           NEW acc, IsAcc(acc, I, T, N, D, Z), acc.items # <<>>,
           NEW scan, scan = FuseHead(acc.items, threshold),
           Placed(items, threshold, acc),
           NEW next, next = [list |-> Append(acc.list, scan.fused), items |-> scan.rest]
    PROVE  /\ IsAcc(next, I, T, N, D, Z)
           /\ Len(next.items) < Len(acc.items) \/ next.items = <<>>
           /\ Placed(items, threshold, next)
<1> PICK src, f : Held(items, threshold, acc, src, f)
  BY DEF Placed
<1> DEFINE n == Len(items)
           sub == acc.items
           L == Len(acc.list)
<1>1. /\ n \in Nat /\ sub \in Seq(I) /\ sub # <<>>
      /\ acc.list \in Seq(Responses(T, N, D, Z)) /\ L \in Nat
      /\ f \in Seq(1 .. n) /\ Increasing(f)
      /\ sub = [y \in 1 .. Len(f) |-> items[f[y]]]
      /\ Len(f) \in Nat /\ DOMAIN f = 1 .. Len(f)
      /\ \A y \in DOMAIN f : f[y] \in 1 .. n
  BY DEF IsAcc, Held
<1>2. /\ Len(sub) = Len(f) /\ Len(f) > 0 /\ DOMAIN sub = 1 .. Len(f)
      /\ \A y \in DOMAIN f : sub[y] = items[f[y]]
  <2>1. Len(sub) = Len(f) /\ DOMAIN sub = 1 .. Len(f) BY <1>1
  <2>2. Len(sub) # 0 BY <1>1
  <2> QED BY <1>1, <2>1, <2>2
<1>3. IsScan(scan, I, T, N, D, Z) /\ Dealt(sub, threshold, Len(sub), scan)
  BY <1>1, FuseHeadSplits
<1>4. PICK p, r :
        /\ Scanned(sub, Len(sub), scan, p, r)
        /\ Sized(sub, threshold) => Fitting(sub, threshold, scan, p, r)
  BY <1>3 DEF Dealt
<1>5. /\ p \in Seq(1 .. Len(f)) /\ Increasing(p) /\ Len(p) > 0 /\ p[1] = 1
      /\ r \in Seq(1 .. Len(f)) /\ Increasing(r)
      /\ Len(p) \in Nat /\ DOMAIN p = 1 .. Len(p) /\ 1 \in DOMAIN p
      /\ Len(r) \in Nat /\ DOMAIN r = 1 .. Len(r)
      /\ \A x \in DOMAIN p : p[x] \in DOMAIN f
      /\ \A y \in DOMAIN r : r[y] \in DOMAIN f
  <2>1. /\ p \in Seq(1 .. Len(f)) /\ Increasing(p) /\ Len(p) > 0 /\ p[1] = 1
        /\ r \in Seq(1 .. Len(f)) /\ Increasing(r)
    BY <1>2, <1>4 DEF Scanned, Splits
  <2>2. /\ Len(p) \in Nat /\ DOMAIN p = 1 .. Len(p)
        /\ Len(r) \in Nat /\ DOMAIN r = 1 .. Len(r)
        /\ \A x \in DOMAIN p : p[x] \in 1 .. Len(f)
        /\ \A y \in DOMAIN r : r[y] \in 1 .. Len(f)
    BY <2>1
  <2> QED BY <1>1, <2>1, <2>2
<1> DEFINE fp == Picked(f, p)
           fr == Picked(f, r)
<1>6. /\ fp \in Seq(1 .. n) /\ Increasing(fp) /\ Len(fp) = Len(p)
      /\ DOMAIN fp = DOMAIN p
      /\ \A x \in DOMAIN fp : fp[x] = f[p[x]] /\ p[x] \in DOMAIN f
  BY <1>1, <1>5, Within
<1>7. /\ fr \in Seq(1 .. n) /\ Increasing(fr) /\ Len(fr) = Len(r)
      /\ DOMAIN fr = DOMAIN r
      /\ \A y \in DOMAIN fr : fr[y] = f[r[y]] /\ r[y] \in DOMAIN f
  <2>1. n \in Nat /\ f \in Seq(1 .. n) /\ Increasing(f) BY <1>1
  <2>2. r \in Seq(1 .. Len(f)) BY <1>5
  <2>3. Increasing(r) BY <1>5
  <2> HIDE DEF n
  <2> QED BY <2>1, <2>2, <2>3, Within
<1> HIDE DEF fp, fr, sub, n
<1>8. /\ fp[1] = f[1] /\ 1 \in DOMAIN f /\ items[fp[1]] = sub[1]
      /\ \A x \in DOMAIN fp : items[fp[x]] = sub[p[x]]
      /\ \A y \in DOMAIN fr : items[fr[y]] = sub[r[y]]
  <2>1. fp[1] = f[1] /\ 1 \in DOMAIN f BY <1>5, <1>6
  <2>2. items[fp[1]] = sub[1] BY <1>2, <2>1
  <2>3. \A x \in DOMAIN fp : items[fp[x]] = sub[p[x]] BY <1>2, <1>6
  <2>4. \A y \in DOMAIN fr : items[fr[y]] = sub[r[y]] BY <1>2, <1>7
  <2> QED BY <2>1, <2>2, <2>3, <2>4
<1>9. Sized(items, threshold) => Sized(sub, threshold)
  <2>1. \A y \in DOMAIN f : f[y] \in DOMAIN items BY <1>1 DEF n
  <2> QED BY <1>1, <1>2, <2>1 DEF Sized
<1>10. Covers(items, threshold, scan.fused, fp)
  <2>1. scan.fused.names = [x \in 1 .. Len(fp) |-> NameOf(items[fp[x]])]
    <3>1. scan.fused.names = [x \in 1 .. Len(p) |-> NameOf(sub[p[x]])]
      BY <1>4 DEF Scanned
    <3>2. \A x \in 1 .. Len(p) : NameOf(items[fp[x]]) = NameOf(sub[p[x]])
      BY <1>5, <1>6, <1>8
    <3> QED BY <1>6, <3>1, <3>2
  <2>2. \A x \in DOMAIN fp : SameClass(items[fp[1]], items[fp[x]])
    BY <1>4, <1>6, <1>8 DEF Scanned
  <2>3. /\ scan.fused.type = items[fp[1]].response.type
        /\ scan.fused.devices = items[fp[1]].response.devices
    BY <1>4, <1>8 DEF Scanned
  <2>4. scan.fused.type # "ALLGATHER" => scan.fused.sizes = items[fp[1]].response.sizes
    BY <1>4, <1>6, <1>8 DEF Scanned
  <2> QED BY <1>5, <1>6, <2>1, <2>2, <2>3, <2>4 DEF Covers, n
<1>11. Sized(items, threshold) => FitsIn(items, threshold, fp)
  <2> SUFFICES ASSUME Sized(items, threshold), Len(fp) > 1
               PROVE  \E w \in [0 .. Len(fp) -> Nat] :
                        /\ w[0] = 0 /\ w[Len(fp)] <= threshold
                        /\ \A x \in 1 .. Len(fp) :
                              w[x] = w[x - 1] + ItemBytes(items[fp[1]], items[fp[x]])
    BY DEF FitsIn
  <2>1. AddUp(sub, p, scan.bytes) /\ scan.bytes <= threshold
    BY <1>4, <1>6, <1>9 DEF Fitting
  <2>2. PICK w \in [0 .. Len(p) -> Nat] :
          /\ w[0] = 0 /\ w[Len(p)] = scan.bytes
          /\ \A x \in 1 .. Len(p) :
                w[x] = w[x - 1] + ItemBytes(sub[1], sub[p[x]])
    BY <2>1 DEF AddUp
  <2>3. \A x \in 1 .. Len(fp) :
           ItemBytes(items[fp[1]], items[fp[x]]) = ItemBytes(sub[1], sub[p[x]])
    BY <1>5, <1>6, <1>8
  <2>4. Len(p) = Len(fp) BY <1>6
  <2>5. w \in [0 .. Len(fp) -> Nat] /\ w[0] = 0 /\ w[Len(fp)] <= threshold
    BY <2>1, <2>2, <2>4
  <2>6. \A x \in 1 .. Len(fp) : w[x] = w[x - 1] + ItemBytes(items[fp[1]], items[fp[x]])
    BY <2>2, <2>3, <2>4
  <2> QED BY <2>5, <2>6
<1>12. Apart(items, threshold, fp, fr)
  <2> SUFFICES ASSUME NEW x \in DOMAIN fp, NEW y \in DOMAIN fr
               PROVE  /\ fp[x] # fr[y]
                      /\ fp[1] < fr[y]
                      /\ Sized(items, threshold) /\ SameClass(items[fp[x]], items[fr[y]])
                            => fp[x] < fr[y]
    BY DEF Apart
  <2>1. /\ fp[x] = f[p[x]] /\ fr[y] = f[r[y]] /\ p[x] \in DOMAIN f /\ r[y] \in DOMAIN f
        /\ p[x] \in Nat /\ r[y] \in Nat /\ f[p[x]] \in Nat /\ f[r[y]] \in Nat /\ r[y] >= 1
    <3>1. /\ fp[x] = f[p[x]] /\ p[x] \in DOMAIN f BY <1>6
    <3>2. /\ fr[y] = f[r[y]] /\ r[y] \in DOMAIN f BY <1>7
    <3>3. p[x] \in 1 .. Len(f) /\ r[y] \in 1 .. Len(f) BY <1>1, <3>1, <3>2
    <3>4. f[p[x]] \in 1 .. n /\ f[r[y]] \in 1 .. n BY <1>1, <3>1, <3>2
    <3>5. n \in Nat /\ Len(f) \in Nat BY <1>1
    <3> QED BY <3>1, <3>2, <3>3, <3>4, <3>5
  <2>2. p[x] # r[y] /\ p[1] # r[y]
    <3>1. x \in DOMAIN p /\ y \in DOMAIN r /\ 1 \in DOMAIN p BY <1>5, <1>6, <1>7
    <3> QED BY <1>4, <3>1 DEF Scanned, Splits
  <2>3. \A u, v \in DOMAIN f : u < v => f[u] < f[v]
    BY <1>1 DEF Increasing
  <2>4. fp[x] # fr[y]
    <3>1. p[x] < r[y] \/ r[y] < p[x] BY <2>1, <2>2
    <3> QED BY <2>1, <2>3, <3>1
  <2>5. fp[1] < fr[y]
    <3>1. 1 < r[y] BY <1>5, <2>1, <2>2
    <3> QED BY <1>8, <2>1, <2>3, <3>1
  <2>6. ASSUME Sized(items, threshold), SameClass(items[fp[x]], items[fr[y]])
        PROVE  fp[x] < fr[y]
    <3>1. SameClass(sub[1], sub[p[x]]) /\ SameClass(sub[p[x]], sub[r[y]])
      BY <1>4, <1>6, <1>8, <2>6 DEF Scanned
    <3>2. SameClass(sub[1], sub[r[y]])
      BY <3>1 DEF SameClass
    <3>3. p[x] < r[y]
      BY <1>4, <1>6, <1>7, <1>9, <2>6, <3>2 DEF Fitting
    <3> QED BY <2>1, <2>3, <3>3
  <2> QED BY <2>4, <2>5, <2>6
<1> DEFINE src2 == [a \in 1 .. L + 1 |-> IF a = L + 1 THEN fp ELSE src[a]]
           list2 == Append(acc.list, scan.fused)
<1>13. /\ list2 \in Seq(Responses(T, N, D, Z)) /\ Len(list2) = L + 1
       /\ list2[L + 1] = scan.fused
       /\ \A a \in 1 .. L : list2[a] = acc.list[a]
  BY <1>1, <1>3, AppendElements DEF IsScan
<1>14. next.list = list2 /\ next.items = scan.rest
  OBVIOUS
<1>15. IsAcc(next, I, T, N, D, Z)
  BY <1>3, <1>13 DEF IsAcc, IsScan
<1> HIDE DEF list2
<1>16. src2[L + 1] = fp /\ \A a \in 1 .. L : src2[a] = src[a]
  BY <1>1
<1> HIDE DEF src2, L
<1>17. Laid(items, threshold, list2, src2)
  <2>1. ASSUME NEW a \in 1 .. Len(list2)
        PROVE  /\ Covers(items, threshold, list2[a], src2[a])
               /\ Sized(items, threshold) => FitsIn(items, threshold, src2[a])
    <3>1. CASE a = L + 1 BY <1>10, <1>11, <1>13, <1>16, <3>1
    <3>2. CASE a # L + 1
      <4>1. a \in 1 .. L BY <1>1, <1>13, <3>2
      <4> QED BY <1>13, <1>16, <4>1 DEF Held, Laid, L
    <3> QED BY <3>1, <3>2
  <2>2. ASSUME NEW a \in 1 .. Len(list2), NEW b \in 1 .. Len(list2), a < b
        PROVE  Apart(items, threshold, src2[a], src2[b])
    <3>0. a \in 1 .. L BY <1>1, <1>13, <2>2
    <3>1. CASE b = L + 1
      <4>1. Apart(items, threshold, src[a], f) BY <3>0 DEF Held, L
      <4>2. Apart(items, threshold, src[a], fp) BY <1>6, <4>1, ApartWithin
      <4> QED BY <1>16, <3>0, <3>1, <4>2
    <3>2. CASE b # L + 1
      <4>1. b \in 1 .. L BY <1>1, <1>13, <3>2
      <4> QED BY <1>16, <2>2, <3>0, <4>1 DEF Held, Laid, L
    <3> QED BY <3>1, <3>2
  <2> QED BY <2>1, <2>2 DEF Laid
<1>18. scan.rest = [y \in 1 .. Len(fr) |-> items[fr[y]]]
  <2>1. scan.rest = [y \in 1 .. Len(r) |-> sub[r[y]]]
    BY <1>4 DEF Scanned
  <2>2. \A y \in 1 .. Len(r) : items[fr[y]] = sub[r[y]]
    BY <1>5, <1>7, <1>8
  <2> QED BY <1>7, <2>1, <2>2
<1>19. \A a \in 1 .. Len(list2) : Apart(items, threshold, src2[a], fr)
  <2> SUFFICES ASSUME NEW a \in 1 .. Len(list2)
               PROVE  Apart(items, threshold, src2[a], fr)
    OBVIOUS
  <2>1. CASE a = L + 1 BY <1>12, <1>16, <2>1
  <2>2. CASE a # L + 1
    <3>1. a \in 1 .. L BY <1>1, <1>13, <2>2
    <3>2. Apart(items, threshold, src[a], f) BY <3>1 DEF Held, L
    <3>3. Apart(items, threshold, src[a], fr) BY <1>7, <3>2, ApartWithin
    <3> QED BY <1>16, <3>1, <3>3
  <2> QED BY <2>1, <2>2
<1>20. ASSUME NEW j \in 1 .. n
       PROVE  \/ \E a \in 1 .. Len(list2) : \E x \in DOMAIN src2[a] : src2[a][x] = j
              \/ \E y \in DOMAIN fr : fr[y] = j
  <2>1. \/ \E a \in 1 .. L : \E x \in DOMAIN src[a] : src[a][x] = j
        \/ \E y \in DOMAIN f : f[y] = j
    BY DEF Held, n, L
  <2>2. CASE \E a \in 1 .. L : \E x \in DOMAIN src[a] : src[a][x] = j
    <3>1. PICK a \in 1 .. L : \E x \in DOMAIN src[a] : src[a][x] = j BY <2>2
    <3>2. a \in 1 .. Len(list2) /\ src2[a] = src[a] BY <1>1, <1>13, <1>16
    <3> QED BY <3>1, <3>2
  <2>3. CASE \E y \in DOMAIN f : f[y] = j
    <3>1. PICK y \in DOMAIN f : f[y] = j BY <2>3
    <3>2. y \in 1 .. Len(sub) BY <1>1, <1>2
    <3>3. (\E x \in DOMAIN p : p[x] = y) \/ (\E z \in DOMAIN r : r[z] = y)
      BY <1>4, <3>2 DEF Scanned, Splits
    <3>4. CASE \E x \in DOMAIN p : p[x] = y
      <4>1. PICK x \in DOMAIN p : p[x] = y BY <3>4
      <4>2. x \in DOMAIN src2[L + 1] /\ src2[L + 1][x] = j BY <1>6, <1>16, <3>1, <4>1
      <4>3. L + 1 \in 1 .. Len(list2) BY <1>1, <1>13 DEF L
      <4> QED BY <4>2, <4>3
    <3>5. CASE \E z \in DOMAIN r : r[z] = y
      <4>1. PICK z \in DOMAIN r : r[z] = y BY <3>5
      <4> QED BY <1>7, <3>1, <4>1
    <3> QED BY <3>3, <3>4, <3>5
  <2> QED BY <2>1, <2>2, <2>3
<1>21. Held(items, threshold, next, src2, fr)
  BY <1>7, <1>14, <1>17, <1>18, <1>19, <1>20 DEF Held, n
<1>22. Len(next.items) < Len(sub) \/ next.items = <<>>
  <2>1. \A y \in DOMAIN r : r[y] # 1
    <3>1. \A x \in DOMAIN p, y \in DOMAIN r : p[x] # r[y]
      BY <1>4 DEF Scanned, Splits
    <3> QED BY <1>5, <3>1
  <2>2. Len(r) = 0 \/ Len(r) <= Len(f) - 1
    BY <1>1, <1>5, <2>1, IncreasingBound
  <2>3. Len(scan.rest) = Len(r) /\ scan.rest \in Seq(I)
    BY <1>3, <1>5, <1>7, <1>18 DEF IsScan
  <2>4. CASE Len(r) = 0 BY <1>14, <2>3, <2>4
  <2>5. CASE Len(r) <= Len(f) - 1
    <3>1. Len(sub) = Len(f) /\ Len(f) \in Nat /\ Len(r) \in Nat BY <1>1, <1>2, <1>5
    <3>2. Len(next.items) = Len(r) BY <1>14, <2>3
    <3> QED BY <2>5, <3>1, <3>2
  <2> QED BY <2>2, <2>4, <2>5
<1> QED BY <1>15, <1>21, <1>22 DEF sub, Placed

\* One more response, if items are left.
LEMMA HoldsNext ==
    ASSUME NEW I, NEW T, NEW N, NEW D, NEW Z, Single(I, T, N, D, Z),
           NEW items \in Seq(I), NEW threshold, NEW k \in Nat,
           NEW acc, IsAcc(acc, I, T, N, D, Z), Holds(items, threshold, k, acc),
           NEW next, next = NextResponse(acc, threshold)
    PROVE  IsAcc(next, I, T, N, D, Z) /\ Holds(items, threshold, k + 1, next)
<1>1. CASE acc.items = <<>>
  <2>1. next = acc BY <1>1 DEF NextResponse
  <2> QED BY <1>1, <2>1 DEF Holds
<1>2. CASE acc.items # <<>>
  <2> DEFINE scan == FuseHead(acc.items, threshold)
  <2>1. next = [list |-> Append(acc.list, scan.fused), items |-> scan.rest]
    BY <1>2 DEF NextResponse
  <2>2. Placed(items, threshold, acc)
    BY DEF Holds
  <2>3. /\ IsAcc(next, I, T, N, D, Z)
        /\ Len(next.items) < Len(acc.items) \/ next.items = <<>>
        /\ Placed(items, threshold, next)
    <3> HIDE DEF scan
    <3>1. scan = FuseHead(acc.items, threshold) BY DEF scan
    <3> QED BY <1>2, <2>1, <2>2, <3>1, HeldNext
  <2>4. Len(acc.items) <= Len(items) - k
    BY <1>2 DEF Holds
  <2>5. /\ acc.items \in Seq(I) /\ next.items \in Seq(I)
        /\ Len(acc.items) \in Nat /\ Len(next.items) \in Nat /\ Len(items) \in Nat
    BY <2>3 DEF IsAcc
  <2>6. Len(next.items) <= Len(items) - (k + 1) \/ next.items = <<>>
    BY <2>3, <2>4, <2>5
  <2> QED BY <2>3, <2>6 DEF Holds
<1> QED BY <1>1, <1>2

\* The accumulators that FuseResponses chains exist.
LEMMA AccsExist ==
    ASSUME NEW items, NEW threshold, NEW n \in Nat, n = Len(items)
    PROVE  \E g : /\ g[0] = [list |-> <<>>, items |-> items]
                  /\ \A k \in 1 .. n : g[k] = NextResponse(g[k - 1], threshold)
                  /\ FuseResponses(items, threshold) = g[n].list
<1> DEFINE Acc(g, k) == IF k = 0 THEN [list |-> <<>>, items |-> items]
                        ELSE NextResponse(g[k - 1], threshold)
           S == {m \in 0 .. n : \E g : \A k \in 0 .. m : g[k] = Acc(g, k)}
<1>1. 0 \in S
  <2> DEFINE g == [k \in 0 .. 0 |-> [list |-> <<>>, items |-> items]]
  <2>1. \A k \in 0 .. 0 : g[k] = Acc(g, k) OBVIOUS
  <2> HIDE DEF g, Acc
  <2> QED BY <2>1
<1>2. ASSUME NEW m \in 1 .. n, m - 1 \in S PROVE m \in S
  <2>1. PICK g : \A k \in 0 .. m - 1 : g[k] = Acc(g, k)
    BY <1>2
  <2> DEFINE h == [k \in 0 .. m |-> IF k = m THEN Acc(g, m) ELSE g[k]]
  <2>2. ASSUME NEW k \in 0 .. m PROVE h[k] = Acc(h, k)
    <3>1. k # 0 => k - 1 \in 0 .. m - 1 /\ h[k - 1] = g[k - 1] OBVIOUS
    <3>2. Acc(h, k) = Acc(g, k) BY <3>1
    <3>3. CASE k = m BY <3>2, <3>3
    <3>4. CASE k # m
      <4>1. k \in 0 .. m - 1 BY <3>4
      <4> QED BY <2>1, <3>2, <3>4, <4>1
    <3> QED BY <3>3, <3>4
  <2> HIDE DEF Acc, h
  <2>3. m \in 0 .. n OBVIOUS
  <2> QED BY <2>2, <2>3
<1>3. 0 .. n \subseteq S
  <2> HIDE DEF S
  <2> QED BY <1>1, <1>2, UpToInduction
<1>4. PICK g : \A k \in 0 .. n : g[k] = Acc(g, k)
  <2>1. n \in S
    <3> n \in 0 .. n OBVIOUS
    <3> HIDE DEF S
    <3> QED BY <1>3
  <2> QED BY <2>1
<1> DEFINE Body(f) == [k \in 0 .. n |-> IF k = 0 THEN [list |-> <<>>, items |-> items]
                                        ELSE NextResponse(f[k - 1], threshold)]
           f0 == [k \in 0 .. n |-> g[k]]
           h == CHOOSE f : f = Body(f)
<1>5. f0 = Body(f0)
  <2>1. ASSUME NEW k \in 0 .. n PROVE g[k] = Acc(f0, k)
    <3>1. k # 0 => k - 1 \in 0 .. n /\ f0[k - 1] = g[k - 1] OBVIOUS
    <3> QED BY <1>4, <3>1
  <2> QED BY <2>1
<1>6. h = Body(h)
  <2> HIDE DEF Body, f0
  <2> QED BY <1>5
<1>7. FuseResponses(items, threshold) = h[n].list
  BY DEF FuseResponses
<1> HIDE DEF h
<1>8. \A k \in 0 .. n : h[k] = Acc(h, k)
  BY <1>6
<1>9. h[0] = [list |-> <<>>, items |-> items] /\ \A k \in 1 .. n : h[k] = NextResponse(h[k - 1], threshold)
  BY <1>8
<1> QED BY <1>7, <1>9

\* Every item is in exactly one response of the list, where the places of the
\* items in the responses are as Laid says.
Arranged(items, threshold, list, src) ==
    /\ Laid(items, threshold, list, src)
    /\ \A j \in 1 .. Len(items) :
          \E a \in 1 .. Len(list) : \E x \in DOMAIN src[a] : src[a][x] = j

\* FuseResponses loses and repeats nothing, and orders it as Laid says.
LEMMA FuseArranges ==
    ASSUME NEW I, NEW T, NEW N, NEW D, NEW Z, Single(I, T, N, D, Z),
           NEW items \in Seq(I), NEW threshold,
           NEW list, list = FuseResponses(items, threshold)
    PROVE  /\ list \in Seq(Responses(T, N, D, Z))
           /\ \E src : Arranged(items, threshold, list, src)
<1> DEFINE n == Len(items)
<1>1. n \in Nat OBVIOUS
<1>2. PICK g : /\ g[0] = [list |-> <<>>, items |-> items]
               /\ \A k \in 1 .. n : g[k] = NextResponse(g[k - 1], threshold)
               /\ FuseResponses(items, threshold) = g[n].list
  BY <1>1, AccsExist
<1> DEFINE Good(k) == IsAcc(g[k], I, T, N, D, Z) /\ Holds(items, threshold, k, g[k])
           S == {k \in 0 .. n : Good(k)}
<1>3. Good(0)
  <2>1. IsAcc(g[0], I, T, N, D, Z)
    BY <1>2 DEF IsAcc
  <2> DEFINE f == [y \in 1 .. n |-> y]
             src == <<>>
  <2>2. f \in Seq(1 .. n) /\ Len(f) = n /\ DOMAIN f = 1 .. n /\ \A y \in 1 .. n : f[y] = y
    BY <1>1
  <2> HIDE DEF f
  <2>3. Increasing(f) BY <2>2 DEF Increasing
  <2>4. items = [y \in 1 .. Len(f) |-> items[f[y]]]
    <3>1. items = [y \in 1 .. n |-> items[y]] BY SequenceIsFunction
    <3> QED BY <2>2, <3>1
  <2>5. Len(g[0].list) = 0 /\ g[0].items = items BY <1>2
  <2>6. Laid(items, threshold, g[0].list, src) BY <2>5 DEF Laid
  <2>7. \A j \in 1 .. n : \E y \in DOMAIN f : f[y] = j BY <2>2
  <2>8. Held(items, threshold, g[0], src, f)
    BY <2>2, <2>3, <2>4, <2>5, <2>6, <2>7 DEF Held
  <2>9. Len(g[0].items) <= Len(items) - 0 BY <1>1, <2>5
  <2> QED BY <2>1, <2>8, <2>9 DEF Holds, Placed
<1>4. ASSUME NEW k \in 1 .. n, k - 1 \in S PROVE k \in S
  <2>1. /\ k - 1 \in Nat /\ (k - 1) + 1 = k /\ k \in 0 .. n
        /\ g[k] = NextResponse(g[k - 1], threshold)
    BY <1>1, <1>2
  <2>2. IsAcc(g[k - 1], I, T, N, D, Z) BY <1>4
  <2>3. Holds(items, threshold, k - 1, g[k - 1]) BY <1>4
  <2>4. IsAcc(g[k], I, T, N, D, Z) /\ Holds(items, threshold, (k - 1) + 1, g[k])
    BY <2>1, <2>2, <2>3, HoldsNext
  <2> QED BY <2>1, <2>4
<1>5. 0 .. n \subseteq S
  <2>1. 0 \in S BY <1>1, <1>3
  <2> HIDE DEF S
  <2> QED BY <1>1, <1>4, <2>1, UpToInduction
<1>6. Good(n)
  <2>1. n \in 0 .. n BY <1>1
  <2> QED BY <1>5, <2>1
<1>7. g[n].items = <<>> /\ list = g[n].list
  <2>1. g[n].items \in Seq(I) /\ (Len(g[n].items) <= n - n \/ g[n].items = <<>>)
    BY <1>6 DEF IsAcc, Holds
  <2>2. Len(g[n].items) \in Nat BY <2>1
  <2>3. Len(g[n].items) <= n - n => Len(g[n].items) = 0 BY <1>1, <2>2
  <2>4. Len(g[n].items) = 0 => g[n].items = <<>> BY <2>1
  <2> QED BY <1>2, <2>1, <2>3, <2>4
<1>8. PICK src, f : Held(items, threshold, g[n], src, f)
  BY <1>6 DEF Holds, Placed
<1>9. DOMAIN f = {}
  <2>1. /\ f \in Seq(1 .. n) /\ g[n].items = [y \in 1 .. Len(f) |-> items[f[y]]]
    BY <1>8 DEF Held
  <2>2. DOMAIN g[n].items = {} BY <1>7
  <2>3. Len(f) \in Nat /\ DOMAIN f = 1 .. Len(f) BY <2>1
  <2> QED BY <2>1, <2>2, <2>3
<1>10. Arranged(items, threshold, list, src)
  BY <1>7, <1>8, <1>9 DEF Held, Arranged
<1> QED BY <1>6, <1>7, <1>10 DEF IsAcc

=============================================================================

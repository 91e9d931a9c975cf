--------------------------- MODULE MCFusionProofs ---------------------------
(***************************************************************************)
(* Proofs about MCFusion, for inputs of any length, tensors of any size    *)
(* and any threshold: no tensor is lost or repeated, what is fused fits,   *)
(* and no tensor overtakes another one of its class.  All three read off   *)
(* the places that FuseArranges gives to the items.                        *)
(***************************************************************************)
EXTENDS MCFusion, FusionProofs

OperationTypes == {"ALLREDUCE", "ALLGATHER", "ERROR"}

\* An item covers one tensor and, if an allgather, brings its bytes once.
Item ==
    {x \in [response : Responses(OperationTypes, Nat, {{0, 1}}, Nat),
            dtype : {"f32", "f64"}, size : Nat, out : Nat] :
        x.response.names = <<NameOf(x)>> /\ NameOf(x) \in Nat /\ x.out = x.size}

\* The names number the items.
Numbered ==
    /\ threshold \in Thresholds
    /\ items \in Seq(Item)
    /\ \A i \in 1 .. Len(items) : NameOf(items[i]) = i

-----------------------------------------------------------------------------
(* The places of a flattened list.                                         *)

\* What comes earlier in a flattened list comes from an earlier part, or from an
\* earlier place of the same part.
PlacedInOrder(seqs, whole) ==
    \A i, j \in 1 .. Len(whole) : i < j =>
        \E a, b \in 1 .. Len(seqs) : \E k \in 1 .. Len(seqs[a]), l \in 1 .. Len(seqs[b]) :
            /\ whole[i] = seqs[a][k] /\ whole[j] = seqs[b][l]
            /\ a < b \/ (a = b /\ k < l)

LEMMA OffsetsGrow ==
    ASSUME NEW n \in Nat, NEW off \in [0 .. n -> Nat],
           \A a \in 1 .. n : off[a - 1] <= off[a],
           NEW a \in 0 .. n, NEW b \in 0 .. n, a <= b
    PROVE  off[a] <= off[b]
<1> DEFINE S == {m \in 0 .. n : m < a \/ off[a] <= off[m]}
<1>1. 0 \in S
  <2>1. off[0] \in Nat OBVIOUS
  <2>2. a = 0 \/ 0 < a OBVIOUS
  <2> QED BY <2>1, <2>2
<1>2. ASSUME NEW i \in 1 .. n, i - 1 \in S PROVE i \in S
  <2>1. i - 1 \in 0 .. n /\ i \in 0 .. n OBVIOUS
  <2>2. off[i - 1] \in Nat /\ off[i] \in Nat /\ off[a] \in Nat /\ off[i - 1] <= off[i] BY <2>1
  <2>3. CASE i < a BY <2>1, <2>3
  <2>4. CASE i = a BY <2>1, <2>2, <2>4
  <2>5. CASE i > a
    <3>1. off[a] <= off[i - 1] BY <1>2, <2>5
    <3> QED BY <2>1, <2>2, <3>1
  <2> QED BY <2>3, <2>4, <2>5
<1>3. 0 .. n \subseteq S
  <2> HIDE DEF S
  <2> QED BY <1>1, <1>2, UpToInduction
<1> QED BY <1>3

LEMMA FlattenInOrder ==
    ASSUME NEW S, NEW seqs \in Seq(Seq(S))
    PROVE  PlacedInOrder(seqs, FlattenSeq(seqs))
<1> DEFINE whole == FlattenSeq(seqs)
           n == Len(seqs)
<1>1. whole \in Seq(S) /\ LaidOut(seqs, whole) BY FlattenLayout
<1>2. n \in Nat /\ \A a \in 1 .. n : Len(seqs[a]) \in Nat OBVIOUS
<1> HIDE DEF whole
<1>3. PICK off \in [0 .. Len(seqs) -> Nat] :
        /\ \A a \in 1 .. Len(seqs) : off[a] = off[a - 1] + Len(seqs[a])
        /\ \A a \in 1 .. Len(seqs) : \A k \in 1 .. Len(seqs[a]) :
              /\ off[a - 1] + k \in 1 .. Len(whole)
              /\ whole[off[a - 1] + k] = seqs[a][k]
        /\ \A j \in 1 .. Len(whole) :
              \E a \in 1 .. Len(seqs) : \E k \in 1 .. Len(seqs[a]) :
                  j = off[a - 1] + k
  BY <1>1 DEF LaidOut
<1> HIDE DEF n
<1>4. \A a \in 1 .. n : a - 1 \in 0 .. n /\ a \in 0 .. n BY <1>2
<1>5. \A a \in 1 .. n : /\ off[a - 1] \in Nat /\ off[a] \in Nat
                        /\ off[a] = off[a - 1] + Len(seqs[a]) /\ off[a - 1] <= off[a]
  BY <1>2, <1>3, <1>4 DEF n
<1>6. ASSUME NEW i \in 1 .. Len(whole), NEW j \in 1 .. Len(whole), i < j
      PROVE  \E a, b \in 1 .. n : \E k \in 1 .. Len(seqs[a]), l \in 1 .. Len(seqs[b]) :
                /\ whole[i] = seqs[a][k] /\ whole[j] = seqs[b][l]
                /\ a < b \/ (a = b /\ k < l)
  <2>1. PICK a \in 1 .. n : \E k \in 1 .. Len(seqs[a]) : i = off[a - 1] + k BY <1>3 DEF n
  <2>2. PICK k \in 1 .. Len(seqs[a]) : i = off[a - 1] + k BY <2>1
  <2>3. PICK b \in 1 .. n : \E l \in 1 .. Len(seqs[b]) : j = off[b - 1] + l BY <1>3 DEF n
  <2>4. PICK l \in 1 .. Len(seqs[b]) : j = off[b - 1] + l BY <2>3
  <2>5. whole[i] = seqs[a][k] /\ whole[j] = seqs[b][l] BY <1>3, <2>2, <2>4 DEF n
  <2>6. a \in Nat /\ b \in Nat /\ k \in Nat /\ l \in Nat
        /\ 1 <= k /\ l <= Len(seqs[b]) /\ Len(seqs[b]) \in Nat
    BY <1>2
  <2>7. ASSUME b < a PROVE FALSE
    <3>1. b <= a - 1 /\ a - 1 \in 0 .. n /\ b \in 0 .. n BY <1>4, <2>6, <2>7
    <3>2. off[b] <= off[a - 1] BY <1>2, <1>3, <1>5, <3>1, OffsetsGrow DEF n
    <3>3. /\ off[b - 1] \in Nat /\ off[b] \in Nat /\ off[a - 1] \in Nat
          /\ off[b] = off[b - 1] + Len(seqs[b])
      BY <1>5
    <3> DEFINE x == off[b - 1]
               y == off[a - 1]
               z == off[b]
               w == Len(seqs[b])
    <3>4. x \in Nat /\ y \in Nat /\ z \in Nat /\ w \in Nat /\ z = x + w /\ z <= y
      BY <2>6, <3>2, <3>3
    <3>5. y + k < x + l BY <1>6, <2>2, <2>4
    <3>6. k \in Nat /\ l \in Nat /\ 1 <= k /\ l <= w BY <2>6
    <3> HIDE DEF x, y, z, w
    <3> QED BY <3>4, <3>5, <3>6
  <2>8. ASSUME a = b PROVE k < l
    <3> DEFINE y == off[a - 1]
    <3>1. y \in Nat /\ y + k < y + l BY <1>5, <1>6, <2>2, <2>4, <2>8
    <3> HIDE DEF y
    <3> QED BY <2>6, <3>1
  <2>9. a < b \/ (a = b /\ k < l) BY <2>6, <2>7, <2>8
  <2> QED BY <2>5, <2>9
<1> QED BY <1>6 DEF PlacedInOrder, n, whole

-----------------------------------------------------------------------------
(* The inputs.                                                             *)

LEMMA NewItemIsItem ==
    ASSUME NEW n \in Nat, NEW class \in Classes, NEW bytes \in 1 .. MaxBytes
    PROVE  NewItem(n, class, bytes) \in Item /\ NameOf(NewItem(n, class, bytes)) = n
<1> DEFINE x == NewItem(n, class, bytes)
<1>1. class[1] \in OperationTypes /\ class[2] \in {"f32", "f64"}
  BY DEF Classes, OperationTypes
<1>2. bytes \in Nat BY BoundsAssumption
<1>3. x.response.names = <<n>> BY DEF NewItem
<1>4. x.response \in Responses(OperationTypes, Nat, {{0, 1}}, Nat)
  <2>1. <<n>> \in Seq(Nat) OBVIOUS
  <2>2. (IF class[1] = "ALLGATHER" THEN <<bytes>> ELSE <<>>) \in Seq(Nat) BY <1>2
  <2> QED BY <1>1, <2>1, <2>2 DEF NewItem, Responses
<1>5. x.dtype = class[2] /\ x.size = bytes /\ x.out = bytes BY DEF NewItem
<1>6. NameOf(x) = n
  <2>1. Head(<<n>>) = n OBVIOUS
  <2> QED BY <1>3, <2>1 DEF NameOf
<1>7. x = [response |-> x.response, dtype |-> x.dtype, size |-> x.size, out |-> x.out]
  BY DEF NewItem
<1> HIDE DEF x
<1>8. x \in [response : Responses(OperationTypes, Nat, {{0, 1}}, Nat),
             dtype : {"f32", "f64"}, size : Nat, out : Nat]
  BY <1>1, <1>2, <1>4, <1>5, <1>7
<1>9. x \in Item BY <1>3, <1>5, <1>6, <1>8 DEF Item
<1> QED BY <1>6, <1>9 DEF x

LEMMA AlwaysNumbered == Spec => []Numbered
<1>1. Init => Numbered
  <2> SUFFICES ASSUME Init PROVE Numbered OBVIOUS
  <2>1. items = <<>> /\ threshold \in Thresholds BY DEF Init
  <2>2. <<>> \in Seq(Item) /\ Len(<<>>) = 0 OBVIOUS
  <2> QED BY <2>1, <2>2 DEF Numbered
<1>2. Numbered /\ [Next]_vars => Numbered'
  <2> SUFFICES ASSUME Numbered, [Next]_vars PROVE Numbered' OBVIOUS
  <2>1. CASE UNCHANGED vars BY <2>1 DEF vars, Numbered
  <2>2. CASE Grow
    <3> DEFINE n == Len(items)
    <3>1. n \in Nat /\ n + 1 \in Nat BY DEF Numbered
    <3>2. PICK class \in Classes, bytes \in 1 .. MaxBytes :
              items' = Append(items, NewItem(n + 1, class, bytes))
      BY <2>2 DEF Grow
    <3> DEFINE x == NewItem(n + 1, class, bytes)
    <3>3. x \in Item /\ NameOf(x) = n + 1 BY <3>1, NewItemIsItem
    <3>4. items' = Append(items, x) BY <3>2
    <3>5. items \in Seq(Item) BY DEF Numbered
    <3> HIDE DEF x
    <3>6. items' \in Seq(Item) /\ Len(items') = n + 1 BY <3>3, <3>4, <3>5
    <3>7. ASSUME NEW i \in 1 .. n + 1 PROVE NameOf(items'[i]) = i
      <4>1. CASE i = n + 1
        <5>1. items'[i] = x BY <3>4, <3>5, <4>1
        <5> QED BY <3>3, <4>1, <5>1
      <4>2. CASE i # n + 1
        <5>1. i \in 1 .. n BY <3>1, <4>2
        <5>2. items'[i] = items[i] BY <3>4, <3>5, <5>1
        <5> QED BY <5>1, <5>2 DEF Numbered
      <4> QED BY <4>1, <4>2
    <3>8. threshold' \in Thresholds BY <2>2 DEF Grow, Numbered
    <3> HIDE DEF n
    <3>9. \A i \in 1 .. Len(items') : NameOf(items'[i]) = i BY <3>6, <3>7
    <3> QED BY <3>6, <3>8, <3>9 DEF Numbered, NameOf
  <2> QED BY <2>1, <2>2 DEF Next
<1> QED BY <1>1, <1>2, PTL DEF Spec

-----------------------------------------------------------------------------
(* What becomes of an input.  The names in a response are the places of    *)
(* its items, so that FuseArranges says all about the output.              *)

\* The responses of an output: increasing numbers, together all of 1 to Len(items).
Grouped(list) ==
    /\ list \in Seq(Responses(OperationTypes, Nat, {{0, 1}}, Nat))
    /\ \A a \in 1 .. Len(list) :
          /\ list[a].names \in Seq(1 .. Len(items)) /\ Len(list[a].names) > 0
          /\ Increasing(list[a].names)
          /\ \A x \in DOMAIN list[a].names :
                /\ SameClass(items[list[a].names[1]], items[list[a].names[x]])
                /\ items[list[a].names[x]].response.type = list[a].type
          /\ FitsIn(items, threshold, list[a].names)
    /\ \A a, b \in 1 .. Len(list) : a < b =>
          Apart(items, threshold, list[a].names, list[b].names)
    /\ \A j \in 1 .. Len(items) : \E a \in 1 .. Len(list) :
          \E x \in DOMAIN list[a].names : list[a].names[x] = j

LEMMA FuseGroups ==
    ASSUME Numbered
    PROVE  Grouped(FuseResponses(items, threshold)) /\ Sized(items, threshold)
<1> DEFINE list == FuseResponses(items, threshold)
<1>1. items \in Seq(Item) /\ threshold \in Nat BY BoundsAssumption DEF Numbered
<1>2. \A x \in Item : /\ x.response \in Responses(OperationTypes, Nat, {{0, 1}}, Nat)
                      /\ NameOf(x) \in Nat /\ x.response.names = <<NameOf(x)>>
                      /\ x.size \in Nat /\ x.out \in Nat
  BY DEF Item
<1>3. Single(Item, OperationTypes, Nat, {{0, 1}}, Nat) BY <1>2 DEF Single
<1>4. \A j \in DOMAIN items : items[j] \in Item BY <1>1
<1>5. Sized(items, threshold) BY <1>1, <1>2, <1>4 DEF Sized
<1> HIDE DEF list
<1>6. /\ list \in Seq(Responses(OperationTypes, Nat, {{0, 1}}, Nat))
      /\ \E src : Arranged(items, threshold, list, src)
  BY <1>1, <1>3, FuseArranges DEF list
<1>7. PICK src : Arranged(items, threshold, list, src) BY <1>6
<1>8. /\ \A a \in 1 .. Len(list) :
            Covers(items, threshold, list[a], src[a]) /\ FitsIn(items, threshold, src[a])
      /\ \A a, b \in 1 .. Len(list) : a < b => Apart(items, threshold, src[a], src[b])
      /\ \A j \in 1 .. Len(items) :
            \E a \in 1 .. Len(list) : \E x \in DOMAIN src[a] : src[a][x] = j
  BY <1>5, <1>7 DEF Arranged, Laid
<1>9. ASSUME NEW a \in 1 .. Len(list) PROVE list[a].names = src[a]
  <2>1. /\ src[a] \in Seq(1 .. Len(items))
        /\ list[a].names = [x \in 1 .. Len(src[a]) |-> NameOf(items[src[a][x]])]
    BY <1>8 DEF Covers
  <2>2. src[a] = [x \in 1 .. Len(src[a]) |-> src[a][x]] BY <2>1, SequenceIsFunction
  <2>3. \A x \in 1 .. Len(src[a]) : src[a][x] \in 1 .. Len(items) BY <2>1
  <2>4. \A x \in 1 .. Len(src[a]) : NameOf(items[src[a][x]]) = src[a][x] BY <2>3 DEF Numbered
  <2> QED BY <2>1, <2>2, <2>4
<1>10. ASSUME NEW a \in 1 .. Len(list)
       PROVE  /\ list[a].names \in Seq(1 .. Len(items)) /\ Len(list[a].names) > 0
              /\ Increasing(list[a].names)
              /\ \A x \in DOMAIN list[a].names :
                    /\ SameClass(items[list[a].names[1]], items[list[a].names[x]])
                    /\ items[list[a].names[x]].response.type = list[a].type
              /\ FitsIn(items, threshold, list[a].names)
  <2>1. list[a].names = src[a] BY <1>9
  <2>2. /\ src[a] \in Seq(1 .. Len(items)) /\ Len(src[a]) > 0 /\ Increasing(src[a])
        /\ list[a].type = items[src[a][1]].response.type
        /\ \A x \in DOMAIN src[a] : SameClass(items[src[a][1]], items[src[a][x]])
    BY <1>8 DEF Covers
  <2>3. \A x \in DOMAIN src[a] : items[src[a][x]].response.type = list[a].type
    BY <2>2 DEF SameClass
  <2> QED BY <1>8, <2>1, <2>2, <2>3
<1>11. \A a, b \in 1 .. Len(list) : a < b =>
          Apart(items, threshold, list[a].names, list[b].names)
  BY <1>8, <1>9
<1>12. \A j \in 1 .. Len(items) : \E a \in 1 .. Len(list) :
          \E x \in DOMAIN list[a].names : list[a].names[x] = j
  BY <1>8, <1>9
<1>13. Grouped(list) BY <1>6, <1>10, <1>11, <1>12 DEF Grouped
<1> QED BY <1>5, <1>13 DEF list

\* The names of the responses, one list after the other.
LEMMA OrderOfGroups ==
    ASSUME NEW list, Grouped(list)
    PROVE  LET seqs == [a \in DOMAIN list |-> list[a].names]
           IN  /\ seqs \in Seq(Seq(1 .. Len(items))) /\ Len(seqs) = Len(list)
               /\ Order(list) = FlattenSeq(seqs)
               /\ Order(list) \in Seq(1 .. Len(items))
<1> DEFINE seqs == [a \in DOMAIN list |-> list[a].names]
<1>1. DOMAIN list = 1 .. Len(list) /\ Len(list) \in Nat BY DEF Grouped
<1>2. \A a \in 1 .. Len(list) : list[a].names \in Seq(1 .. Len(items)) BY DEF Grouped
<1>3. seqs \in [1 .. Len(list) -> Seq(1 .. Len(items))] BY <1>1, <1>2
<1>4. seqs \in Seq(Seq(1 .. Len(items))) /\ Len(seqs) = Len(list) BY <1>1, <1>3
<1>5. Order(list) = FlattenSeq(seqs) BY DEF Order
<1> HIDE DEF seqs
<1>6. FlattenSeq(seqs) \in Seq(1 .. Len(items)) BY <1>4, FlattenLayout
<1> QED BY <1>4, <1>5, <1>6 DEF seqs

\* The groups have no number in common, and none has one twice.
LEMMA OrderIsInjective ==
    ASSUME NEW list, Grouped(list)
    PROVE  IsInjective(Order(list))
<1> DEFINE seqs == [a \in DOMAIN list |-> list[a].names]
<1>1. /\ seqs \in Seq(Seq(1 .. Len(items))) /\ Len(seqs) = Len(list)
      /\ Order(list) = FlattenSeq(seqs)
  BY OrderOfGroups
<1>2. DOMAIN list = 1 .. Len(list) BY DEF Grouped
<1>3. DOMAIN seqs = 1 .. Len(list) /\ \A a \in 1 .. Len(list) : seqs[a] = list[a].names
  BY <1>2
<1> HIDE DEF seqs
<1>4. ASSUME NEW a \in DOMAIN seqs PROVE IsInjective(seqs[a])
  <2>1. seqs[a] \in Seq(1 .. Len(items)) /\ Increasing(seqs[a]) BY <1>3 DEF Grouped
  <2>2. \A x \in DOMAIN seqs[a] : x \in Nat /\ seqs[a][x] \in Nat BY <2>1
  <2>3. ASSUME NEW x \in DOMAIN seqs[a], NEW y \in DOMAIN seqs[a], seqs[a][x] = seqs[a][y]
        PROVE  x = y
    <3>1. ~(x < y) /\ ~(y < x) BY <2>1, <2>2, <2>3 DEF Increasing
    <3> QED BY <2>2, <3>1
  <2> QED BY <2>3 DEF IsInjective
<1>5. ASSUME NEW a \in DOMAIN seqs, NEW b \in DOMAIN seqs,
             ToSet(seqs[a]) \cap ToSet(seqs[b]) # {}
      PROVE  a = b
  <2>1. PICK x \in DOMAIN seqs[a], y \in DOMAIN seqs[b] : seqs[a][x] = seqs[b][y]
    BY <1>5 DEF ToSet
  <2>5. ASSUME NEW c \in 1 .. Len(list), NEW d \in 1 .. Len(list), c < d
        PROVE  \A v \in DOMAIN seqs[c], w \in DOMAIN seqs[d] : seqs[c][v] # seqs[d][w]
    <3>1. Apart(items, threshold, list[c].names, list[d].names) BY <2>5 DEF Grouped
    <3> QED BY <1>3, <3>1 DEF Apart
  <2>2. a < b => seqs[a][x] # seqs[b][y] BY <1>3, <2>5
  <2>3. b < a => seqs[a][x] # seqs[b][y] BY <1>3, <2>5
  <2>4. a \in Nat /\ b \in Nat BY <1>3
  <2> QED BY <2>1, <2>2, <2>3, <2>4
<1> QED BY <1>1, <1>4, <1>5, FlattenInjective

LEMMA OrderIsComplete ==
    ASSUME NEW list, Grouped(list)
    PROVE  /\ ToSet(Order(list)) = 1 .. Len(items)
           /\ Len(items) \in Nat => Len(Order(list)) = Len(items)
<1> DEFINE order == Order(list)
           seqs == [a \in DOMAIN list |-> list[a].names]
<1>1. /\ seqs \in Seq(Seq(1 .. Len(items))) /\ Len(seqs) = Len(list)
      /\ order = FlattenSeq(seqs) /\ order \in Seq(1 .. Len(items))
  BY OrderOfGroups
<1>2. DOMAIN list = 1 .. Len(list) BY DEF Grouped
<1>3. \A a \in 1 .. Len(list) : seqs[a] = list[a].names BY <1>2
<1>4. IsInjective(order) BY OrderIsInjective
<1> HIDE DEF seqs, order
<1>5. DOMAIN order = 1 .. Len(order) /\ Len(order) \in Nat
      /\ \A i \in 1 .. Len(order) : order[i] \in 1 .. Len(items)
  BY <1>1
<1>6. LaidOut(seqs, order) BY <1>1, FlattenLayout
<1>7. ASSUME NEW j \in 1 .. Len(items) PROVE \E i \in 1 .. Len(order) : order[i] = j
  <2>1. PICK a \in 1 .. Len(list) : \E x \in DOMAIN list[a].names : list[a].names[x] = j
    BY DEF Grouped
  <2>2. PICK x \in DOMAIN list[a].names : list[a].names[x] = j BY <2>1
  <2>3. a \in 1 .. Len(seqs) /\ seqs[a] = list[a].names BY <1>1, <1>3
  <2>4. x \in 1 .. Len(seqs[a])
    <3>1. seqs[a] \in Seq(1 .. Len(items)) BY <1>1, <2>3
    <3> QED BY <2>3, <3>1
  <2>5. PICK off \in [0 .. Len(seqs) -> Nat] :
          \A b \in 1 .. Len(seqs) : \A k \in 1 .. Len(seqs[b]) :
              /\ off[b - 1] + k \in 1 .. Len(order)
              /\ order[off[b - 1] + k] = seqs[b][k]
    BY <1>6 DEF LaidOut
  <2>6. off[a - 1] + x \in 1 .. Len(order) /\ order[off[a - 1] + x] = seqs[a][x]
    BY <2>3, <2>4, <2>5
  <2> QED BY <2>2, <2>3, <2>6
<1>8. ToSet(order) = 1 .. Len(items) BY <1>5, <1>7 DEF ToSet
<1>9. ASSUME Len(items) \in Nat PROVE Len(order) = Len(items)
  <2> DEFINE A == 1 .. Len(order)
             B == 1 .. Len(items)
  <2>1. IsFiniteSet(A) /\ Cardinality(A) = Len(order) BY <1>5, FS_Interval
  <2>2. IsFiniteSet(B) /\ Cardinality(B) = Len(items)
    <3>1. PICK n : n = Len(items) OBVIOUS
    <3>2. n \in Nat BY <1>9, <3>1
    <3>3. IsFiniteSet(1 .. n) /\ Cardinality(1 .. n) = n BY <3>2, FS_Interval
    <3> QED BY <3>1, <3>3
  <2>3. order \in [A -> B] BY <1>1, <1>5, SequenceIsFunction
  <2>4. \A k \in B : \E i \in A : order[i] = k BY <1>7
  <2> HIDE DEF A, B
  <2>5. order \in Surjection(A, B) BY <2>3, <2>4 DEF Surjection
  <2>6. order \in Injection(A, B) BY <1>4, <2>3 DEF Injection
  <2>7. order \in Bijection(A, B) BY <2>5, <2>6 DEF Bijection
  <2>8. ExistsBijection(A, B) BY <2>7 DEF ExistsBijection
  <2>9. Cardinality(B) = Cardinality(A) BY <2>1, <2>8, FS_Bijection
  <2> QED BY <2>1, <2>2, <2>9
<1> QED BY <1>8, <1>9 DEF order

\* Every ready tensor is in exactly one response: the look-ahead and the putting
\* back of what it skips neither lose nor repeat one.
THEOREM FusionLosesNothing == Spec => []NothingLost
<1>1. Numbered => NothingLost
  <2> SUFFICES ASSUME Numbered PROVE NothingLost OBVIOUS
  <2> DEFINE list == FuseResponses(items, threshold)
  <2>1. Grouped(list) BY FuseGroups
  <2>2. Len(items) \in Nat BY DEF Numbered
  <2> HIDE DEF list
  <2>3. Len(Order(list)) = Len(items) /\ ToSet(Order(list)) = 1 .. Len(items)
    BY <2>1, <2>2, OrderIsComplete
  <2> QED BY <2>3 DEF list, NothingLost
<1> QED BY <1>1, AlwaysNumbered, PTL

\* A response of several tensors fits the threshold and holds tensors of one
\* operation and one data type.
THEOREM FusionFits == Spec => []FitsTheBuffer
<1>1. Numbered => FitsTheBuffer
  <2> SUFFICES ASSUME Numbered PROVE FitsTheBuffer OBVIOUS
  <2> DEFINE list == FuseResponses(items, threshold)
  <2>1. Grouped(list) /\ Sized(items, threshold) BY FuseGroups
  <2> HIDE DEF list
  <2>2. DOMAIN list = 1 .. Len(list) BY <2>1 DEF Grouped
  <2>3. ASSUME NEW i \in 1 .. Len(list), Len(list[i].names) > 1
        PROVE  /\ Total(list[i]) <= threshold
               /\ \A n \in ToSet(list[i].names) :
                     /\ items[n].response.type = list[i].type
                     /\ items[n].dtype = items[list[i].names[1]].dtype
    <3> DEFINE s == list[i].names
               z == [k \in DOMAIN s |-> items[s[k]].size]
    <3>1. /\ s \in Seq(1 .. Len(items)) /\ DOMAIN s = 1 .. Len(s) /\ Len(s) \in Nat
          /\ FitsIn(items, threshold, s)
          /\ \A x \in DOMAIN s : /\ SameClass(items[s[1]], items[s[x]])
                                 /\ items[s[x]].response.type = list[i].type
      BY <2>1 DEF Grouped
    <3>2. \A n \in ToSet(s) : /\ items[n].response.type = list[i].type
                              /\ items[n].dtype = items[s[1]].dtype
      BY <3>1 DEF ToSet, SameClass
    <3>3. \A x \in 1 .. Len(s) : /\ items[s[x]].size \in Nat
                                 /\ ItemBytes(items[s[1]], items[s[x]]) = items[s[x]].size
      <4>1. \A x \in 1 .. Len(s) : s[x] \in 1 .. Len(items) BY <3>1
      <4>2. \A j \in 1 .. Len(items) : items[j] \in Item BY DEF Numbered
      <4>3. \A x \in 1 .. Len(s) : items[s[x]].size \in Nat /\ items[s[x]].out = items[s[x]].size
        BY <4>1, <4>2 DEF Item
      <4> QED BY <4>3 DEF ItemBytes
    <3>4. Total(list[i]) = SumOf(z) BY DEF Total
    <3>5. z \in [1 .. Len(s) -> Nat] /\ \A x \in 1 .. Len(s) : z[x] = items[s[x]].size
      BY <3>1, <3>3
    <3>6. z \in Seq(Nat) /\ Len(z) = Len(s) BY <3>1, <3>5
    <3>7. PICK w \in [0 .. Len(s) -> Nat] :
              /\ w[0] = 0 /\ w[Len(s)] <= threshold
              /\ \A x \in 1 .. Len(s) :
                    w[x] = w[x - 1] + ItemBytes(items[s[1]], items[s[x]])
      BY <2>3, <3>1 DEF FitsIn
    <3>8. \A x \in 1 .. Len(s) : w[x] = w[x - 1] + z[x] BY <3>3, <3>5, <3>7
    <3> HIDE DEF z
    <3>9. SumOf(z) = w[Len(z)] BY <3>6, <3>7, <3>8, SumIs
    <3> QED BY <3>2, <3>4, <3>6, <3>7, <3>9
  <2>4. \A i \in DOMAIN list : Len(list[i].names) > 1 =>
            /\ Total(list[i]) <= threshold
            /\ \A n \in ToSet(list[i].names) :
                  /\ items[n].response.type = list[i].type
                  /\ items[n].dtype = items[list[i].names[1]].dtype
    BY <2>2, <2>3
  <2> QED BY <2>4 DEF list, FitsTheBuffer
<1> QED BY <1>1, AlwaysNumbered, PTL

\* No tensor comes out before an earlier one of its class, though the look-ahead
\* passes others by, and the responses come in the order of their first tensors.
THEOREM FusionKeepsOrder == Spec => []NoOvertaking
<1>1. Numbered => NoOvertaking
  <2> SUFFICES ASSUME Numbered PROVE NoOvertaking OBVIOUS
  <2> DEFINE list == FuseResponses(items, threshold)
             order == Order(list)
             seqs == [a \in DOMAIN list |-> list[a].names]
  <2>1. Grouped(list) /\ Sized(items, threshold) BY FuseGroups
  <2> HIDE DEF list
  <2>2. /\ seqs \in Seq(Seq(1 .. Len(items))) /\ Len(seqs) = Len(list)
        /\ order = FlattenSeq(seqs) /\ order \in Seq(1 .. Len(items))
    BY <2>1, OrderOfGroups
  <2>3. DOMAIN list = 1 .. Len(list) BY <2>1 DEF Grouped
  <2>4. \A a \in 1 .. Len(list) : seqs[a] = list[a].names BY <2>3
  <2> HIDE DEF seqs, order
  <2>5. DOMAIN order = 1 .. Len(order) BY <2>2
  <2>6. PlacedInOrder(seqs, order) BY <2>2, FlattenInOrder
  <2>7. ASSUME NEW i \in DOMAIN order, NEW j \in DOMAIN order, i < j,
               SameClass(items[order[i]], items[order[j]])
        PROVE  order[i] < order[j]
    <3>1. PICK a \in 1 .. Len(seqs), b \in 1 .. Len(seqs) :
              \E k \in 1 .. Len(seqs[a]), l \in 1 .. Len(seqs[b]) :
                /\ order[i] = seqs[a][k] /\ order[j] = seqs[b][l]
                /\ a < b \/ (a = b /\ k < l)
      BY <2>5, <2>6, <2>7 DEF PlacedInOrder
    <3>2. PICK k \in 1 .. Len(seqs[a]), l \in 1 .. Len(seqs[b]) :
                /\ order[i] = seqs[a][k] /\ order[j] = seqs[b][l]
                /\ a < b \/ (a = b /\ k < l)
      BY <3>1
    <3>3. a \in 1 .. Len(list) /\ b \in 1 .. Len(list) BY <2>2
    <3>4. seqs[a] = list[a].names /\ seqs[b] = list[b].names BY <2>4, <3>3
    <3>5. k \in DOMAIN seqs[a] /\ l \in DOMAIN seqs[b]
      <4>0. seqs \in [1 .. Len(seqs) -> Seq(1 .. Len(items))] BY <2>2, SequenceIsFunction
      <4>1. seqs[a] \in Seq(1 .. Len(items)) /\ seqs[b] \in Seq(1 .. Len(items)) BY <4>0
      <4>2. DOMAIN seqs[a] = 1 .. Len(seqs[a]) /\ DOMAIN seqs[b] = 1 .. Len(seqs[b]) BY <4>1
      <4> QED BY <4>2
    <3>6. CASE a < b
      <4>1. Apart(items, threshold, seqs[a], seqs[b]) BY <2>1, <3>3, <3>4, <3>6 DEF Grouped
      <4> QED BY <2>1, <2>7, <3>2, <3>5, <4>1 DEF Apart
    <3>7. CASE a = b /\ k < l
      <4>1. Increasing(seqs[a]) BY <2>1, <3>3, <3>4 DEF Grouped
      <4> QED BY <3>2, <3>5, <3>7, <4>1 DEF Increasing
    <3> QED BY <3>2, <3>6, <3>7
  <2>8. ASSUME NEW a \in DOMAIN list, NEW b \in DOMAIN list, a < b
        PROVE  list[a].names[1] < list[b].names[1]
    <3>1. Apart(items, threshold, list[a].names, list[b].names)
      BY <2>1, <2>3, <2>8 DEF Grouped
    <3>2. 1 \in DOMAIN list[a].names /\ 1 \in DOMAIN list[b].names
      <4>1. ASSUME NEW c \in DOMAIN list PROVE 1 \in DOMAIN list[c].names
        <5>1. list[c].names \in Seq(1 .. Len(items)) /\ Len(list[c].names) > 0
          BY <2>1, <2>3 DEF Grouped
        <5> QED BY <5>1
      <4> QED BY <4>1
    <3> QED BY <3>1, <3>2 DEF Apart
  <2> QED BY <2>7, <2>8 DEF list, order, NoOvertaking
<1> QED BY <1>1, AlwaysNumbered, PTL
=============================================================================

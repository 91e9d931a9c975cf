----------------------------- MODULE SparkProofs -----------------------------
(***************************************************************************)
(* Proofs about SparkRun, for any number of tasks, any hosts, any number   *)
(* of lost requests and answers, and whatever raises or dies.              *)
(***************************************************************************)
EXTENDS SparkRun, FusionProofs

-----------------------------------------------------------------------------
(* The ring of tasks and the lists of hosts.                               *)

Next(t) == (t + 1) % NumProc

LEMMA NextTask ==
    ASSUME NEW t \in Tasks
    PROVE  /\ Next(t) \in Tasks
           /\ Next(t) = IF t = NumProc - 1 THEN 0 ELSE t + 1
<1>1. NumProc \in Nat /\ NumProc > 0 /\ t \in Nat /\ t <= NumProc - 1
  BY NumProcAssumption DEF Tasks
<1>2. CASE t = NumProc - 1
  <2>1. t + 1 = NumProc BY <1>1, <1>2
  <2>2. NumProc % NumProc = 0 BY <1>1
  <2>3. Next(t) = 0 BY <2>1, <2>2 DEF Next
  <2> QED BY <1>1, <1>2, <2>3 DEF Tasks
<1>3. CASE t # NumProc - 1
  <2>1. t + 1 \in Nat /\ t + 1 < NumProc BY <1>1, <1>3
  <2>2. (t + 1) % NumProc = t + 1 BY <1>1, <2>1
  <2> QED BY <1>1, <1>3, <2>1, <2>2 DEF Next, Tasks
<1> QED BY <1>2, <1>3

LEMMA NextIsOneToOne ==
    ASSUME NEW s \in Tasks, NEW t \in Tasks, Next(s) = Next(t)
    PROVE  s = t
<1>1. s \in Nat /\ t \in Nat BY DEF Tasks
<1>2. /\ (s = NumProc - 1 => Next(s) = 0) /\ (s # NumProc - 1 => Next(s) = s + 1)
      /\ (t = NumProc - 1 => Next(t) = 0) /\ (t # NumProc - 1 => Next(t) = t + 1)
  BY NextTask
<1>3. CASE s = NumProc - 1 \/ t = NumProc - 1 BY <1>1, <1>2, <1>3
<1>4. CASE s # NumProc - 1 /\ t # NumProc - 1 BY <1>1, <1>2, <1>4
<1> QED BY <1>3, <1>4

\* Inserting an element adds it, and nothing else.
LEMMA InsertElements ==
    ASSUME NEW S, NEW list \in Seq(S), NEW e \in S, NEW i \in 1 .. Len(list) + 1,
           NEW new, new = InsertAt(list, i, e)
    PROVE  /\ new \in Seq(S) /\ Len(new) = Len(list) + 1
           /\ ToSet(new) = ToSet(list) \cup {e}
           /\ IsInjective(list) /\ e \notin ToSet(list) => IsInjective(new)
<1> DEFINE n == Len(list)
<1>1. n \in Nat /\ i \in Nat /\ DOMAIN list = 1 .. n OBVIOUS
<1>2. /\ new \in Seq(S) /\ Len(new) = n + 1
      /\ \A x \in 1 .. n + 1 : new[x] = IF x < i THEN list[x]
                                        ELSE IF x = i THEN e ELSE list[x - 1]
  <2> DEFINE p == SubSeq(list, 1, i - 1)
             q == SubSeq(list, i, n)
  <2>1. p \in Seq(S) /\ Len(p) = i - 1 /\ \A x \in 1 .. i - 1 : p[x] = list[x] BY <1>1
  <2>2. q \in Seq(S) /\ Len(q) = n - i + 1 /\ \A x \in 1 .. n - i + 1 : q[x] = list[x + i - 1]
    BY <1>1
  <2>3. new = (p \o <<e>>) \o q BY DEF InsertAt
  <2> HIDE DEF p, q
  <2> DEFINE pe == p \o <<e>>
  <2>4. pe \in Seq(S) /\ Len(pe) = i
        /\ \A x \in 1 .. i : pe[x] = IF x < i THEN list[x] ELSE e
    BY <1>1, <2>1
  <2>5. new = pe \o q BY <2>3
  <2> HIDE DEF pe
  <2>6. new \in Seq(S) /\ Len(new) = n + 1 BY <1>1, <2>2, <2>4, <2>5
  <2>7. ASSUME NEW x \in 1 .. n + 1
        PROVE  new[x] = IF x < i THEN list[x] ELSE IF x = i THEN e ELSE list[x - 1]
    <3>1. CASE x <= i BY <1>1, <2>2, <2>4, <2>5, <3>1
    <3>2. CASE x > i
      <4>1. x - i \in 1 .. n - i + 1 /\ (x - i) + i - 1 = x - 1 BY <1>1, <3>2
      <4>2. new[x] = q[x - i] BY <1>1, <2>2, <2>4, <2>5, <3>2
      <4> QED BY <1>1, <2>2, <3>2, <4>1, <4>2
    <3> QED BY <1>1, <3>1, <3>2
  <2> QED BY <2>6, <2>7
<1>3. DOMAIN new = 1 .. n + 1 BY <1>1, <1>2
<1>4. ToSet(new) = ToSet(list) \cup {e}
  <2>1. ASSUME NEW x \in DOMAIN new PROVE new[x] \in ToSet(list) \cup {e}
    <3>1. CASE x < i BY <1>1, <1>2, <1>3, <3>1 DEF ToSet
    <3>2. CASE x = i BY <1>2, <1>3, <3>2
    <3>3. CASE x > i
      <4>1. x - 1 \in DOMAIN list /\ new[x] = list[x - 1] BY <1>1, <1>2, <1>3, <3>3
      <4> QED BY <4>1 DEF ToSet
    <3> QED BY <1>1, <1>3, <3>1, <3>2, <3>3
  <2>2. ASSUME NEW y \in DOMAIN list PROVE \E x \in DOMAIN new : new[x] = list[y]
    <3>1. CASE y < i
      <4>1. y \in DOMAIN new /\ new[y] = list[y] BY <1>1, <1>2, <1>3, <3>1
      <4> QED BY <4>1
    <3>2. CASE y >= i
      <4>1. y + 1 \in DOMAIN new /\ new[y + 1] = list[(y + 1) - 1] BY <1>1, <1>2, <1>3, <3>2
      <4>2. (y + 1) - 1 = y BY <1>1
      <4> QED BY <4>1, <4>2
    <3> QED BY <1>1, <3>1, <3>2
  <2>3. \E x \in DOMAIN new : new[x] = e BY <1>1, <1>2, <1>3
  <2> QED BY <2>1, <2>2, <2>3 DEF ToSet
<1>5. ASSUME IsInjective(list), e \notin ToSet(list) PROVE IsInjective(new)
  <2> DEFINE Old(x) == IF x < i THEN x ELSE x - 1
  <2>1. ASSUME NEW x \in DOMAIN new, x # i
        PROVE  Old(x) \in DOMAIN list /\ new[x] = list[Old(x)]
    BY <1>1, <1>2, <1>3, <2>1
  <2>2. \A x \in DOMAIN new : x # i => new[x] # e BY <1>5, <2>1 DEF ToSet
  <2>3. \A x \in DOMAIN new : x = i => new[x] = e BY <1>2, <1>3
  <2>4. ASSUME NEW x \in DOMAIN new, NEW y \in DOMAIN new, new[x] = new[y] PROVE x = y
    <3>1. x \in Nat /\ y \in Nat BY <1>1, <1>3
    <3>2. CASE x = i \/ y = i BY <2>2, <2>3, <2>4, <3>2
    <3>3. CASE x # i /\ y # i
      <4>1. Old(x) = Old(y) BY <1>5, <2>1, <2>4, <3>3 DEF IsInjective
      <4> QED BY <1>1, <3>1, <3>3, <4>1
    <3> QED BY <3>2, <3>3
  <2> QED BY <2>4 DEF IsInjective
<1> QED BY <1>2, <1>4, <1>5

\* Lists of lists of the same lengths make lists of the same length.
LEMMA FlattenLength ==
    ASSUME NEW S, NEW T, NEW seqs \in Seq(Seq(S)), NEW others \in Seq(Seq(T)),
           Len(seqs) = Len(others), \A i \in 1 .. Len(seqs) : Len(seqs[i]) = Len(others[i])
    PROVE  Len(FlattenSeq(seqs)) = Len(FlattenSeq(others))
<1> DEFINE n == Len(seqs)
<1>0. /\ n \in Nat
      /\ \A i \in 1 .. n : seqs[i] \in Seq(S) /\ others[i] \in Seq(T)
                           /\ Len(seqs[i]) = Len(others[i])
  BY SequenceIsFunction
<1>1. PICK g \in [0 .. n -> Seq(S)] :
              /\ g[0] = <<>>
              /\ \A i \in 1 .. n : g[i] = g[i - 1] \o seqs[i]
              /\ FlattenSeq(seqs) = g[n]
  BY FlattenSteps
<1>2. PICK h \in [0 .. Len(others) -> Seq(T)] :
              /\ h[0] = <<>>
              /\ \A i \in 1 .. Len(others) : h[i] = h[i - 1] \o others[i]
              /\ FlattenSeq(others) = h[Len(others)]
  BY FlattenSteps
<1>8. Len(others) = n OBVIOUS
<1> HIDE DEF n
<1> DEFINE D == {m \in 0 .. n : Len(g[m]) = Len(h[m])}
<1>3. 0 \in D
  <2>1. Len(g[0]) = 0 /\ Len(h[0]) = 0 BY <1>1, <1>2
  <2> QED BY <1>0, <2>1
<1>4. ASSUME NEW i \in 1 .. n, i - 1 \in D PROVE i \in D
  <2>1. i - 1 \in 0 .. n /\ i \in 0 .. n BY <1>0
  <2>2. g[i - 1] \in Seq(S) /\ g[i] = g[i - 1] \o seqs[i] BY <1>1, <2>1
  <2>3. h[i - 1] \in Seq(T) /\ h[i] = h[i - 1] \o others[i] BY <1>2, <1>8, <2>1
  <2>4. Len(g[i]) = Len(g[i - 1]) + Len(seqs[i])
    <3> DEFINE p == g[i - 1]
               q == seqs[i]
    <3>1. p \in Seq(S) /\ q \in Seq(S) /\ g[i] = p \o q BY <1>0, <2>2
    <3> HIDE DEF p, q
    <3>2. Len(g[i]) = Len(p) + Len(q) BY <3>1
    <3> QED BY <3>2 DEF p, q
  <2>5. Len(h[i]) = Len(h[i - 1]) + Len(others[i])
    <3> DEFINE p == h[i - 1]
               q == others[i]
    <3>1. p \in Seq(T) /\ q \in Seq(T) /\ h[i] = p \o q BY <1>0, <2>3
    <3> HIDE DEF p, q
    <3>2. Len(h[i]) = Len(p) + Len(q) BY <3>1
    <3> QED BY <3>2 DEF p, q
  <2>6. Len(g[i - 1]) = Len(h[i - 1]) /\ Len(seqs[i]) = Len(others[i]) BY <1>0, <1>4
  <2>7. Len(g[i]) = Len(h[i]) BY <2>4, <2>5, <2>6
  <2> QED BY <2>1, <2>7
<1>5. 0 .. n \subseteq D
  <2> HIDE DEF D
  <2> QED BY <1>0, <1>3, <1>4, UpToInduction
<1>6. n \in D BY <1>0, <1>5
<1> QED BY <1>1, <1>2, <1>6, <1>8

\* Every element of a part is an element of FlattenSeq.
LEMMA FlattenHas ==
    ASSUME NEW S, NEW seqs \in Seq(Seq(S)), NEW a \in DOMAIN seqs, NEW e \in ToSet(seqs[a])
    PROVE  e \in ToSet(FlattenSeq(seqs))
<1> DEFINE flat == FlattenSeq(seqs)
<1>1. flat \in Seq(S) /\ LaidOut(seqs, flat) BY FlattenLayout
<1> HIDE DEF flat
<1>2. PICK off \in [0 .. Len(seqs) -> Nat] :
        \A b \in 1 .. Len(seqs) : \A k \in 1 .. Len(seqs[b]) :
            /\ off[b - 1] + k \in 1 .. Len(flat)
            /\ flat[off[b - 1] + k] = seqs[b][k]
  BY <1>1 DEF LaidOut
<1>3. /\ DOMAIN flat = 1 .. Len(flat) /\ a \in 1 .. Len(seqs)
      /\ DOMAIN seqs[a] = 1 .. Len(seqs[a])
  BY <1>1
<1>4. PICK k \in 1 .. Len(seqs[a]) : seqs[a][k] = e BY <1>3 DEF ToSet
<1>5. off[a - 1] + k \in DOMAIN flat /\ flat[off[a - 1] + k] = e BY <1>2, <1>3, <1>4
<1>6. e \in ToSet(flat) BY <1>5 DEF ToSet
<1> QED BY <1>6 DEF flat

\* A list that begins at another of its places has the same elements.
Rotation(s, i) == SubSeq(s, i, Len(s)) \o SubSeq(s, 1, i - 1)

LEMMA Rotated ==
    ASSUME NEW S, NEW s \in Seq(S), NEW i \in DOMAIN s, NEW r, r = Rotation(s, i)
    PROVE  /\ r \in Seq(S) /\ ToSet(r) = ToSet(s)
           /\ IsInjective(s) => IsInjective(r)
<1> DEFINE n == Len(s)
           m == n - i + 1
           p == SubSeq(s, i, n)
           q == SubSeq(s, 1, i - 1)
           At1(x) == IF x <= m THEN x + i - 1 ELSE x - m
<1>1. n \in Nat /\ i \in 1 .. n /\ DOMAIN s = 1 .. n OBVIOUS
<1>2. m \in Nat /\ m + (i - 1) = n BY <1>1
<1>3. p \in Seq(S) /\ Len(p) = m /\ \A x \in 1 .. m : p[x] = s[x + i - 1] BY <1>1
<1>4. q \in Seq(S) /\ Len(q) = i - 1 /\ \A x \in 1 .. i - 1 : q[x] = s[x] BY <1>1
<1>5. r = p \o q BY DEF Rotation
<1> HIDE DEF n, m, p, q
<1>6. r \in Seq(S) /\ Len(r) = n /\ DOMAIN r = 1 .. n BY <1>1, <1>2, <1>3, <1>4, <1>5
<1>7. ASSUME NEW x \in 1 .. n PROVE At1(x) \in 1 .. n /\ r[x] = s[At1(x)]
  <2>1. CASE x <= m
    <3>1. r[x] = p[x] BY <1>1, <1>2, <1>3, <1>4, <1>5, <2>1
    <3> QED BY <1>1, <1>2, <1>3, <2>1, <3>1
  <2>2. CASE x > m
    <3>1. r[x] = q[x - m] BY <1>1, <1>2, <1>3, <1>4, <1>5, <2>2
    <3>2. x - m \in 1 .. i - 1 BY <1>1, <1>2, <2>2
    <3> QED BY <1>1, <1>2, <1>4, <2>2, <3>1, <3>2
  <2> QED BY <1>1, <1>2, <2>1, <2>2
<1>8. ASSUME NEW y \in 1 .. n PROVE \E x \in 1 .. n : At1(x) = y
  <2>1. CASE y >= i
    <3>1. y - i + 1 \in 1 .. n /\ At1(y - i + 1) = y BY <1>1, <1>2, <2>1
    <3> QED BY <3>1
  <2>2. CASE y < i
    <3>1. y + m \in 1 .. n /\ At1(y + m) = y BY <1>1, <1>2, <2>2
    <3> QED BY <3>1
  <2> QED BY <1>1, <2>1, <2>2
<1>9. \A x, y \in 1 .. n : At1(x) = At1(y) => x = y BY <1>1, <1>2
<1> HIDE DEF At1
<1>10. ToSet(r) = ToSet(s)
  <2>1. ASSUME NEW x \in DOMAIN r PROVE r[x] \in ToSet(s) BY <1>1, <1>6, <1>7 DEF ToSet
  <2>2. ASSUME NEW y \in DOMAIN s PROVE s[y] \in ToSet(r)
    <3>1. PICK x \in 1 .. n : At1(x) = y BY <1>1, <1>8
    <3> QED BY <1>6, <1>7, <3>1 DEF ToSet
  <2> QED BY <2>1, <2>2 DEF ToSet
<1>11. ASSUME IsInjective(s) PROVE IsInjective(r)
  <2>1. ASSUME NEW x \in 1 .. n, NEW y \in 1 .. n, r[x] = r[y] PROVE x = y
    <3>1. At1(x) = At1(y) BY <1>1, <1>7, <1>11, <2>1 DEF IsInjective
    <3> QED BY <1>9, <3>1
  <2> QED BY <1>6, <2>1 DEF IsInjective
<1> QED BY <1>6, <1>10, <1>11

\* A list with all tasks is long enough for the ranks, and no longer without
\* repetitions.
LEMMA TasksCounted ==
    ASSUME NEW s \in Seq(Tasks), ToSet(s) = Tasks
    PROVE  NumProc <= Len(s) /\ (IsInjective(s) => Len(s) = NumProc)
<1>1. IsFiniteSet(Tasks) /\ Cardinality(Tasks) = NumProc
  <2>1. NumProc - 1 \in Int /\ ~(0 > NumProc - 1) /\ (NumProc - 1) - 0 + 1 = NumProc
    BY NumProcAssumption
  <2> QED BY <2>1, FS_Interval DEF Tasks
<1>2. IsFiniteSet(1 .. Len(s)) /\ Cardinality(1 .. Len(s)) = Len(s)
  <2>1. Len(s) \in Nat OBVIOUS
  <2> QED BY <2>1, FS_Interval
<1>3. DOMAIN s = 1 .. Len(s) /\ s \in [1 .. Len(s) -> Tasks] BY SequenceIsFunction
<1>4. s \in Surjection(1 .. Len(s), Tasks)
  <2>1. \A t \in Tasks : \E x \in 1 .. Len(s) : s[x] = t BY <1>3 DEF ToSet
  <2> QED BY <1>3, <2>1 DEF Surjection
<1>5. /\ Cardinality(Tasks) <= Cardinality(1 .. Len(s))
      /\ Cardinality(Tasks) = Cardinality(1 .. Len(s)) <=> s \in Injection(1 .. Len(s), Tasks)
  BY <1>2, <1>4, FS_Surjection
<1>6. IsInjective(s) => s \in Injection(1 .. Len(s), Tasks)
  BY <1>3 DEF IsInjective, Injection
<1> QED BY <1>1, <1>2, <1>5, <1>6

-----------------------------------------------------------------------------
(* The inductive invariant.                                                *)

\* Every list is of tasks of its host, which have started.
ListsOfHosts ==
    \A h \in Hosts : \A t \in ToSet(indices[h]) : hostOf[t] = h /\ task[t] # "new"

\* A task that is past its registration is in the list of its host, and has been told
\* so when all the others were registered too.
TasksInOrder ==
    \A t \in Tasks :
        /\ task[t] \notin {"new", "register", "raised", "killed"} => t \in ToSet(indices[hostOf[t]])
        /\ task[t] \notin {"new", "register", "initial", "raised", "killed"} => t \in told
        /\ Next(t) \in ringed => task[t] \notin {"new", "register", "initial", "ring"}

DriverInOrder ==
    /\ driver \in {"notify", "ring", "plan", "mpi", "joining", "returned"} => Registered = Tasks
    /\ told # {} => Registered = Tasks
    /\ driver = "plan" => ringed = Tasks
    /\ driver \in {"registration", "notify", "ring", "plan"} => mpi = "off"
    /\ driver \in {"joining", "returned"} => mpi = "ok"
    /\ driver = "returned" => job = "ok"

MpiInOrder ==
    /\ mpi # "off" => Registered = Tasks /\ ringed = Tasks /\ ToSet(ranksToIndices) = Tasks
    /\ mpi \in {"off", "launching"} => \A r \in Ranks : worker[r] = "none"
    /\ mpi = "ok" => \A r \in Ranks : worker[r] = "done"
    /\ \A t \in Tasks : command[t] # "none" => mpi # "off" /\ t = First(hostOf[t])
    /\ \A t \in Tasks : command[t] = "ended" => mpi \in {"ok", "failed"}

JobInOrder == job = "ok" => \A t \in Tasks : task[t] = "returned"

Reason == lost > 0 \/ fault # {} \/ expired \/ Happened("late")

Undisturbed ==
    /\ \A t \in Tasks : task[t] \notin {"raised", "killed"}
    /\ job # "failed" /\ mpi # "failed" /\ driver \notin {"failing", "raised"}
    /\ \A r \in Ranks : worker[r] # "failed"
    /\ \A t \in Registered : task[t] # "register"
    /\ \A t \in Tasks : task[t] \in {"closing", "returned"} => command[First(hostOf[t])] = "ended"

SparkIInv ==
    /\ SparkTypeOK /\ ListsOfHosts /\ TasksInOrder /\ DriverInOrder /\ MpiInOrder /\ JobInOrder
    /\ Reason \/ Undisturbed

Once ==
    /\ \A h \in Hosts : IsInjective(indices[h])
    /\ \A t \in Tasks : task[t] \in {"new", "register"} => t \notin Registered
    /\ mpi # "off" => IsInjective(ranksToIndices)
    /\ \A r \in Ranks : worker[r] = "done" => fnResult[ranksToIndices[r + 1]] = r

Spoilt == Happened("gave up") \/ \E t \in Tasks : task[t] \in {"raised", "killed"}

ResultsRead ==
    \A t \in Tasks : task[t] \in {"closing", "returned"} =>
        mpi \in {"ok", "failed"} /\ value[t] = fnResult[t]

ResultsIInv ==
    /\ Happened("twice") \/ Once
    /\ Spoilt \/ ResultsRead

-----------------------------------------------------------------------------
(* The plan of the ranks.                                                  *)

\* Hosts that have a task.
InUse == {h \in Hosts : indices[h] # <<>>}

LEMMA ListElements ==
    ASSUME SparkTypeOK, NEW h \in Hosts
    PROVE  /\ indices[h] \in Seq(Tasks)
           /\ \A t \in ToSet(indices[h]) : t \in Tasks /\ t \in Registered /\ h \in InUse
           /\ h \in InUse => First(h) \in ToSet(indices[h]) /\ First(h) \in Registered
                             /\ First(h) \in Tasks
<1>1. indices[h] \in Seq(Tasks) BY DEF SparkTypeOK
<1>2. ASSUME NEW t \in ToSet(indices[h])
      PROVE  t \in Tasks /\ t \in Registered /\ h \in InUse
  <2>1. DOMAIN indices[h] = 1 .. Len(indices[h]) /\ indices[h] \in [1 .. Len(indices[h]) -> Tasks]
    BY <1>1, SequenceIsFunction
  <2>2. PICK x \in DOMAIN indices[h] : indices[h][x] = t BY DEF ToSet
  <2>3. indices[h] # <<>>
    <3>1. Len(indices[h]) > 0 BY <1>1, <2>1, <2>2
    <3> QED BY <3>1
  <2>4. t \in Tasks BY <2>1, <2>2
  <2> QED BY <2>3, <2>4 DEF Registered, InUse
<1>3. ASSUME h \in InUse PROVE First(h) \in ToSet(indices[h])
  <2>1. indices[h] # <<>> BY <1>3 DEF InUse
  <2>2. 1 \in DOMAIN indices[h] /\ Head(indices[h]) = indices[h][1]
    BY <1>1, <2>1, TailElements
  <2> QED BY <2>2 DEF ToSet, First
<1> QED BY <1>1, <1>2, <1>3

LEMMA HostsInOrder ==
    ASSUME SparkTypeOK, Registered = Tasks
    PROVE  HostList \in Seq(Hosts) /\ IsInjective(HostList) /\ ToSet(HostList) = InUse
<1> DEFINE sorted == Ascending(InUse)
           Has(i) == 0 \in ToSet(indices[sorted[i]])
           first == CHOOSE i \in DOMAIN sorted : Has(i)
<1>1. InUse \in SUBSET Nat /\ IsFiniteSet(InUse)
  BY HostsAssumption, FS_Subset DEF InUse
<1>2. /\ sorted \in Seq(InUse) /\ Increasing(sorted)
      /\ \A b \in InUse : \E k \in DOMAIN sorted : sorted[k] = b
  BY <1>1, AscendingEnumerates
<1>3. HostList = Rotation(sorted, first) BY DEF HostList, Rotation, InUse
<1> HIDE DEF sorted
<1>4. /\ DOMAIN sorted = 1 .. Len(sorted) /\ sorted \in [1 .. Len(sorted) -> InUse]
  BY <1>2, SequenceIsFunction
<1>5. IsInjective(sorted)
  <2>1. ASSUME NEW x \in DOMAIN sorted, NEW y \in DOMAIN sorted, sorted[x] = sorted[y]
        PROVE  x = y
    <3>1. sorted[x] \in Nat /\ sorted[y] \in Nat BY <1>1, <1>4
    <3>2. x \in Nat /\ y \in Nat BY <1>2, <1>4
    <3>3. ~(x < y) /\ ~(y < x) BY <1>2, <2>1, <3>1 DEF Increasing
    <3> QED BY <3>2, <3>3
  <2> QED BY <2>1 DEF IsInjective
<1>6. ToSet(sorted) = InUse BY <1>2, <1>4 DEF ToSet
<1>7. first \in DOMAIN sorted
  <2>1. 0 \in Registered BY NumProcAssumption DEF Tasks
  <2>2. PICK h \in Hosts : 0 \in ToSet(indices[h]) BY <2>1 DEF Registered
  <2>3. h \in InUse BY <2>2, ListElements
  <2>4. PICK k \in DOMAIN sorted : sorted[k] = h BY <1>2, <2>3
  <2>5. Has(k) BY <2>2, <2>4
  <2> HIDE DEF Has
  <2> QED BY <2>5
<1> HIDE DEF first
<1>8. /\ HostList \in Seq(InUse) /\ ToSet(HostList) = ToSet(sorted)
      /\ IsInjective(HostList)
  BY <1>2, <1>3, <1>5, <1>7, Rotated
<1>9. HostList \in Seq(Hosts)
  <2>1. InUse \subseteq Hosts BY DEF InUse
  <2> QED BY <1>8, <2>1
<1> QED BY <1>6, <1>8, <1>9

\* Every task is in ranks_to_indices, once when no list has it twice.
Plan == FlattenSeq([i \in DOMAIN HostList |-> indices[HostList[i]]])

LEMMA PlanCovers ==
    ASSUME SparkTypeOK, ListsOfHosts, Registered = Tasks
    PROVE  /\ Plan \in Seq(Tasks) /\ ToSet(Plan) = Tasks
           /\ (\A h \in Hosts : IsInjective(indices[h])) => IsInjective(Plan)
<1> DEFINE lists == [i \in DOMAIN HostList |-> indices[HostList[i]]]
           n == Len(HostList)
<1>1. HostList \in Seq(Hosts) /\ IsInjective(HostList) /\ ToSet(HostList) = InUse
  BY HostsInOrder
<1>2. /\ DOMAIN HostList = 1 .. n /\ n \in Nat /\ HostList \in [1 .. n -> Hosts]
  BY <1>1, SequenceIsFunction
<1>3. \A i \in 1 .. n : indices[HostList[i]] \in Seq(Tasks) BY <1>2, ListElements
<1>4. /\ lists \in Seq(Seq(Tasks)) /\ DOMAIN lists = 1 .. n
      /\ \A i \in 1 .. n : lists[i] = indices[HostList[i]]
  BY <1>2, <1>3
<1>5. Plan = FlattenSeq(lists) BY DEF Plan
<1> HIDE DEF lists, n
<1>6. FlattenSeq(lists) \in Seq(Tasks) BY <1>4, FlattenElements
<1>7. ASSUME NEW t \in Tasks PROVE t \in ToSet(FlattenSeq(lists))
  <2>1. PICK h \in Hosts : t \in ToSet(indices[h]) BY DEF Registered
  <2>2. h \in InUse BY <2>1, ListElements
  <2>3. PICK a \in 1 .. n : HostList[a] = h BY <1>1, <1>2, <2>2 DEF ToSet
  <2>4. t \in ToSet(lists[a]) /\ a \in DOMAIN lists BY <1>4, <2>1, <2>3
  <2> QED BY <1>4, <2>4, FlattenHas
<1>8. ToSet(FlattenSeq(lists)) = Tasks
  <2>1. FlattenSeq(lists) \in [1 .. Len(FlattenSeq(lists)) -> Tasks]
        /\ DOMAIN FlattenSeq(lists) = 1 .. Len(FlattenSeq(lists))
    BY <1>6, SequenceIsFunction
  <2>2. ToSet(FlattenSeq(lists)) \subseteq Tasks BY <2>1 DEF ToSet
  <2> QED BY <1>7, <2>2
<1>9. ASSUME \A h \in Hosts : IsInjective(indices[h]) PROVE IsInjective(FlattenSeq(lists))
  <2>1. \A a \in DOMAIN lists : IsInjective(lists[a]) BY <1>2, <1>4, <1>9
  <2>2. ASSUME NEW a \in DOMAIN lists, NEW b \in DOMAIN lists,
               ToSet(lists[a]) \cap ToSet(lists[b]) # {}
        PROVE  a = b
    <3>1. PICK t \in ToSet(lists[a]) : t \in ToSet(lists[b]) BY <2>2
    <3>2. /\ t \in ToSet(indices[HostList[a]]) /\ HostList[a] \in Hosts
          /\ t \in ToSet(indices[HostList[b]]) /\ HostList[b] \in Hosts
      BY <1>2, <1>4, <3>1
    <3>3. hostOf[t] = HostList[a] /\ hostOf[t] = HostList[b] BY <3>2 DEF ListsOfHosts
    <3> QED BY <1>1, <1>2, <1>4, <3>3 DEF IsInjective
  <2>3. \A a, b \in DOMAIN lists : ToSet(lists[a]) \cap ToSet(lists[b]) # {} => a = b
    BY <2>2
  <2> QED BY <1>4, <2>1, <2>3, FlattenInjective
<1> QED BY <1>5, <1>6, <1>8, <1>9

\* mpirun uses hosts that have a task.
LEMMA RanksHaveHosts ==
    ASSUME SparkTypeOK, ListsOfHosts, Registered = Tasks
    PROVE  UsedHosts \subseteq InUse
<1> DEFINE lists == [i \in DOMAIN HostList |-> indices[HostList[i]]]
           slots == [i \in DOMAIN HostList |-> [j \in DOMAIN indices[HostList[i]] |-> HostList[i]]]
           n == Len(HostList)
<1>1. HostList \in Seq(Hosts) /\ ToSet(HostList) = InUse BY HostsInOrder
<1>2. /\ DOMAIN HostList = 1 .. n /\ n \in Nat /\ HostList \in [1 .. n -> Hosts]
  BY <1>1, SequenceIsFunction
<1>3. ASSUME NEW i \in 1 .. n
      PROVE  /\ indices[HostList[i]] \in Seq(Tasks)
             /\ DOMAIN indices[HostList[i]] = 1 .. Len(indices[HostList[i]])
             /\ Len(indices[HostList[i]]) \in Nat
             /\ HostList[i] \in InUse
  <2>1. HostList[i] \in Hosts BY <1>2
  <2>2. indices[HostList[i]] \in Seq(Tasks) BY <2>1, ListElements
  <2>3. HostList[i] \in InUse BY <1>1, <1>2 DEF ToSet
  <2> QED BY <2>2, <2>3
<1>4. /\ lists \in Seq(Seq(Tasks)) /\ Len(lists) = n
      /\ \A i \in 1 .. n : lists[i] = indices[HostList[i]]
  BY <1>2, <1>3
<1>5. /\ slots \in Seq(Seq(InUse)) /\ Len(slots) = n
      /\ \A i \in 1 .. n : Len(slots[i]) = Len(indices[HostList[i]])
  <2>1. ASSUME NEW i \in 1 .. n
        PROVE  slots[i] \in Seq(InUse) /\ Len(slots[i]) = Len(indices[HostList[i]])
    <3>1. slots[i] = [j \in 1 .. Len(indices[HostList[i]]) |-> HostList[i]] BY <1>2, <1>3
    <3> QED BY <1>3, <3>1
  <2>2. DOMAIN slots = 1 .. n BY <1>2
  <2> QED BY <1>2, <2>1, <2>2
<1>6. Plan = FlattenSeq(lists) BY DEF Plan
<1>7. Slots(HostList) = FlattenSeq(slots) BY DEF Slots
<1> HIDE DEF lists, slots, n
<1>8. \A i \in 1 .. Len(slots) : Len(slots[i]) = Len(lists[i]) BY <1>4, <1>5
<1>9. Len(FlattenSeq(slots)) = Len(Plan)
  <2>1. slots \in Seq(Seq(InUse)) /\ lists \in Seq(Seq(Tasks)) /\ Len(slots) = Len(lists)
    BY <1>4, <1>5
  <2>2. Len(FlattenSeq(slots)) = Len(FlattenSeq(lists)) BY ONLY <1>8, <2>1, FlattenLength
  <2> QED BY <1>6, <2>2
<1>10. NumProc <= Len(Plan) BY PlanCovers, TasksCounted
<1>11. FlattenSeq(slots) \in Seq(InUse) BY <1>5, FlattenElements
<1>12. ASSUME NEW r \in Ranks PROVE HostOfRank(r) \in InUse
  <2>1. r + 1 \in 1 .. Len(FlattenSeq(slots))
    <3>1. r \in Nat /\ r <= NumProc - 1 BY NumProcAssumption DEF Ranks, Tasks
    <3>2. Len(FlattenSeq(slots)) \in Nat BY <1>11
    <3> QED BY NumProcAssumption, <1>9, <1>10, <3>1, <3>2
  <2>2. FlattenSeq(slots) \in [1 .. Len(FlattenSeq(slots)) -> InUse]
    BY <1>11, SequenceIsFunction
  <2>3. FlattenSeq(slots)[r + 1] \in InUse BY <2>1, <2>2
  <2> QED BY <1>7, <2>3 DEF HostOfRank
<1> QED BY <1>12 DEF UsedHosts

-----------------------------------------------------------------------------
(* What a step may do.                                                     *)

\* A registration adds a task to the list of its host.
LEMMA RegisterAdds ==
    ASSUME SparkTypeOK, NEW t \in Tasks, RegisterTask(t)
    PROVE  /\ indices' \in [Hosts -> Seq(Tasks)] /\ hostOf[t] \in Hosts
           /\ \A h \in Hosts : h # hostOf[t] => indices'[h] = indices[h]
           /\ ToSet(indices'[hostOf[t]]) = ToSet(indices[hostOf[t]]) \cup {t}
           /\ IsInjective(indices[hostOf[t]]) /\ t \notin ToSet(indices[hostOf[t]])
                  => IsInjective(indices'[hostOf[t]])
<1> DEFINE h0 == hostOf[t]
           list == indices[h0]
           small == {i \in DOMAIN list : list[i] <= t}
           place == Cardinality(small) + 1
           new == InsertAt(list, place, t)
<1>1. h0 \in Hosts /\ list \in Seq(Tasks) BY DEF SparkTypeOK
<1>2. indices' = [indices EXCEPT ![h0] = new] BY DEF RegisterTask
<1>3. place \in 1 .. Len(list) + 1
  <2>1. DOMAIN list = 1 .. Len(list) /\ Len(list) \in Nat BY <1>1
  <2>2. IsFiniteSet(1 .. Len(list)) /\ Cardinality(1 .. Len(list)) = Len(list)
    BY <2>1, FS_Interval
  <2>3. small \subseteq 1 .. Len(list) BY <2>1
  <2> HIDE DEF small
  <2>4. Cardinality(small) \in Nat /\ Cardinality(small) <= Len(list)
    BY <2>2, <2>3, FS_Subset, FS_CardinalityType
  <2> QED BY <2>1, <2>4
<1> HIDE DEF place
<1>4. /\ new \in Seq(Tasks) /\ ToSet(new) = ToSet(list) \cup {t}
      /\ IsInjective(list) /\ t \notin ToSet(list) => IsInjective(new)
  BY <1>1, <1>3, InsertElements
<1> HIDE DEF new
<1>5. indices \in [Hosts -> Seq(Tasks)] BY DEF SparkTypeOK
<1>6. indices' \in [Hosts -> Seq(Tasks)] /\ indices'[h0] = new
      /\ \A h \in Hosts : h # h0 => indices'[h] = indices[h]
  BY <1>1, <1>2, <1>4, <1>5
<1> QED BY <1>1, <1>4, <1>6

Killed == Kill /\ job = "running" /\ job' = "failed"

\* A cancelled job is failed and its tasks are killed.
LEMMA CancelKills ==
    ASSUME Cancel
    PROVE  /\ driver' = "failing"
           /\ UNCHANGED <<job, task>> \/ Killed
           /\ strays \subseteq strays'
BY DEF Cancel, Killed

LEMMA KillTypes ==
    ASSUME SparkTypeOK, Kill
    PROVE  /\ task' \in [Tasks -> {"returned", "raised", "killed"}]
           /\ \A t \in Tasks : task'[t] = IF task[t] \in {"returned", "raised"} THEN task[t]
                                          ELSE "killed"
BY DEF SparkTypeOK, Kill

LEMMA TypesKept ==
    ASSUME SparkIInv, [SparkNext]_sparkVars
    PROVE  SparkTypeOK'
<1> USE NumProcAssumption, RetriesAssumption DEF SparkTypeOK
<1>0. SparkTypeOK BY DEF SparkIInv
<1>1. ASSUME NEW t \in Tasks, StartTask(t) \/ Group(t) \/ CloseTask(t)
      PROVE  SparkTypeOK'
  <2>1. CASE StartTask(t) BY <1>0, <2>1 DEF StartTask, driverVars, mpiVars, envVars
  <2>2. CASE Group(t) BY <1>0, <2>2 DEF Group, driverVars, mpiVars, envVars
  <2>3. CASE CloseTask(t) BY <1>0, <2>3 DEF CloseTask, driverVars, mpiVars, envVars
  <2> QED BY <1>1, <2>1, <2>2, <2>3
<1>2. ASSUME NEW t \in Tasks, Await(t) PROVE SparkTypeOK'
  <2>1. t \in 0 .. NumProc BY DEF Tasks
  <2> QED BY <1>0, <1>2, <2>1 DEF Await, FallsAsleep, Raises, driverVars, mpiVars, envVars
<1>3. ASSUME NEW t \in Tasks, Register(t) PROVE SparkTypeOK'
  BY <1>0, <1>3, RegisterAdds DEF Register, mpiVars, envVars
<1>4. ASSUME NEW t \in Tasks, RegisterUnanswered(t) PROVE SparkTypeOK'
  <2>1. lost' \in 0 .. MaxLost
    <3>1. lost \in 0 .. MaxLost /\ lost < MaxLost /\ lost' = lost + 1
      BY <1>0, <1>4 DEF RegisterUnanswered
    <3> HIDE DEF SparkTypeOK
    <3> QED BY <3>1
  <2>2. indices' \in [Hosts -> Seq(Tasks)] BY <1>0, <1>4, RegisterAdds DEF RegisterUnanswered
  <2> QED BY <1>0, <1>4, <2>1, <2>2 DEF RegisterUnanswered, mpiVars, jobVars
<1>5. ASSUME NEW t \in Tasks, Ring(t) PROVE SparkTypeOK'
  BY <1>0, <1>5, NextTask DEF Ring, Next, Raises, mpiVars, envVars
<1>6. ASSUME NEW t \in Tasks, Follow(t) \/ Poll(t) \/ Die(t) PROVE SparkTypeOK'
  <2>1. CASE Follow(t) BY <1>0, <2>1 DEF Follow, Raises, driverVars, mpiVars
  <2>2. CASE Poll(t)
    <3>1. value' \in [Tasks -> 0 .. NumProc] /\ UNCHANGED fnResult BY <1>0, <2>2 DEF Poll
    <3>2. task' = [task EXCEPT ![t] = "closing"] BY <2>2 DEF Poll
    <3> QED BY <1>0, <2>2, <3>1, <3>2 DEF Poll, driverVars, mpiVars, envVars
  <2>3. CASE Die(t) BY <1>0, <2>3 DEF Die, Raises, driverVars, mpiVars
  <2> QED BY <1>6, <2>1, <2>2, <2>3
<1>7. ASSUME NEW t \in Tasks, GiveUpPolling(t) \/ GiveUp(t) PROVE SparkTypeOK'
  <2>1. lost' \in 0 .. MaxLost
    <3>1. lost \in 0 .. MaxLost /\ lost + Retries <= MaxLost /\ lost' = lost + Retries
      BY <1>0, <1>7 DEF GiveUpPolling, GiveUp
    <3> HIDE DEF SparkTypeOK
    <3> QED BY <3>1
  <2>2. CASE GiveUpPolling(t)
    <3>1. value' \in [Tasks -> 0 .. NumProc] /\ UNCHANGED fnResult
      BY <1>0, <2>2 DEF GiveUpPolling
    <3>2. task' = [task EXCEPT ![t] = "closing"] BY <2>2 DEF GiveUpPolling
    <3> QED BY <1>0, <2>1, <2>2, <3>1, <3>2 DEF GiveUpPolling, driverVars, mpiVars
  <2>3. CASE GiveUp(t) BY <1>0, <2>1, <2>3 DEF GiveUp, Raises, driverVars, mpiVars
  <2> QED BY <1>7, <2>2, <2>3
<1>8. CASE SubmitJob \/ JobReturns
  BY <1>0, <1>8 DEF SubmitJob, JobReturns, driverVars, mpiVars, envVars
<1>9. CASE JobFails
  BY <1>0, <1>9, KillTypes DEF JobFails, driverVars, mpiVars, envVars
<1>10. CASE AwaitTasks
  <2>1. NumProc \in 0 .. NumProc OBVIOUS
  <2>2. task' \in [Tasks -> {"new", "register", "initial", "ring", "group", "command", "run",
                             "follow", "poll", "closing", "returned", "raised", "killed"}]
        /\ job' \in {"pending", "running", "ok", "failed"}
    <3>1. UNCHANGED <<job, task>> \/ Killed BY <1>10, CancelKills DEF AwaitTasks
    <3> QED BY <1>0, <3>1, KillTypes DEF Killed
  <2>3. driver' \in {"notify", "plan", "failing", "registration", "ring"}
    BY <1>10 DEF AwaitTasks, Cancel
  <2>4. asleep' \subseteq 0 .. NumProc
    BY <1>0, <1>10, <2>1 DEF AwaitTasks, FallsAsleep
  <2> QED BY <1>0, <1>10, <2>2, <2>3, <2>4 DEF AwaitTasks, mpiVars
<1>11. CASE Notify
  <2>2. task' \in [Tasks -> {"new", "register", "initial", "ring", "group", "command", "run",
                             "follow", "poll", "closing", "returned", "raised", "killed"}]
        /\ job' \in {"pending", "running", "ok", "failed"}
    <3>1. UNCHANGED <<job, task>> \/ Killed BY <1>11, CancelKills DEF Notify
    <3> QED BY <1>0, <3>1, KillTypes DEF Killed
  <2>3. driver' \in {"notify", "failing", "ring"} BY <1>11 DEF Notify, Cancel
  <2>4. notified' \in 0 .. NumProc /\ told' \subseteq Tasks
    <3>1. /\ notified < NumProc /\ notified \in 0 .. NumProc /\ told \subseteq Tasks
          /\ \/ notified' = notified + 1 /\ told' = told \cup {notified}
             \/ UNCHANGED <<told, notified>>
      BY <1>0, <1>11 DEF Notify
    <3> HIDE DEF SparkTypeOK
    <3>2. notified \in Tasks BY <3>1 DEF Tasks
    <3>3. notified + 1 \in 0 .. NumProc BY ONLY <3>1, NumProcAssumption
    <3>4. CASE UNCHANGED <<told, notified>> BY <3>1, <3>4
    <3>5. CASE notified' = notified + 1 /\ told' = told \cup {notified}
      BY <3>1, <3>2, <3>3, <3>5
    <3> QED BY <3>1, <3>4, <3>5
  <2> QED BY <1>0, <1>11, <2>2, <2>3, <2>4 DEF Notify, mpiVars
<1>12. CASE PlanRanks
  <2>1. ranksToIndices' = Plan BY <1>12 DEF PlanRanks, Plan
  <2>2. Plan \in Seq(Tasks)
    BY <1>12, PlanCovers DEF PlanRanks, SparkIInv, DriverInOrder
  <2> QED BY <1>0, <1>12, <2>1, <2>2 DEF PlanRanks, jobVars, envVars
<1>13. CASE AfterMpi
  <2>2. task' \in [Tasks -> {"new", "register", "initial", "ring", "group", "command", "run",
                             "follow", "poll", "closing", "returned", "raised", "killed"}]
        /\ job' \in {"pending", "running", "ok", "failed"}
    <3>1. UNCHANGED <<job, task>> \/ Killed BY <1>13, CancelKills DEF AfterMpi
    <3> QED BY <1>0, <3>1, KillTypes DEF Killed
  <2>3. driver' \in {"joining", "failing"} BY <1>13 DEF AfterMpi, Cancel
  <2> QED BY <1>0, <1>13, <2>2, <2>3 DEF AfterMpi, mpiVars
<1>14. CASE Join
  BY <1>0, <1>14 DEF Join, jobVars, mpiVars, envVars
<1>15. ASSUME NEW h \in Hosts, RunCommand(h) PROVE SparkTypeOK'
  BY <1>0, <1>15 DEF RunCommand, MpiFails, CommandsEnd, driverVars, envVars
<1>16. ASSUME NEW r \in Ranks, RunFn(r) PROVE SparkTypeOK'
  <2>1. r \in 0 .. NumProc BY DEF Ranks, Tasks
  <2>2. fnResult' \in [Tasks -> 0 .. NumProc] BY <1>0, <1>16, <2>1 DEF RunFn
  <2>3. worker' \in [Ranks -> {"none", "running", "done", "failed"}] BY <1>0, <1>16 DEF RunFn
  <2> QED BY <1>0, <1>16, <2>2, <2>3 DEF RunFn, driverVars, envVars
<1>17. ASSUME NEW r \in Ranks, FnRaises(r) PROVE SparkTypeOK'
  BY <1>0, <1>17 DEF FnRaises, driverVars, jobVars
<1>18. CASE StartWorkers
  BY <1>0, <1>18 DEF StartWorkers, driverVars, jobVars, envVars
<1>19. CASE MpiEnds
  BY <1>0, <1>19 DEF MpiEnds, MpiFails, CommandsEnd, driverVars, envVars
<1>20. CASE Expire
  BY <1>0, <1>20 DEF Expire, driverVars, jobVars, mpiVars
<1>21. CASE UNCHANGED sparkVars
  BY <1>0, <1>21 DEF sparkVars
<1> QED BY <1>1, <1>2, <1>3, <1>4, <1>5, <1>6, <1>7, <1>8, <1>9, <1>10, <1>11, <1>12, <1>13,
           <1>14, <1>15, <1>16, <1>17, <1>18, <1>19, <1>20, <1>21 DEF SparkNext

\* A task goes on, or it raises, or the job is killed.
Moves(t) ==
    \/ task'[t] = task[t]
    \/ task[t] = "new" /\ task'[t] = "register"
    \/ task[t] = "register" /\ task'[t] = "initial" /\ t \in ToSet(indices'[hostOf[t]])
    \/ task[t] = "initial" /\ task'[t] = "ring" /\ t \in told
    \/ task[t] = "ring" /\ task'[t] = "group"
    \/ task[t] = "group" /\ task'[t] \in {"command", "follow"}
    \/ task[t] = "command" /\ task'[t] = "run"
    \/ task[t] = "follow" /\ task'[t] = "poll"
    \/ task[t] \in {"run", "poll"} /\ task'[t] = "closing"
    \/ task[t] = "closing" /\ task'[t] = "returned"
    \/ task[t] \notin {"new", "returned", "killed"} /\ task'[t] = "raised"
    \/ task[t] \notin {"returned", "raised"} /\ task'[t] = "killed" /\ job = "running"

LEMMA KilledMoves ==
    ASSUME SparkTypeOK, Killed \/ UNCHANGED task
    PROVE  \A t \in Tasks : Moves(t)
BY KillTypes DEF Killed, Moves

LEMMA TasksMove ==
    ASSUME SparkIInv, SparkNext
    PROVE  \A t \in Tasks : Moves(t)
<1>0. SparkTypeOK BY DEF SparkIInv
<1>1. task \in [Tasks -> {"new", "register", "initial", "ring", "group", "command", "run",
                          "follow", "poll", "closing", "returned", "raised", "killed"}]
  BY <1>0 DEF SparkTypeOK
<1>2. ASSUME NEW t \in Tasks, Moves(t), \A u \in Tasks : u # t => task'[u] = task[u]
      PROVE  \A u \in Tasks : Moves(u)
  BY <1>2 DEF Moves
<1>3. ASSUME NEW t \in Tasks, StartTask(t) \/ Group(t) \/ CloseTask(t) \/ Poll(t)
      PROVE  \A u \in Tasks : Moves(u)
  <2>1. Moves(t) BY <1>1, <1>3 DEF StartTask, Group, CloseTask, Poll, Moves
  <2>2. \A u \in Tasks : u # t => task'[u] = task[u]
    BY <1>1, <1>3 DEF StartTask, Group, CloseTask, Poll
  <2> QED BY <1>2, <2>1, <2>2
<1>4. ASSUME NEW t \in Tasks, Await(t) PROVE \A u \in Tasks : Moves(u)
  <2>1. Moves(t) BY <1>1, <1>4 DEF Await, Found, AwaitedBy, FallsAsleep, TimesOut, Raises, Moves
  <2>2. \A u \in Tasks : u # t => task'[u] = task[u] BY <1>1, <1>4 DEF Await, Raises
  <2> QED BY <1>2, <2>1, <2>2
<1>5. ASSUME NEW t \in Tasks, Register(t) PROVE \A u \in Tasks : Moves(u)
  <2>1. t \in ToSet(indices'[hostOf[t]]) BY <1>0, <1>5, RegisterAdds DEF Register
  <2>2. Moves(t) BY <1>1, <1>5, <2>1 DEF Register, Moves
  <2>3. \A u \in Tasks : u # t => task'[u] = task[u] BY <1>1, <1>5 DEF Register
  <2> QED BY <1>2, <2>2, <2>3
<1>6. ASSUME NEW t \in Tasks, Ring(t) \/ Follow(t) PROVE \A u \in Tasks : Moves(u)
  <2>1. Moves(t) BY <1>1, <1>6 DEF Ring, Follow, Raises, Moves
  <2>2. \A u \in Tasks : u # t => task'[u] = task[u] BY <1>1, <1>6 DEF Ring, Follow, Raises
  <2> QED BY <1>2, <2>1, <2>2
<1>7. ASSUME NEW t \in Tasks, GiveUpPolling(t) \/ GiveUp(t) \/ Die(t)
      PROVE  \A u \in Tasks : Moves(u)
  <2>1. Moves(t) BY <1>1, <1>7 DEF GiveUpPolling, GiveUp, Die, Alive, Raises, Moves
  <2>2. \A u \in Tasks : u # t => task'[u] = task[u]
    BY <1>1, <1>7 DEF GiveUpPolling, GiveUp, Die, Raises
  <2> QED BY <1>2, <2>1, <2>2
<1>8. CASE JobFails BY <1>0, <1>8, KilledMoves DEF JobFails, Killed
<1>9. CASE AwaitTasks \/ Notify \/ AfterMpi
  <2>1. Killed \/ UNCHANGED task BY <1>9, CancelKills DEF AwaitTasks, Notify, AfterMpi
  <2> QED BY <1>0, <2>1, KilledMoves
<1>10. CASE \/ SubmitJob \/ JobReturns \/ PlanRanks \/ Join \/ StartWorkers \/ MpiEnds \/ Expire
            \/ \E t \in Tasks : RegisterUnanswered(t)
            \/ \E h \in Hosts : RunCommand(h)
            \/ \E r \in Ranks : RunFn(r) \/ FnRaises(r)
  <2>1. UNCHANGED task
    BY <1>10 DEF SubmitJob, JobReturns, PlanRanks, Join, StartWorkers, MpiEnds, Expire,
                 RegisterUnanswered, RunCommand, RunFn, FnRaises, jobVars
  <2> QED BY <1>0, <2>1, KilledMoves
<1> QED BY <1>3, <1>4, <1>5, <1>6, <1>7, <1>8, <1>9, <1>10 DEF SparkNext

\* What else tasks change: only those that register get into the lists, only those
\* that have been notified leave the ring.
ListsGrow ==
    /\ hostOf' = hostOf
    /\ indices' \in [Hosts -> Seq(Tasks)]
    /\ \A h \in Hosts : \A t \in ToSet(indices[h]) : t \in ToSet(indices'[h])
    /\ \A h \in Hosts : \A t \in ToSet(indices'[h]) :
          \/ t \in ToSet(indices[h])
          \/ /\ hostOf[t] = h /\ task[t] = "register"
             /\ task'[t] = "initial" \/ (<<"twice", t>> \in strays' /\ lost' = lost + 1)
    /\ (\A t \in Tasks : task[t] # "register") => indices' = indices
    /\ \A h \in Hosts :
          IsInjective(indices[h]) /\ (\A t \in Tasks : task[t] = "register" => t \notin ToSet(indices[h]))
              => IsInjective(indices'[h])

RingGrows ==
    \/ ringed' = ringed
    \/ \E t \in Tasks : task'[t] = "group" /\ ringed' = ringed \cup {Next(t)}

LEMMA ListsAndRing ==
    ASSUME SparkIInv, SparkNext
    PROVE  ListsGrow /\ RingGrows
<1>0. SparkTypeOK BY DEF SparkIInv
<1>1. /\ hostOf \in [Tasks -> Hosts] /\ indices \in [Hosts -> Seq(Tasks)]
      /\ task \in [Tasks -> {"new", "register", "initial", "ring", "group", "command", "run",
                             "follow", "poll", "closing", "returned", "raised", "killed"}]
  BY <1>0 DEF SparkTypeOK
<1>2. ASSUME UNCHANGED <<hostOf, indices, ringed>> PROVE ListsGrow /\ RingGrows
  BY <1>1, <1>2 DEF ListsGrow, RingGrows
<1>3. ASSUME NEW t \in Tasks, RegisterTask(t), task[t] = "register",
             UNCHANGED <<hostOf, ringed>>,
             task'[t] = "initial" \/ (<<"twice", t>> \in strays' /\ lost' = lost + 1)
      PROVE  ListsGrow /\ RingGrows
  BY <1>0, <1>3, RegisterAdds DEF ListsGrow, RingGrows
<1>4. ASSUME NEW t \in Tasks, Register(t) \/ RegisterUnanswered(t)
      PROVE  ListsGrow /\ RingGrows
  <2>1. task'[t] = "initial" \/ (<<"twice", t>> \in strays' /\ lost' = lost + 1)
    BY <1>1, <1>4 DEF Register, RegisterUnanswered
  <2> QED BY <1>3, <1>4, <2>1 DEF Register, RegisterUnanswered, envVars
<1>5. ASSUME NEW t \in Tasks, Ring(t) PROVE ListsGrow /\ RingGrows
  <2>1. UNCHANGED <<hostOf, indices>> BY <1>5 DEF Ring, envVars
  <2>2. ListsGrow BY <1>1, <2>1 DEF ListsGrow
  <2>3. RingGrows BY <1>1, <1>5 DEF Ring, Next, RingGrows
  <2> QED BY <2>2, <2>3
<1>6. ASSUME NEW t \in Tasks,
             \/ StartTask(t) \/ Await(t) \/ Group(t) \/ Follow(t) \/ Poll(t)
             \/ GiveUpPolling(t) \/ CloseTask(t) \/ GiveUp(t) \/ Die(t)
      PROVE  UNCHANGED <<hostOf, indices, ringed>>
  BY <1>6 DEF StartTask, Await, Group, Follow, Poll, GiveUpPolling, CloseTask, GiveUp, Die,
              driverVars, envVars
<1>7. ASSUME NEW h \in Hosts, RunCommand(h) PROVE UNCHANGED <<hostOf, indices, ringed>>
  BY <1>7 DEF RunCommand, driverVars, envVars
<1>8. ASSUME NEW r \in Ranks, RunFn(r) \/ FnRaises(r)
      PROVE  UNCHANGED <<hostOf, indices, ringed>>
  BY <1>8 DEF RunFn, FnRaises, driverVars, envVars
<1>9. CASE \/ SubmitJob \/ JobFails \/ JobReturns \/ AwaitTasks \/ Notify \/ PlanRanks \/ AfterMpi
           \/ Join \/ StartWorkers \/ MpiEnds \/ Expire
  <2>1. UNCHANGED <<hostOf, indices, ringed>>
    BY <1>9 DEF SubmitJob, JobFails, JobReturns, AwaitTasks, Notify, PlanRanks, AfterMpi, Join,
                StartWorkers, MpiEnds, Expire, driverVars, envVars
  <2> QED BY <1>2, <2>1
<1> QED BY <1>2, <1>4, <1>5, <1>6, <1>7, <1>8, <1>9 DEF SparkNext

LEMMA RegisteredGrows ==
    ASSUME SparkTypeOK, ListsGrow
    PROVE  /\ Registered \subseteq Registered' /\ Registered' \subseteq Tasks
           /\ \A t \in Registered' : t \in Registered \/ task[t] = "register"
<1>1. \A t \in Registered : t \in Registered' BY DEF Registered, ListsGrow
<1>2. ASSUME NEW t \in Registered'
      PROVE  t \in Tasks /\ (t \in Registered \/ task[t] = "register")
  <2>1. PICK h \in Hosts : t \in ToSet(indices'[h]) BY DEF Registered
  <2>2. indices'[h] \in [1 .. Len(indices'[h]) -> Tasks] /\ DOMAIN indices'[h] = 1 .. Len(indices'[h])
    BY SequenceIsFunction DEF ListsGrow
  <2>3. t \in Tasks BY <2>1, <2>2 DEF ToSet
  <2>4. t \in ToSet(indices[h]) \/ task[t] = "register" BY <2>1 DEF ListsGrow
  <2> QED BY <2>3, <2>4 DEF Registered
<1> QED BY <1>1, <1>2

LEMMA ListsKept ==
    ASSUME SparkIInv, SparkNext
    PROVE  (ListsOfHosts /\ TasksInOrder)'
<1>0. SparkTypeOK /\ ListsOfHosts /\ TasksInOrder BY DEF SparkIInv
<1>1. ListsGrow /\ RingGrows BY ListsAndRing
<1>2. \A t \in Tasks : Moves(t) BY TasksMove
<1>3. told \subseteq told'
  BY DEF SparkNext, SubmitJob, JobFails, JobReturns, StartTask, Register, RegisterUnanswered,
         Await, Ring, Group, Follow, Poll, GiveUpPolling, CloseTask, GiveUp, Die, AwaitTasks,
         Notify, PlanRanks, AfterMpi, Join, RunCommand, RunFn, FnRaises, StartWorkers, MpiEnds,
         Expire, jobVars
<1>4. ListsOfHosts'
  <2>1. ASSUME NEW h \in Hosts, NEW t \in ToSet(indices'[h])
        PROVE  hostOf'[t] = h /\ task'[t] # "new"
    <3>1. t \in Tasks
      <4>1. t \in Registered' BY DEF Registered
      <4> QED BY <1>0, <1>1, <4>1, RegisteredGrows
    <3>2. hostOf[t] = h /\ task[t] # "new"
      BY <1>0, <1>1, <2>1 DEF ListsGrow, ListsOfHosts
    <3>3. task'[t] # "new" BY <1>2, <3>1, <3>2 DEF Moves
    <3> QED BY <1>1, <3>2, <3>3 DEF ListsGrow
  <2> QED BY <2>1 DEF ListsOfHosts
<1>5. ASSUME NEW t \in Tasks
      PROVE  /\ task'[t] \notin {"new", "register", "raised", "killed"} =>
                    t \in ToSet(indices'[hostOf'[t]])
             /\ task'[t] \notin {"new", "register", "initial", "raised", "killed"} => t \in told'
             /\ Next(t) \in ringed' => task'[t] \notin {"new", "register", "initial", "ring"}
  <2>1. Moves(t) BY <1>2
  <2>2. /\ task[t] \notin {"new", "register", "raised", "killed"} => t \in ToSet(indices[hostOf[t]])
        /\ task[t] \notin {"new", "register", "initial", "raised", "killed"} => t \in told
        /\ Next(t) \in ringed => task[t] \notin {"new", "register", "initial", "ring"}
    BY <1>0 DEF TasksInOrder
  <2>3. hostOf[t] \in Hosts /\ hostOf' = hostOf BY <1>0, <1>1 DEF SparkTypeOK, ListsGrow
  <2>4. t \in ToSet(indices[hostOf[t]]) => t \in ToSet(indices'[hostOf[t]])
    BY <1>1, <2>3 DEF ListsGrow
  <2>5. task'[t] \notin {"new", "register", "raised", "killed"} => t \in ToSet(indices'[hostOf'[t]])
    BY <2>1, <2>2, <2>3, <2>4 DEF Moves
  <2>6. task'[t] \notin {"new", "register", "initial", "raised", "killed"} => t \in told'
    BY <1>3, <2>1, <2>2 DEF Moves
  <2>7. Next(t) \in ringed' => task'[t] \notin {"new", "register", "initial", "ring"}
    <3>1. CASE Next(t) \in ringed BY <2>1, <2>2, <3>1 DEF Moves
    <3>2. CASE Next(t) \in ringed' /\ Next(t) \notin ringed
      <4>1. PICK u \in Tasks : task'[u] = "group" /\ ringed' = ringed \cup {Next(u)}
        BY <1>1, <3>2 DEF RingGrows
      <4>2. Next(u) = Next(t) BY <3>2, <4>1
      <4>3. u = t BY <4>2, NextIsOneToOne
      <4> QED BY <4>1, <4>3
    <3> QED BY <3>1, <3>2
  <2> QED BY <2>5, <2>6, <2>7
<1>6. TasksInOrder' BY <1>5 DEF TasksInOrder, Next
<1> QED BY <1>4, <1>6

\* Once every task has left the ring, the lists stay as they are.
LEMMA Frozen ==
    ASSUME SparkIInv, [SparkNext]_sparkVars, ringed = Tasks
    PROVE  UNCHANGED <<hostOf, indices, ringed>>
<1>1. CASE UNCHANGED sparkVars BY <1>1 DEF sparkVars
<1>2. CASE SparkNext
  <2>1. ListsGrow /\ RingGrows BY <1>2, ListsAndRing
  <2>2. \A t \in Tasks : task[t] # "register" BY NextTask DEF SparkIInv, TasksInOrder
  <2>3. ringed' = ringed BY <2>1, NextTask DEF RingGrows
  <2> QED BY <2>1, <2>2, <2>3 DEF ListsGrow
<1> QED BY <1>1, <1>2

\* What is complete stays complete.
LEMMA StaysComplete ==
    ASSUME SparkIInv, SparkNext
    PROVE  /\ Registered = Tasks => Registered' = Tasks
           /\ ringed = Tasks => ringed' = Tasks
<1>1. SparkTypeOK /\ ListsGrow BY ListsAndRing DEF SparkIInv
<1>2. Registered = Tasks => Registered' = Tasks BY <1>1, RegisteredGrows
<1> QED BY <1>2, Frozen

LEMMA JobKept ==
    ASSUME SparkIInv, SparkNext
    PROVE  JobInOrder' /\ (job = "ok" => job' = "ok")
<1>1. \A t \in Tasks : Moves(t) BY TasksMove
<1>2. ASSUME job' # job
      PROVE  SubmitJob \/ JobReturns \/ (job' = "failed" /\ job = "running")
  <2>1. CASE AwaitTasks \/ Notify \/ AfterMpi
    BY <1>2, <2>1, CancelKills DEF AwaitTasks, Notify, AfterMpi, Killed
  <2>2. CASE SubmitJob \/ JobFails \/ JobReturns
    BY <2>2 DEF JobFails
  <2>3. ASSUME ~(AwaitTasks \/ Notify \/ AfterMpi \/ SubmitJob \/ JobFails \/ JobReturns)
        PROVE  job' = job
    BY <2>3 DEF SparkNext, StartTask, Register,
         RegisterUnanswered, Await, Ring, Group, Follow, Poll, GiveUpPolling, CloseTask, GiveUp,
         Die, PlanRanks, Join, RunCommand, RunFn, FnRaises, StartWorkers, MpiEnds, Expire, jobVars
  <2> QED BY <1>2, <2>1, <2>2, <2>3
<1>3. job = "ok" => job' = "ok" BY <1>2 DEF SubmitJob, JobReturns
<1>4. JobInOrder'
  <2>1. CASE job' = "ok" /\ job = "ok"
    BY <1>1, <2>1 DEF SparkIInv, JobInOrder, Moves
  <2>2. CASE job' = "ok" /\ job # "ok"
    BY <1>2, <2>2 DEF SubmitJob, JobReturns, JobInOrder
  <2>3. CASE job' # "ok" BY <2>3 DEF JobInOrder
  <2> QED BY <2>1, <2>2, <2>3
<1> QED BY <1>3, <1>4

\* How mpirun goes on.
MpiStays == UNCHANGED <<mpi, worker, command>>

MpiStarts == mpi = "off" /\ mpi' = "launching" /\ UNCHANGED <<worker, command>>

MpiCommands(h) ==
    /\ mpi = "launching" /\ mpi' = "launching" /\ UNCHANGED worker
    /\ Alive(First(h)) /\ command[First(h)] = "none"
    /\ command' = [command EXCEPT ![First(h)] = "running"]

MpiRuns ==
    /\ mpi = "launching" /\ mpi' = "running" /\ UNCHANGED command
    /\ worker' = [r \in Ranks |-> "running"]

MpiWorks ==
    /\ mpi = "running" /\ mpi' = "running" /\ UNCHANGED command
    /\ \E r \in Ranks : RunFn(r) \/ FnRaises(r)

MpiCloses ==
    /\ mpi \in {"launching", "running"} /\ UNCHANGED worker /\ CommandsEnd
    /\ mpi' = "failed" \/ (mpi' = "ok" /\ \A r \in Ranks : worker[r] = "done")

MpiMoves ==
    \/ MpiStays \/ (MpiStarts /\ PlanRanks) \/ MpiRuns \/ MpiWorks \/ MpiCloses
    \/ \E h \in Hosts : h \in UsedHosts /\ MpiCommands(h)

LEMMA MpiMove ==
    ASSUME SparkIInv, SparkNext
    PROVE  /\ MpiMoves
           /\ ranksToIndices' = ranksToIndices \/ PlanRanks
<1>1. ASSUME PlanRanks PROVE MpiMoves
  <2>1. MpiStarts
    BY <1>1 DEF PlanRanks, MpiStarts, jobVars, SparkIInv, DriverInOrder
  <2> QED BY <1>1, <2>1 DEF MpiMoves
<1>2. ASSUME NEW h \in Hosts, RunCommand(h) PROVE MpiMoves
  <2>1. (h \in UsedHosts /\ MpiCommands(h)) \/ MpiCloses
    BY <1>2 DEF RunCommand, MpiFails, MpiCommands, MpiCloses
  <2> QED BY <2>1 DEF MpiMoves
<1>3. ASSUME StartWorkers PROVE MpiMoves
  <2>1. MpiRuns BY <1>3 DEF StartWorkers, MpiRuns, jobVars
  <2> QED BY <2>1 DEF MpiMoves
<1>4. ASSUME NEW r \in Ranks, RunFn(r) \/ FnRaises(r) PROVE MpiMoves
  <2>1. MpiWorks BY <1>4 DEF RunFn, FnRaises, MpiWorks, jobVars
  <2> QED BY <2>1 DEF MpiMoves
<1>5. ASSUME MpiEnds PROVE MpiMoves
  <2>1. MpiCloses BY <1>5 DEF MpiEnds, MpiFails, MpiCloses
  <2> QED BY <2>1 DEF MpiMoves
<1>6. ASSUME \/ SubmitJob \/ JobFails \/ JobReturns \/ AwaitTasks \/ Notify \/ AfterMpi \/ Join
             \/ Expire
             \/ \E t \in Tasks :
                   \/ StartTask(t) \/ Register(t) \/ RegisterUnanswered(t) \/ Await(t) \/ Ring(t)
                   \/ Group(t) \/ Follow(t) \/ Poll(t) \/ GiveUpPolling(t) \/ CloseTask(t)
                   \/ GiveUp(t) \/ Die(t)
      PROVE  MpiMoves
  <2>1. MpiStays
    BY <1>6 DEF SubmitJob, JobFails, JobReturns, StartTask, Register,
         RegisterUnanswered, Await, Ring, Group, Follow, Poll, GiveUpPolling, CloseTask, GiveUp,
         Die, AwaitTasks, Notify, AfterMpi, Join, Expire, jobVars, mpiVars, MpiStays
  <2> QED BY <2>1 DEF MpiMoves
<1>7. ranksToIndices' = ranksToIndices \/ PlanRanks
  BY DEF SparkNext, SubmitJob, JobFails, JobReturns, StartTask, Register,
         RegisterUnanswered, Await, Ring, Group, Follow, Poll, GiveUpPolling, CloseTask, GiveUp,
         Die, AwaitTasks, Notify, AfterMpi, Join, RunCommand, RunFn, FnRaises, StartWorkers,
         MpiEnds, Expire, driverVars
<1> QED BY <1>1, <1>2, <1>3, <1>4, <1>5, <1>6, <1>7 DEF SparkNext

LEMMA DriverKept ==
    ASSUME SparkIInv, SparkNext
    PROVE  DriverInOrder'
<1>0. SparkTypeOK /\ DriverInOrder BY DEF SparkIInv
<1>1. /\ Registered = Tasks => Registered' = Tasks
      /\ ringed = Tasks => ringed' = Tasks
      /\ job = "ok" => job' = "ok"
  BY StaysComplete, JobKept
<1>2. /\ mpi = "ok" => mpi' = "ok"
      /\ mpi' = "off" \/ mpi # "off" \/ PlanRanks
  BY MpiMove DEF MpiMoves, MpiStays, MpiStarts, MpiRuns, MpiWorks, MpiCloses, MpiCommands
<1>3. CASE AwaitTasks
  <2>1. UNCHANGED <<told, mpi>> BY <1>3 DEF AwaitTasks, mpiVars
  <2>2. \/ driver' = driver \/ driver' = "failing"
        \/ driver = "registration" /\ driver' = "notify" /\ Registered = Tasks
        \/ driver = "ring" /\ driver' = "plan" /\ ringed = Tasks
    BY <1>3 DEF AwaitTasks, Found, AllRegistered, Cancel
  <2> QED BY <1>0, <1>1, <1>2, <2>1, <2>2 DEF DriverInOrder
<1>4. CASE Notify
  <2>1. driver = "notify" /\ UNCHANGED mpi /\ driver' \in {"notify", "ring", "failing"}
    BY <1>4 DEF Notify, Cancel, mpiVars
  <2> QED BY <1>0, <1>1, <2>1 DEF DriverInOrder
<1>5. CASE PlanRanks
  <2>1. driver = "plan" /\ driver' = "mpi" /\ UNCHANGED told BY <1>5 DEF PlanRanks, jobVars
  <2> QED BY <1>0, <1>1, <2>1 DEF DriverInOrder
<1>6. CASE AfterMpi
  <2>1. UNCHANGED <<told, mpi>> /\ driver = "mpi"
        /\ (driver' = "failing" \/ (driver' = "joining" /\ mpi = "ok"))
    BY <1>6 DEF AfterMpi, Cancel, mpiVars
  <2> QED BY <1>0, <1>1, <2>1 DEF DriverInOrder
<1>7. CASE Join
  <2>1. /\ UNCHANGED <<told, mpi, job>>
        /\ driver' = "raised" \/ (driver = "joining" /\ job = "ok" /\ driver' = "returned")
    BY <1>7 DEF Join, jobVars, mpiVars
  <2> QED BY <1>0, <1>1, <2>1 DEF DriverInOrder
<1>8. CASE ~(AwaitTasks \/ Notify \/ PlanRanks \/ AfterMpi \/ Join)
  <2>1. UNCHANGED <<driver, told>>
    BY <1>8 DEF SparkNext, SubmitJob, JobFails, JobReturns, StartTask, Register,
         RegisterUnanswered, Await, Ring, Group, Follow, Poll, GiveUpPolling, CloseTask, GiveUp,
         Die, RunCommand, RunFn, FnRaises, StartWorkers, MpiEnds, Expire, driverVars, jobVars
  <2> QED BY <1>0, <1>1, <1>2, <1>8, <2>1 DEF DriverInOrder
<1> QED BY <1>3, <1>4, <1>5, <1>6, <1>7, <1>8

LEMMA MpiKept ==
    ASSUME SparkIInv, SparkNext
    PROVE  MpiInOrder'
<1>0. SparkTypeOK /\ ListsOfHosts /\ DriverInOrder /\ MpiInOrder BY DEF SparkIInv
<1>1. command \in [Tasks -> {"none", "running", "ended"}]
      /\ worker \in [Ranks -> {"none", "running", "done", "failed"}]
  BY <1>0 DEF SparkTypeOK
<1>2. MpiMoves /\ (ranksToIndices' = ranksToIndices \/ PlanRanks) BY MpiMove
<1>3. ASSUME mpi' # "off"
      PROVE  Registered' = Tasks /\ ringed' = Tasks /\ ToSet(ranksToIndices') = Tasks
  <2>1. CASE mpi # "off"
    <3>1. ~PlanRanks BY <1>0, <2>1 DEF PlanRanks, DriverInOrder
    <3> QED BY <1>0, <1>2, <2>1, <3>1, StaysComplete DEF MpiInOrder
  <2>2. CASE mpi = "off"
    <3>1. PlanRanks BY <1>2, <1>3, <2>2 DEF MpiMoves, MpiStays, MpiStarts, MpiRuns, MpiWorks, MpiCloses, MpiCommands
    <3>2. Registered = Tasks /\ ringed = Tasks BY <1>0, <3>1 DEF PlanRanks, DriverInOrder
    <3>3. ranksToIndices' = Plan BY <3>1 DEF PlanRanks, Plan
    <3> QED BY <1>0, <3>2, <3>3, PlanCovers, StaysComplete
  <2> QED BY <2>1, <2>2
<1>4. mpi' \in {"off", "launching"} => \A r \in Ranks : worker'[r] = "none"
  BY <1>0, <1>2 DEF MpiMoves, MpiStays, MpiStarts, MpiRuns, MpiWorks, MpiCloses, MpiCommands,
                     MpiInOrder, RunFn, FnRaises
<1>5. mpi' = "ok" => \A r \in Ranks : worker'[r] = "done"
  BY <1>0, <1>2 DEF MpiMoves, MpiStays, MpiStarts, MpiRuns, MpiWorks, MpiCloses, MpiCommands,
                     MpiInOrder, RunFn, FnRaises
<1>6. ASSUME NEW t \in Tasks, command'[t] # "none" PROVE mpi' # "off" /\ t = First(hostOf[t])'
  <2>1. mpi # "off" => UNCHANGED <<hostOf, indices>> BY <1>0, Frozen DEF MpiInOrder
  <2>2. CASE command[t] # "none"
    <3>1. mpi # "off" /\ t = First(hostOf[t]) BY <1>0, <2>2 DEF MpiInOrder
    <3>2. First(hostOf[t])' = First(hostOf[t]) BY <2>1, <3>1 DEF First
    <3>3. mpi' # "off" BY <1>2, <3>1 DEF MpiMoves, MpiStays, MpiStarts, MpiRuns,
         MpiWorks, MpiCloses, MpiCommands
    <3> QED BY <3>1, <3>2, <3>3
  <2>3. CASE command[t] = "none"
    <3>0. ~(MpiStays \/ MpiStarts \/ MpiRuns \/ MpiWorks \/ MpiCloses)
      BY <1>1, <1>6, <2>3 DEF MpiStays, MpiStarts, MpiRuns, MpiWorks, MpiCloses, CommandsEnd
    <3>1. PICK h \in Hosts : /\ h \in UsedHosts /\ mpi = "launching" /\ mpi' = "launching"
                             /\ command' = [command EXCEPT ![First(h)] = "running"]
      BY <1>2, <3>0 DEF MpiMoves, MpiCommands
    <3>2. t = First(h) BY <1>1, <1>6, <2>3, <3>1
    <3>3. h \in InUse BY <1>0, <3>1, RanksHaveHosts DEF MpiInOrder
    <3>4. First(h) \in ToSet(indices[h]) BY <1>0, <3>1, <3>3, ListElements
    <3>5. hostOf[t] = h BY <1>0, <3>1, <3>2, <3>4 DEF ListsOfHosts
    <3>6. First(hostOf[t])' = First(hostOf[t]) BY <2>1, <3>1 DEF First
    <3> QED BY <3>1, <3>2, <3>5, <3>6
  <2> QED BY <1>1, <2>2, <2>3
<1>7. ASSUME NEW t \in Tasks, command'[t] = "ended" PROVE mpi' \in {"ok", "failed"}
  <2>1. command[t] = "ended" => mpi \in {"ok", "failed"} BY <1>0 DEF MpiInOrder
  <2>2. ASSUME NEW h \in Hosts, MpiCommands(h) PROVE command[t] = "ended" /\ mpi' = mpi
    BY <1>1, <1>7, <2>2 DEF MpiCommands
  <2>3. CASE MpiStays \/ MpiStarts \/ MpiRuns \/ MpiWorks \/ MpiCloses
    BY <1>1, <1>7, <2>1, <2>3 DEF MpiStays, MpiStarts, MpiRuns, MpiWorks, MpiCloses
  <2> QED BY <1>2, <2>1, <2>2, <2>3 DEF MpiMoves
<1>8. \A t \in Tasks : command'[t] # "none" => mpi' # "off" /\ t = First(hostOf[t])' BY <1>6
<1> QED BY <1>3, <1>4, <1>5, <1>7, <1>8 DEF MpiInOrder, First

-----------------------------------------------------------------------------
(* Without a reason nothing is disturbed.                                  *)

\* A reason does not go away.
LEMMA ReasonStays ==
    ASSUME SparkIInv, SparkNext
    PROVE  /\ Reason => Reason'
           /\ strays \subseteq strays'
           /\ lost \in Nat /\ lost' \in Nat /\ lost' >= lost
<1>0. SparkTypeOK BY DEF SparkIInv
<1>1. strays \subseteq strays'
  <2>1. CASE AwaitTasks \/ Notify \/ AfterMpi
    BY <2>1, CancelKills DEF AwaitTasks, Notify, AfterMpi
  <2>2. ASSUME ~(AwaitTasks \/ Notify \/ AfterMpi) PROVE strays \subseteq strays'
    BY <2>2 DEF SparkNext, SubmitJob, JobFails, JobReturns, StartTask, Register,
         RegisterUnanswered, Await, Ring, Group, Follow, Poll, GiveUpPolling, CloseTask, GiveUp,
         Die, PlanRanks, Join, RunCommand, RunFn, FnRaises, StartWorkers, MpiEnds, Expire, envVars
  <2> QED BY <2>1, <2>2
<1>2. (expired => expired') /\ (fault # {} => fault' # {})
  <2>1. ASSUME NEW t \in Tasks, Die(t) PROVE expired' = expired /\ fault' # {}
    BY <2>1 DEF Die
  <2>2. ASSUME NEW r \in Ranks, FnRaises(r) PROVE expired' = expired /\ fault' # {}
    BY <2>2 DEF FnRaises
  <2>3. CASE Expire BY <2>3 DEF Expire
  <2>4. ASSUME ~Expire, \A t \in Tasks : ~Die(t), \A r \in Ranks : ~FnRaises(r)
        PROVE  expired' = expired /\ fault' = fault
    BY <2>4 DEF SparkNext, SubmitJob, JobFails, JobReturns, StartTask, Register,
         RegisterUnanswered, Await, Ring, Group, Follow, Poll, GiveUpPolling, CloseTask, GiveUp,
         AwaitTasks, Notify, AfterMpi, PlanRanks, Join, RunCommand, RunFn,
         StartWorkers, MpiEnds, envVars
  <2> QED BY <2>1, <2>2, <2>3, <2>4
<1>3. lost \in Nat /\ lost' \in Nat /\ lost' >= lost
  <2>1. lost' = lost \/ lost' = lost + 1 \/ lost' = lost + Retries
    <3>1. ASSUME NEW t \in Tasks, RegisterUnanswered(t) \/ GiveUpPolling(t) \/ GiveUp(t)
          PROVE  lost' = lost + 1 \/ lost' = lost + Retries
      BY <3>1 DEF RegisterUnanswered, GiveUpPolling, GiveUp
    <3>2. ASSUME ~ \E t \in Tasks : RegisterUnanswered(t) \/ GiveUpPolling(t) \/ GiveUp(t)
          PROVE  lost' = lost
      BY <3>2 DEF SparkNext, SubmitJob, JobFails, JobReturns, StartTask, Register, Await, Ring,
         Group, Follow, Poll, CloseTask, Die, AwaitTasks, Notify, AfterMpi, PlanRanks, Join,
         RunCommand, RunFn, FnRaises, StartWorkers, MpiEnds, Expire, envVars
    <3> QED BY <3>1, <3>2
  <2>2. lost \in Nat BY <1>0, RetriesAssumption DEF SparkTypeOK
  <2>3. Retries \in Nat BY RetriesAssumption
  <2> QED BY <2>1, <2>2, <2>3
<1>4. Happened("late") => Happened("late")' BY <1>1 DEF Happened
<1>5. lost > 0 => lost' > 0 BY <1>3
<1> QED BY <1>1, <1>2, <1>3, <1>4, <1>5 DEF Reason

\* A registered task answers, unless the commands have ended.
LEMMA QuietTasks ==
    ASSUME SparkIInv, Undisturbed, NEW t \in Registered
    PROVE  /\ t \in Tasks /\ First(hostOf[t]) \in Registered
           /\ hostOf[First(hostOf[t])] = hostOf[t]
           /\ ~Alive(t) => /\ task[t] = "returned" /\ command[First(hostOf[t])] = "ended"
                           /\ mpi \in {"ok", "failed"}
<1>0. SparkTypeOK /\ ListsOfHosts /\ MpiInOrder BY DEF SparkIInv
<1>1. PICK h \in Hosts : t \in ToSet(indices[h]) BY DEF Registered
<1>2. t \in Tasks /\ h \in InUse BY <1>0, <1>1, ListElements
<1>3. hostOf[t] = h /\ task[t] # "new" BY <1>0, <1>1 DEF ListsOfHosts
<1>4. First(h) \in ToSet(indices[h]) /\ First(h) \in Registered /\ First(h) \in Tasks
  BY <1>0, <1>2, ListElements
<1>5. hostOf[First(h)] = h BY <1>0, <1>4 DEF ListsOfHosts
<1>6. ASSUME ~Alive(t)
      PROVE  /\ task[t] = "returned" /\ command[First(h)] = "ended"
             /\ mpi \in {"ok", "failed"}
  <2>1. task[t] = "returned" BY <1>2, <1>3, <1>6 DEF Alive, Undisturbed
  <2>2. command[First(h)] = "ended" BY <1>2, <1>3, <2>1 DEF Undisturbed
  <2> QED BY <1>0, <1>4, <2>1, <2>2 DEF MpiInOrder
<1> QED BY <1>2, <1>3, <1>4, <1>5, <1>6

\* A command is not undone.
LEMMA CommandsStay ==
    ASSUME SparkIInv, SparkNext, NEW t \in Tasks, command[t] = "ended"
    PROVE  command'[t] = "ended"
<1>1. command \in [Tasks -> {"none", "running", "ended"}] BY DEF SparkIInv, SparkTypeOK
<1>2. ASSUME NEW h \in Hosts, MpiCommands(h) PROVE command'[t] = "ended"
  BY <1>1, <1>2 DEF MpiCommands
<1>3. CASE MpiStays \/ MpiStarts \/ MpiRuns \/ MpiWorks \/ MpiCloses
  BY <1>1, <1>3 DEF MpiStays, MpiStarts, MpiRuns, MpiWorks, MpiCloses, CommandsEnd
<1> QED BY <1>2, <1>3, MpiMove DEF MpiMoves

\* The parts of Undisturbed that a step can disturb: nothing is made to fail, and
\* who closes has seen the end of the command.
Calm ==
    /\ \A t \in Tasks : task'[t] \in {"raised", "killed"} => task[t] \in {"raised", "killed"}
    /\ \A t \in Tasks : task'[t] = "closing" =>
           task[t] = "closing" \/ command[First(hostOf[t])] = "ended"
    /\ job' = "failed" => job = "failed"
    /\ mpi' = "failed" => mpi = "failed"
    /\ driver' \in {"failing", "raised"} => driver \in {"failing", "raised"}
    /\ \A r \in Ranks : worker'[r] = "failed" => worker[r] = "failed"

LEMMA CalmKeeps ==
    ASSUME SparkIInv, SparkNext, Undisturbed, Calm, ~Reason'
    PROVE  Undisturbed'
<1>0. SparkTypeOK /\ ListsOfHosts /\ TasksInOrder /\ MpiInOrder BY DEF SparkIInv
<1>1. ListsGrow /\ \A t \in Tasks : Moves(t) BY ListsAndRing, TasksMove
<1>2. \A t \in Tasks : task'[t] \notin {"raised", "killed"} BY DEF Calm, Undisturbed
<1>3. job' # "failed" /\ mpi' # "failed" /\ driver' \notin {"failing", "raised"}
      /\ \A r \in Ranks : worker'[r] # "failed"
  BY DEF Calm, Undisturbed
<1>4. ASSUME NEW t \in Registered' PROVE task'[t] # "register"
  <2>1. PICK h \in Hosts : t \in ToSet(indices'[h]) BY DEF Registered
  <2>2. t \in Tasks BY <1>0, <1>1, RegisteredGrows
  <2>3. CASE t \in ToSet(indices[h])
    <3>1. t \in Registered /\ task[t] # "new" BY <1>0, <2>3 DEF Registered, ListsOfHosts
    <3>2. task[t] # "register" BY <3>1 DEF Undisturbed
    <3> QED BY <1>1, <2>2, <3>1, <3>2 DEF Moves
  <2>4. CASE t \notin ToSet(indices[h])
    <3>1. task'[t] = "initial" \/ lost' = lost + 1 BY <1>1, <2>1, <2>4 DEF ListsGrow
    <3>2. lost' > 0 => FALSE BY DEF Reason
    <3>3. lost' # lost + 1 BY <3>2, ReasonStays
    <3> QED BY <3>1, <3>3
  <2> QED BY <2>3, <2>4
<1>5. ASSUME NEW t \in Tasks, task'[t] \in {"closing", "returned"}
      PROVE  command'[First(hostOf[t])'] = "ended"
  <2>1. task[t] = "closing" \/ command[First(hostOf[t])] = "ended" \/ task[t] = "returned"
    BY <1>1, <1>5 DEF Calm, Moves
  <2>2. command[First(hostOf[t])] = "ended" BY <2>1 DEF Undisturbed
  <2>3. task[t] \notin {"new", "register", "raised", "killed"}
    BY <1>1, <1>5 DEF Moves, Undisturbed
  <2>4. t \in Registered /\ hostOf[t] \in Hosts
    BY <1>0, <2>3 DEF TasksInOrder, Registered, SparkTypeOK
  <2>5. First(hostOf[t]) \in Tasks BY <2>4, QuietTasks
  <2>6. mpi \in {"ok", "failed"} BY <1>0, <2>2, <2>5 DEF MpiInOrder
  <2>7. UNCHANGED <<hostOf, indices>> BY <1>0, <2>6, Frozen DEF MpiInOrder
  <2>8. First(hostOf[t])' = First(hostOf[t]) BY <2>7 DEF First
  <2> QED BY <2>2, <2>5, <2>8, CommandsStay
<1>6. \A t \in Tasks : task'[t] \in {"closing", "returned"} => command'[First(hostOf[t])'] = "ended"
  BY <1>5
<1> QED BY <1>2, <1>3, <1>4, <1>6 DEF Undisturbed, First

LEMMA QuietCalm ==
    ASSUME SparkIInv, SparkNext, Undisturbed, ~Reason'
    PROVE  Calm
<1>0. SparkTypeOK /\ ListsOfHosts /\ TasksInOrder /\ DriverInOrder /\ MpiInOrder
  BY DEF SparkIInv
<1>1. task \in [Tasks -> {"new", "register", "initial", "ring", "group", "command", "run",
                          "follow", "poll", "closing", "returned", "raised", "killed"}]
  BY <1>0 DEF SparkTypeOK
<1>2. ~expired /\ ~Reason /\ ~expired'
  BY ReasonStays DEF Reason
<1>3. lost' = lost
  <2>1. ~(lost' > 0) BY DEF Reason
  <2> QED BY <2>1, ReasonStays
<1>4. /\ \A t \in Tasks : task[t] \notin {"raised", "killed"}
      /\ job # "failed" /\ mpi # "failed" /\ driver \notin {"failing", "raised"}
  BY DEF Undisturbed
<1>5. ASSUME NEW t \in Tasks,
             StartTask(t) \/ Register(t) \/ RegisterUnanswered(t) \/ Group(t) \/ CloseTask(t)
      PROVE  Calm
  BY <1>1, <1>5 DEF StartTask, Register, RegisterUnanswered, Group, CloseTask, Calm, driverVars,
                    jobVars, mpiVars
<1>6. ASSUME NEW t \in Tasks, Await(t) PROVE Calm
  <2>1. ~TimesOut(t) BY <1>2 DEF TimesOut
  <2> QED BY <1>1, <1>6, <2>1 DEF Await, Calm, driverVars, mpiVars
<1>7. ASSUME NEW t \in Tasks, Ring(t) PROVE Calm
  <2>1. task[t] = "ring" BY <1>7 DEF Ring
  <2>2. Registered = Tasks
    <3>1. t \in told BY <1>0, <2>1 DEF TasksInOrder
    <3> QED BY <1>0, <3>1 DEF DriverInOrder
  <2>3. Next(t) \in Registered BY <2>2, NextTask
  <2>4. mpi = "off" BY <1>0, <2>1, NextTask DEF MpiInOrder, TasksInOrder
  <2>5. Alive(Next(t)) BY <2>3, <2>4, QuietTasks
  <2>6. task' = [task EXCEPT ![t] = "group"] BY <1>7, <2>3, <2>5 DEF Ring, Next
  <2> QED BY <1>1, <1>7, <2>6 DEF Ring, Calm, mpiVars
<1>8. ASSUME NEW t \in Tasks, Follow(t) PROVE Calm
  <2>1. <<"late", t>> \notin strays' BY DEF Reason, Happened
  <2> QED BY <1>1, <1>8, <2>1 DEF Follow, Calm, driverVars, mpiVars
<1>9. ASSUME NEW t \in Tasks, Poll(t) PROVE Calm
  <2>1. t \in Registered
    BY <1>0, <1>9 DEF Poll, TasksInOrder, SparkTypeOK, Registered
  <2>2. First(hostOf[t]) \in Registered /\ hostOf[First(hostOf[t])] = hostOf[t]
    BY <2>1, QuietTasks
  <2>3. command[First(hostOf[t])] = "ended"
    <3>1. CASE command[t] = "ended" BY <1>0, <3>1 DEF MpiInOrder
    <3>2. CASE ~Alive(First(hostOf[t])) BY <2>2, <3>2, QuietTasks
    <3> QED BY <1>9, <3>1, <3>2 DEF Poll
  <2> QED BY <1>1, <1>9, <2>3 DEF Poll, Calm, driverVars, mpiVars
<1>10. ASSUME NEW t \in Tasks, GiveUpPolling(t) \/ GiveUp(t) PROVE FALSE
  <2>1. lost' = lost + Retries BY <1>10 DEF GiveUpPolling, GiveUp
  <2> QED BY <1>3, <2>1, RetriesAssumption, ReasonStays
<1>11. ASSUME NEW t \in Tasks, Die(t) PROVE FALSE
  BY <1>11 DEF Die, Reason
<1>12. CASE SubmitJob \/ JobReturns \/ Expire
  BY <1>2, <1>12 DEF SubmitJob, JobReturns, Expire, Calm, driverVars, jobVars, mpiVars
<1>13. CASE JobFails BY <1>4, <1>13 DEF JobFails
<1>14. CASE AwaitTasks
  <2>1. ~TimesOut(NumProc) BY <1>2 DEF TimesOut
  <2>2. UNCHANGED <<job, task>> /\ driver' # "failing" /\ driver' # "raised"
    BY <1>4, <1>14, <2>1 DEF AwaitTasks
  <2> QED BY <1>14, <2>2 DEF AwaitTasks, Calm, mpiVars
<1>15. CASE Notify
  <2>1. Registered = Tasks /\ mpi = "off" BY <1>0, <1>15 DEF Notify, DriverInOrder
  <2>2. \A t \in Tasks : Alive(t) BY <2>1, QuietTasks
  <2>3. notified \in Tasks
    <3>1. notified \in 0 .. NumProc /\ notified < NumProc BY <1>0, <1>15 DEF Notify, SparkTypeOK
    <3> QED BY <3>1, NumProcAssumption DEF Tasks
  <2>4. UNCHANGED <<job, task>> /\ driver' \in {"notify", "ring"}
    BY <1>15, <2>2, <2>3 DEF Notify
  <2> QED BY <1>15, <2>4 DEF Notify, Calm, mpiVars
<1>16. CASE PlanRanks
  BY <1>16 DEF PlanRanks, Calm, jobVars
<1>17. CASE AfterMpi
  <2>1. UNCHANGED <<job, task>> /\ driver' = "joining" BY <1>4, <1>17 DEF AfterMpi
  <2> QED BY <1>17, <2>1 DEF AfterMpi, Calm, mpiVars
<1>18. CASE Join
  <2>1. driver' = "returned" BY <1>4, <1>18 DEF Join
  <2> QED BY <1>18, <2>1 DEF Join, Calm, jobVars, mpiVars
<1>19. ASSUME NEW h \in Hosts, RunCommand(h) PROVE Calm
  <2>1. Registered = Tasks /\ h \in UsedHosts /\ mpi = "launching"
    BY <1>0, <1>19 DEF RunCommand, MpiInOrder
  <2>2. First(h) \in Registered BY <1>0, <2>1, RanksHaveHosts, ListElements
  <2>3. Alive(First(h)) BY <2>1, <2>2, QuietTasks
  <2> QED BY <1>19, <2>1, <2>3 DEF RunCommand, Calm, driverVars
<1>20. ASSUME NEW r \in Ranks, RunFn(r) PROVE Calm
  <2>1. mpi = "running" /\ Registered = Tasks /\ ToSet(ranksToIndices) = Tasks
    BY <1>0, <1>20 DEF RunFn, MpiInOrder
  <2>2. ranksToIndices[r + 1] \in Tasks
    <3>1. ranksToIndices \in Seq(Tasks) BY <1>0 DEF SparkTypeOK
    <3>2. NumProc <= Len(ranksToIndices) BY <2>1, <3>1, TasksCounted
    <3>3. ranksToIndices \in [1 .. Len(ranksToIndices) -> Tasks] BY <3>1, SequenceIsFunction
    <3>4. r + 1 \in 1 .. Len(ranksToIndices)
      <4>1. r \in Nat /\ r <= NumProc - 1 BY NumProcAssumption DEF Ranks, Tasks
      <4>2. Len(ranksToIndices) \in Nat BY <3>1
      <4> QED BY NumProcAssumption, <3>2, <4>1, <4>2
    <3> QED BY <3>3, <3>4
  <2>3. Alive(ranksToIndices[r + 1]) BY <2>1, <2>2, QuietTasks
  <2>4. worker' = [worker EXCEPT ![r] = "done"] /\ UNCHANGED <<task, job, mpi, driver>>
    BY <1>20, <2>3 DEF RunFn, driverVars
  <2>5. worker \in [Ranks -> {"none", "running", "done", "failed"}] BY <1>0 DEF SparkTypeOK
  <2> QED BY <2>4, <2>5 DEF Calm
<1>21. ASSUME NEW r \in Ranks, FnRaises(r) PROVE FALSE
  BY <1>21 DEF FnRaises, Reason
<1>22. CASE StartWorkers
  BY <1>22 DEF StartWorkers, Calm, driverVars, jobVars
<1>23. CASE MpiEnds
  <2>1. \A r \in Ranks : worker[r] # "failed" BY DEF Undisturbed
  <2>2. ASSUME NEW h \in UsedHosts, command[First(h)] = "running" PROVE Alive(First(h))
    <3>1. Registered = Tasks BY <1>0, <1>23 DEF MpiEnds, MpiInOrder
    <3>2. h \in InUse /\ h \in Hosts BY <1>0, <3>1, RanksHaveHosts DEF InUse
    <3>3. First(h) \in Registered BY <1>0, <3>2, ListElements
    <3>4. mpi \notin {"ok", "failed"} BY <1>23 DEF MpiEnds
    <3> QED BY <3>3, <3>4, QuietTasks
  <2>3. mpi' = "ok" BY <1>23, <2>1, <2>2 DEF MpiEnds
  <2> QED BY <1>23, <2>3 DEF MpiEnds, Calm, driverVars
<1> QED BY <1>5, <1>6, <1>7, <1>8, <1>9, <1>10, <1>11, <1>12, <1>13, <1>14, <1>15, <1>16, <1>17,
           <1>18, <1>19, <1>20, <1>21, <1>22, <1>23 DEF SparkNext

-----------------------------------------------------------------------------
(* The invariant holds.                                                    *)

LEMMA SparkInitially == SparkInit => SparkIInv
<1> SUFFICES ASSUME SparkInit PROVE SparkIInv OBVIOUS
<1> USE NumProcAssumption, RetriesAssumption DEF SparkInit
<1>1. SparkTypeOK
  <2>1. NoRank \in 0 .. NumProc BY DEF NoRank
  <2>2. /\ fnResult \in [Tasks -> 0 .. NumProc] /\ value \in [Tasks -> 0 .. NumProc]
        /\ indices \in [Hosts -> Seq(Tasks)] /\ ranksToIndices \in Seq(Tasks)
        /\ notified \in 0 .. NumProc /\ lost \in 0 .. MaxLost
    BY <2>1
  <2> QED BY <2>2 DEF SparkTypeOK
<1>2. \A h \in Hosts : ToSet(indices[h]) = {} BY NoElements
<1>3. Registered = {} BY <1>2 DEF Registered
<1>4. ListsOfHosts BY <1>2 DEF ListsOfHosts
<1>5. TasksInOrder BY DEF TasksInOrder
<1>6. DriverInOrder BY DEF DriverInOrder
<1>7. MpiInOrder BY DEF MpiInOrder
<1>8. JobInOrder BY DEF JobInOrder
<1>9. Undisturbed BY <1>3 DEF Undisturbed
<1> QED BY <1>1, <1>4, <1>5, <1>6, <1>7, <1>8, <1>9 DEF SparkIInv

LEMMA SparkIInvKept == SparkIInv /\ [SparkNext]_sparkVars => SparkIInv'
<1> SUFFICES ASSUME SparkIInv, [SparkNext]_sparkVars PROVE SparkIInv'
    OBVIOUS
<1>1. CASE SparkNext
  <2>1. Reason' \/ Undisturbed'
    <3>1. CASE Reason BY <1>1, <3>1, ReasonStays
    <3>2. CASE Undisturbed BY <1>1, <3>2, QuietCalm, CalmKeeps
    <3> QED BY <3>1, <3>2 DEF SparkIInv
  <2> QED BY <1>1, <2>1, TypesKept, ListsKept, DriverKept, MpiKept, JobKept DEF SparkIInv
<1>2. CASE UNCHANGED sparkVars
  <2>1. SparkTypeOK' BY TypesKept
  <2>2. (ListsOfHosts /\ TasksInOrder /\ JobInOrder)'
    BY <1>2 DEF sparkVars, SparkIInv, ListsOfHosts, TasksInOrder, JobInOrder, Next
  <2>3. Registered' = Registered BY <1>2 DEF sparkVars, Registered
  <2>4. DriverInOrder' BY <1>2, <2>3 DEF sparkVars, SparkIInv, DriverInOrder
  <2>5. MpiInOrder' BY <1>2, <2>3 DEF sparkVars, SparkIInv, MpiInOrder, First
  <2>6. (Reason \/ Undisturbed)'
    BY <1>2, <2>3 DEF sparkVars, SparkIInv, Reason, Happened, Undisturbed, First
  <2> QED BY <2>1, <2>2, <2>4, <2>5, <2>6 DEF SparkIInv
<1> QED BY <1>1, <1>2

\* The state is of its type, the lookups of the driver and of the tasks find what
\* they look for, one command at most runs on a host, and run() raises only for a
\* reason.
THEOREM SparkIsSound == SparkSpec => []SparkInv
<1>1. SparkIInv => SparkInv
  <2> SUFFICES ASSUME SparkIInv PROVE SparkInv OBVIOUS
  <2>1. driver \notin {"registration", "failing", "raised"} => Registered = Tasks
    BY DEF SparkIInv, DriverInOrder, SparkTypeOK
  <2>2. \A t \in Tasks : task[t] \in {"group", "command", "follow", "poll", "run"} =>
            t \in ToSet(indices[hostOf[t]])
    BY DEF SparkIInv, TasksInOrder
  <2>3. \A s, t \in Tasks :
            command[s] # "none" /\ command[t] # "none" /\ hostOf[s] = hostOf[t] => s = t
    BY DEF SparkIInv, MpiInOrder
  <2>4. RaisesForAReason BY DEF SparkIInv, Undisturbed, Reason, RaisesForAReason
  <2> QED BY <2>1, <2>2, <2>3, <2>4 DEF SparkInv, LookupsSucceed, SparkIInv
<1> QED BY <1>1, SparkInitially, SparkIInvKept, PTL DEF SparkSpec

-----------------------------------------------------------------------------
(* The results are those of the ranks, in their order.                     *)

LEMMA RankBefore == \A i \in 1 .. NumProc : i - 1 \in Ranks /\ (i - 1) + 1 = i
BY NumProcAssumption DEF Ranks, Tasks

LEMMA RanksHaveIndices ==
    ASSUME SparkIInv, mpi # "off"
    PROVE  /\ \A r \in Ranks : /\ r + 1 \in DOMAIN ranksToIndices
                               /\ ranksToIndices[r + 1] \in Tasks
           /\ IsInjective(ranksToIndices) => DOMAIN ranksToIndices = 1 .. NumProc
<1>1. ranksToIndices \in Seq(Tasks) /\ ToSet(ranksToIndices) = Tasks
  BY DEF SparkIInv, SparkTypeOK, MpiInOrder
<1>2. /\ NumProc <= Len(ranksToIndices)
      /\ IsInjective(ranksToIndices) => Len(ranksToIndices) = NumProc
  BY <1>1, TasksCounted
<1>3. /\ ranksToIndices \in [1 .. Len(ranksToIndices) -> Tasks]
      /\ DOMAIN ranksToIndices = 1 .. Len(ranksToIndices)
  BY <1>1, SequenceIsFunction
<1>4. ASSUME NEW r \in Ranks PROVE r + 1 \in 1 .. Len(ranksToIndices)
  <2>1. r \in Nat /\ r <= NumProc - 1 BY NumProcAssumption DEF Ranks, Tasks
  <2>2. Len(ranksToIndices) \in Nat BY <1>1
  <2> QED BY NumProcAssumption, <1>2, <2>1, <2>2
<1> QED BY <1>2, <1>3, <1>4

LEMMA OnceKept ==
    ASSUME SparkIInv, SparkNext, Once, ~Happened("twice")'
    PROVE  Once'
<1>0. SparkTypeOK /\ ListsOfHosts /\ DriverInOrder /\ MpiInOrder BY DEF SparkIInv
<1>1. ListsGrow /\ \A t \in Tasks : Moves(t) BY ListsAndRing, TasksMove
<1>2. MpiMoves /\ (ranksToIndices' = ranksToIndices \/ PlanRanks) BY MpiMove
<1>3. ASSUME NEW h \in Hosts PROVE IsInjective(indices'[h])
  <2>1. \A t \in Tasks : task[t] = "register" => t \notin ToSet(indices[h])
    BY DEF Once, Registered
  <2> QED BY <1>1, <2>1 DEF Once, ListsGrow
<1>4. ASSUME NEW t \in Tasks, task'[t] \in {"new", "register"} PROVE t \notin Registered'
  <2> SUFFICES ASSUME t \in Registered' PROVE FALSE OBVIOUS
  <2>1. PICK h \in Hosts : t \in ToSet(indices'[h]) BY DEF Registered
  <2>2. task[t] \in {"new", "register"} BY <1>1, <1>4 DEF Moves
  <2>3. t \notin ToSet(indices[h]) BY <2>2 DEF Once, Registered
  <2>4. <<"twice", t>> \in strays' BY <1>1, <1>4, <2>1, <2>3 DEF ListsGrow
  <2> QED BY <2>4 DEF Happened
<1>5. ASSUME mpi' # "off" PROVE IsInjective(ranksToIndices')
  <2>1. CASE mpi # "off"
    <3>1. ~PlanRanks BY <1>0, <2>1 DEF PlanRanks, DriverInOrder
    <3> QED BY <1>2, <2>1, <3>1 DEF Once
  <2>2. CASE mpi = "off"
    <3>1. PlanRanks BY <1>2, <1>5, <2>2 DEF MpiMoves, MpiStays, MpiStarts, MpiRuns, MpiWorks,
                       MpiCloses, MpiCommands
    <3>2. Registered = Tasks BY <1>0, <3>1 DEF PlanRanks, DriverInOrder
    <3>3. ranksToIndices' = Plan BY <3>1 DEF PlanRanks, Plan
    <3> QED BY <1>0, <3>2, <3>3, PlanCovers DEF Once
  <2> QED BY <2>1, <2>2
<1>6. fnResult' = fnResult \/ \E r \in Ranks : RunFn(r)
  BY DEF SparkNext, SubmitJob, JobFails, JobReturns, StartTask, Register,
         RegisterUnanswered, Await, Ring, Group, Follow, Poll, GiveUpPolling, CloseTask, GiveUp,
         Die, AwaitTasks, Notify, AfterMpi, PlanRanks, Join, RunCommand, FnRaises,
         StartWorkers, MpiEnds, Expire, jobVars
<1>7. worker \in [Ranks -> {"none", "running", "done", "failed"}]
      /\ fnResult \in [Tasks -> 0 .. NumProc]
  BY <1>0 DEF SparkTypeOK
<1>8. ASSUME NEW r \in Ranks, worker'[r] = "done"
      PROVE  fnResult'[ranksToIndices'[r + 1]] = r
  <2>1. CASE PlanRanks
    <3>1. worker' = worker /\ mpi = "off"
      BY <1>0, <2>1 DEF PlanRanks, DriverInOrder
    <3> QED BY <1>0, <1>8, <3>1 DEF MpiInOrder
  <2>2. CASE \E q \in Ranks : RunFn(q)
    <3>1. PICK q \in Ranks : RunFn(q) BY <2>2
    <3>2. mpi = "running" /\ ranksToIndices' = ranksToIndices
      BY <3>1 DEF RunFn, driverVars
    <3>3. /\ r + 1 \in DOMAIN ranksToIndices /\ ranksToIndices[r + 1] \in Tasks
          /\ q + 1 \in DOMAIN ranksToIndices /\ ranksToIndices[q + 1] \in Tasks
      BY <3>2, RanksHaveIndices
    <3>4. CASE r = q
      <4>1. fnResult' = [fnResult EXCEPT ![ranksToIndices[q + 1]] = q]
        BY <1>7, <1>8, <3>1, <3>4 DEF RunFn
      <4> QED BY <1>7, <3>2, <3>3, <3>4, <4>1
    <3>5. CASE r # q
      <4>1. worker[r] = "done" BY <1>7, <1>8, <3>1, <3>5 DEF RunFn
      <4>2. fnResult[ranksToIndices[r + 1]] = r BY <4>1 DEF Once
      <4>3. r + 1 # q + 1
        <5>1. r \in Nat /\ q \in Nat BY NumProcAssumption DEF Ranks, Tasks
        <5> QED BY <3>5, <5>1
      <4>4. ranksToIndices[r + 1] # ranksToIndices[q + 1]
        BY <3>2, <3>3, <4>3 DEF Once, IsInjective
      <4>5. fnResult'[ranksToIndices[r + 1]] = fnResult[ranksToIndices[r + 1]]
        BY <1>7, <3>1, <3>3, <4>4 DEF RunFn
      <4> QED BY <3>2, <4>2, <4>5
    <3> QED BY <3>4, <3>5
  <2>3. CASE ~PlanRanks /\ ~ \E q \in Ranks : RunFn(q)
    <3>1. UNCHANGED <<fnResult, ranksToIndices>> BY <1>2, <1>6, <2>3
    <3>2. ~MpiRuns BY <1>8 DEF MpiRuns
    <3>3. ASSUME NEW q \in Ranks, FnRaises(q) PROVE worker[r] = "done"
      BY <1>7, <1>8, <3>3 DEF FnRaises
    <3>4. ASSUME MpiWorks PROVE worker[r] = "done" BY <2>3, <3>3, <3>4 DEF MpiWorks
    <3>5. ASSUME NEW h \in Hosts, MpiCommands(h) PROVE worker[r] = "done"
      BY <1>8, <3>5 DEF MpiCommands
    <3>6. worker[r] = "done"
      BY <1>2, <1>8, <3>2, <3>4, <3>5 DEF MpiMoves, MpiStays, MpiStarts, MpiCloses
    <3> QED BY <3>1, <3>6 DEF Once
  <2> QED BY <2>1, <2>2, <2>3
<1> QED BY <1>3, <1>4, <1>5, <1>8 DEF Once

LEMMA SpoiltStays ==
    ASSUME SparkIInv, SparkNext
    PROVE  /\ Spoilt => Spoilt'
           /\ Happened("twice") => Happened("twice")'
<1>1. \A t \in Tasks : Moves(t) BY TasksMove
<1>2. strays \subseteq strays' BY ReasonStays
<1> QED BY <1>1, <1>2 DEF Spoilt, Happened, Moves

LEMMA ResultsReadKept ==
    ASSUME SparkIInv, SparkNext, ResultsRead, ~Spoilt'
    PROVE  ResultsRead'
<1>0. SparkTypeOK /\ ListsOfHosts /\ TasksInOrder /\ MpiInOrder BY DEF SparkIInv
<1>1. \A t \in Tasks : Moves(t) BY TasksMove
<1>2. value \in [Tasks -> 0 .. NumProc] BY <1>0 DEF SparkTypeOK
<1>3. ~Spoilt BY SpoiltStays
<1>4. mpi \in {"ok", "failed"} => mpi' = mpi /\ fnResult' = fnResult
  <2>1. mpi \in {"ok", "failed"} => mpi' = mpi
    BY MpiMove DEF MpiMoves, MpiStays, MpiStarts, MpiRuns, MpiWorks, MpiCloses, MpiCommands
  <2>2. fnResult' = fnResult \/ mpi = "running"
    BY DEF SparkNext, SubmitJob, JobFails, JobReturns, StartTask, Register,
         RegisterUnanswered, Await, Ring, Group, Follow, Poll, GiveUpPolling, CloseTask, GiveUp,
         Die, AwaitTasks, Notify, AfterMpi, PlanRanks, Join, RunCommand, RunFn, FnRaises,
         StartWorkers, MpiEnds, Expire, jobVars
  <2> QED BY <2>1, <2>2
<1>5. value' = value \/ \E u \in Tasks : Poll(u) \/ GiveUpPolling(u)
  BY DEF SparkNext, SubmitJob, JobFails, JobReturns, StartTask, Register,
         RegisterUnanswered, Await, Ring, Group, Follow, CloseTask, GiveUp,
         Die, AwaitTasks, Notify, AfterMpi, PlanRanks, Join, RunCommand, RunFn, FnRaises,
         StartWorkers, MpiEnds, Expire, jobVars
<1>6. ASSUME NEW u \in Tasks, GiveUpPolling(u) PROVE FALSE
  BY <1>6 DEF GiveUpPolling, Spoilt, Happened
<1>7. ASSUME NEW t \in Tasks, task'[t] \in {"closing", "returned"}
      PROVE  mpi' \in {"ok", "failed"} /\ value'[t] = fnResult'[t]
  <2>1. CASE task[t] \in {"closing", "returned"}
    <3>1. mpi \in {"ok", "failed"} /\ value[t] = fnResult[t] BY <2>1 DEF ResultsRead
    <3>2. ASSUME NEW u \in Tasks, Poll(u) PROVE value'[t] = value[t]
      <4>1. u # t BY <2>1, <3>2 DEF Poll
      <4> QED BY <1>2, <3>2, <4>1 DEF Poll
    <3>3. value'[t] = value[t] BY <1>5, <1>6, <3>2
    <3> QED BY <1>4, <3>1, <3>3
  <2>2. CASE task[t] \notin {"closing", "returned"}
    <3>1. task[t] \in {"run", "poll"} /\ task'[t] = "closing"
      BY <1>1, <1>7, <2>2 DEF Moves
    <3>2. Poll(t)
      <4>1. task \in [Tasks -> {"new", "register", "initial", "ring", "group", "command", "run",
                          "follow", "poll", "closing", "returned", "raised", "killed"}]
        BY <1>0 DEF SparkTypeOK
      <4>2. \E u \in Tasks : Poll(u) \/ GiveUpPolling(u)
        <5>1. CASE AwaitTasks \/ Notify \/ AfterMpi \/ JobFails
          <6>1. UNCHANGED task \/ Killed
            BY <5>1, CancelKills DEF AwaitTasks, Notify, AfterMpi, JobFails, Killed
          <6> QED BY <1>0, <3>1, <6>1, KillTypes DEF Killed
        <5>2. ASSUME NEW u \in Tasks,
                     \/ StartTask(u) \/ Register(u) \/ Await(u) \/ Ring(u) \/ Group(u)
                     \/ Follow(u) \/ CloseTask(u) \/ GiveUp(u) \/ Die(u)
              PROVE  FALSE
          BY <3>1, <4>1, <5>2 DEF StartTask, Register, Await, Ring, Group, Follow, CloseTask,
             GiveUp, Die, Raises
        <5>3. CASE \/ SubmitJob \/ JobReturns \/ PlanRanks \/ Join \/ StartWorkers \/ MpiEnds
                   \/ Expire \/ (\E u \in Tasks : RegisterUnanswered(u))
                   \/ (\E h \in Hosts : RunCommand(h))
                   \/ (\E r \in Ranks : RunFn(r) \/ FnRaises(r))
          <6>1. UNCHANGED task
            BY <5>3 DEF SubmitJob, JobReturns, PlanRanks, Join, StartWorkers, MpiEnds, Expire,
                        RegisterUnanswered, RunCommand, RunFn, FnRaises, jobVars
          <6> QED BY <3>1, <6>1
        <5> QED BY <5>1, <5>2, <5>3 DEF SparkNext
      <4>3. PICK u \in Tasks : Poll(u) BY <1>6, <4>2
      <4>4. u = t BY <3>1, <4>1, <4>3 DEF Poll
      <4> QED BY <4>3, <4>4
    <3>3. value'[t] = fnResult[t] /\ fnResult' = fnResult /\ mpi' = mpi
      BY <1>2, <3>2 DEF Poll, mpiVars
    <3>4. mpi \in {"ok", "failed"}
      <4>1. t \in ToSet(indices[hostOf[t]]) /\ hostOf[t] \in Hosts
        BY <1>0, <3>1 DEF TasksInOrder, SparkTypeOK
      <4>2. hostOf[t] \in InUse BY <1>0, <4>1, ListElements
      <4>3. First(hostOf[t]) \in Tasks /\ First(hostOf[t]) \in ToSet(indices[hostOf[t]])
        BY <1>0, <4>1, <4>2, ListElements
      <4>4. CASE command[t] = "ended" BY <1>0, <4>4 DEF MpiInOrder
      <4>5. CASE command[First(hostOf[t])] = "ended" BY <1>0, <4>3, <4>5 DEF MpiInOrder
      <4>6. CASE ~Alive(First(hostOf[t]))
        <5>1. task[First(hostOf[t])] # "new" BY <1>0, <4>1, <4>3 DEF ListsOfHosts
        <5>2. task[First(hostOf[t])] = "returned"
          BY <1>3, <4>3, <4>6, <5>1 DEF Alive, Spoilt
        <5> QED BY <4>3, <5>2 DEF ResultsRead
      <4> QED BY <3>2, <4>4, <4>5, <4>6 DEF Poll
    <3> QED BY <3>3, <3>4
  <2> QED BY <2>1, <2>2
<1> QED BY <1>7 DEF ResultsRead

\* When run() returns, it returns the result of every rank at the place of the rank,
\* unless a task has been registered twice or has given up its polling.
THEOREM ResultsOfRanks == SparkSpec => []ResultsInRankOrder
<1>1. SparkInit => ResultsIInv
  <2> SUFFICES ASSUME SparkInit PROVE ResultsIInv OBVIOUS
  <2>1. \A h \in Hosts : ToSet(indices[h]) = {} /\ IsInjective(indices[h])
    BY NoElements DEF SparkInit
  <2>2. Registered = {} BY <2>1 DEF Registered
  <2>3. Once BY <2>1, <2>2 DEF Once, SparkInit
  <2>4. ResultsRead BY DEF ResultsRead, SparkInit
  <2> QED BY <2>3, <2>4 DEF ResultsIInv
<1>2. SparkIInv /\ ResultsIInv /\ [SparkNext]_sparkVars => ResultsIInv'
  <2> SUFFICES ASSUME SparkIInv, ResultsIInv, [SparkNext]_sparkVars PROVE ResultsIInv'
      OBVIOUS
  <2>1. CASE SparkNext
    <3>1. Happened("twice")' \/ Once'
      BY <2>1, OnceKept, SpoiltStays DEF ResultsIInv
    <3>2. Spoilt' \/ ResultsRead' BY <2>1, ResultsReadKept, SpoiltStays DEF ResultsIInv
    <3> QED BY <3>1, <3>2 DEF ResultsIInv
  <2>2. CASE UNCHANGED sparkVars
    BY <2>2 DEF sparkVars, ResultsIInv, Happened, Once, Registered, Spoilt, ResultsRead
  <2> QED BY <2>1, <2>2
<1>3. SparkIInv /\ ResultsIInv => ResultsInRankOrder
  <2> SUFFICES ASSUME SparkIInv, ResultsIInv, driver = "returned",
                      ~Happened("twice"), ~Happened("gave up")
               PROVE  Results = [i \in 1 .. NumProc |-> i - 1]
    BY DEF ResultsInRankOrder
  <2>1. mpi = "ok" /\ job = "ok" BY DEF SparkIInv, DriverInOrder
  <2>2. \A t \in Tasks : task[t] = "returned" BY <2>1 DEF SparkIInv, JobInOrder
  <2>3. \A r \in Ranks : worker[r] = "done" BY <2>1 DEF SparkIInv, MpiInOrder
  <2>4. Once BY DEF ResultsIInv
  <2>5. ResultsRead BY <2>2 DEF ResultsIInv, Spoilt
  <2>6. IsInjective(ranksToIndices) BY <2>1, <2>4 DEF Once
  <2>7. DOMAIN ranksToIndices = 1 .. NumProc BY <2>1, <2>6, RanksHaveIndices
  <2>8. ASSUME NEW i \in 1 .. NumProc PROVE value[ranksToIndices[i]] = i - 1
    <3>1. i - 1 \in Ranks /\ (i - 1) + 1 = i BY RankBefore
    <3>2. ranksToIndices[i] \in Tasks BY <2>1, <3>1, RanksHaveIndices
    <3>3. fnResult[ranksToIndices[i]] = i - 1 BY <2>3, <2>4, <3>1 DEF Once
    <3> QED BY <2>2, <2>5, <3>2, <3>3 DEF ResultsRead
  <2> QED BY <2>7, <2>8 DEF Results
<1> QED BY <1>1, <1>2, <1>3, SparkInitially, SparkIInvKept, PTL DEF SparkSpec
====

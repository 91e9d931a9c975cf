---------------------------- MODULE PyStagerProofs ----------------------------
(***************************************************************************)
(* Proofs about PyStager, for any number of ranks and any source: dealing  *)
(* the items out in turn gives every place in the list to one slave only,  *)
(* and no slave processes an item that has been processed before, unless   *)
(* its name is listed more than once.                                      *)
(***************************************************************************)
EXTENDS PyStager, FiniteSets, FiniteSetTheorems, TLAPS

\* The position in the list of items of the k-th item of slave s.
Position(s, k) == (k - 1) * (p - 1) + s

\* The items of slave s.
Own(s) == {items[Position(s, k)] : k \in 1 .. Load(s)}

Types ==
    /\ source \in Sources
    /\ slave \in [Slaves -> {"start", "recv", "work", "exit", "dead"}]
    /\ job_list \in [Slaves -> Seq(Items)]
    /\ destination \in [Items -> {"absent", "partial", "complete"}]

\* What the master sends is the share of each slave.
Dealt ==
    master \in {"send", "receive", "done"} =>
        transfer_dict = [s \in Slaves |-> Assigned(s)]

\* A slave works on its own share, one item after another.
Share(s) ==
    /\ \A i \in DOMAIN job_list[s] :
        /\ job_list[s][i] \in Own(s)
        /\ ListedOnce(job_list[s][i]) =>
            /\ destination[job_list[s][i]] = "absent"
            /\ \A j \in DOMAIN job_list[s] : job_list[s][i] = job_list[s][j] => i = j
    /\ slave[s] \in {"start", "recv"} =>
        \A n \in Own(s) : ListedOnce(n) => destination[n] = "absent"
    /\ slave[s] = "work" => job_list[s] # <<>>

IInv == Types /\ Dealt /\ \A s \in Slaves : Share(s)

-----------------------------------------------------------------------------
\* Multiplication by a number is monotonic.
LEMMA Monotonic ==
    ASSUME NEW n \in Nat, NEW x \in Int, NEW y \in Int, x <= y
    PROVE  x * n <= y * n
<1>1. PICK d \in Nat : y = x + d
  <2>1. y - x \in Nat /\ y = x + (y - x) OBVIOUS
  <2> QED BY <2>1
<1>2. y * n = x * n + d * n BY <1>1
<1>3. d * n >= 0 BY <1>1
<1>4. x * n \in Int /\ y * n \in Int /\ d * n \in Int OBVIOUS
<1> QED BY <1>2, <1>3, <1>4

\* Division rounds down.
LEMMA Division ==
    ASSUME NEW n \in Nat \ {0}, NEW x \in Int
    PROVE  /\ x \div n \in Int /\ n * (x \div n) <= x
           /\ x >= 0 => x \div n \in Nat
OBVIOUS

\* A number is its quotient times n, and the remainder.
LEMMA Remainder ==
    ASSUME NEW n \in Nat \ {0}, NEW x \in Int
    PROVE  \E q \in Int, r \in 0 .. n - 1 : q = x \div n /\ x = q * n + r
<1>1. PICK q \in Int : q = x \div n
  BY Division
<1>2. x = n * q + (x % n) /\ x % n \in 0 .. n - 1
  BY <1>1
<1>3. n * q = q * n
  BY <1>1
<1>4. x = q * n + (x % n)
  BY <1>2, <1>3
<1> QED BY <1>1, <1>2, <1>4

\* A positive number has a quotient and a remainder in 1 .. n.
LEMMA Digits ==
    ASSUME NEW n \in Nat \ {0}, NEW y \in Nat \ {0}
    PROVE  \E k \in Nat, s \in 1 .. n : y = k * n + s
<1>1. PICK x \in Nat : y = x + 1
  <2>1. y - 1 \in Nat /\ y = (y - 1) + 1 OBVIOUS
  <2> QED BY <2>1
<1>2. PICK q \in Int, r \in 0 .. n - 1 : q = x \div n /\ x = q * n + r
  BY <1>1, Remainder
<1>3. q \in Nat
  BY <1>1, <1>2, Division
<1>4. y = q * n + (r + 1) /\ r + 1 \in 1 .. n
  <2>1. q * n \in Int BY <1>2
  <2> QED BY <1>1, <1>2, <2>1
<1> QED BY <1>3, <1>4

\* A quotient is not below a number whose multiple is not above x.
LEMMA QuotientBound ==
    ASSUME NEW n \in Nat \ {0}, NEW x \in Int, NEW y \in Int, y * n <= x
    PROVE  y <= x \div n
<1>1. PICK q \in Int, r \in 0 .. n - 1 : q = x \div n /\ x = q * n + r
  BY Remainder
<1>2. SUFFICES ASSUME q < y PROVE FALSE
  BY <1>1
<1>3. (q + 1) * n <= y * n
  BY <1>2, Monotonic
<1>4. (q + 1) * n = q * n + n /\ q * n \in Int /\ y * n \in Int
  OBVIOUS
<1> QED BY <1>1, <1>3, <1>4

\* A number has one quotient and one remainder in 1 .. n.
LEMMA Unique ==
    ASSUME NEW n \in Nat \ {0}, NEW a \in Nat, NEW b \in Nat,
           NEW s \in 1 .. n, NEW t \in 1 .. n, a * n + s = b * n + t
    PROVE  a = b /\ s = t
<1>1. ASSUME NEW x \in Nat, NEW y \in Nat, x < y PROVE x * n + n <= y * n
  <2>1. (x + 1) * n <= y * n BY <1>1, Monotonic
  <2>2. (x + 1) * n = x * n + n OBVIOUS
  <2> QED BY <2>1, <2>2
<1>2. a * n \in Int /\ b * n \in Int OBVIOUS
<1>3. ~(a < b) BY <1>1, <1>2
<1>4. ~(b < a) BY <1>1, <1>2
<1> QED BY <1>2, <1>3, <1>4

\* The items of a slave are in the list.
LEMMA InList ==
    ASSUME source \in Sources, NEW s \in Slaves, NEW k \in 1 .. Load(s)
    PROVE  Position(s, k) \in DOMAIN items
<1> DEFINE n == p - 1
           x == Len(items) - s + n
<1>1. n \in Nat \ {0} /\ s \in 1 .. n /\ Len(items) \in Nat /\ x \in Int
  BY PAssumption, SourcesAssumption DEF Slaves, items
<1>2. Load(s) = x \div n
  BY <1>1, PAssumption DEF Load
<1>3. x \div n \in Int /\ n * (x \div n) <= x
  BY <1>1, Division
<1>4. k * n <= x
  <2>1. k \in Int /\ k <= x \div n BY <1>2, <1>3
  <2>2. k * n <= (x \div n) * n BY <1>1, <1>3, <2>1, Monotonic
  <2>3. (x \div n) * n = n * (x \div n) BY <1>1, <1>3
  <2>4. k * n \in Int /\ (x \div n) * n \in Int BY <1>1, <1>3, <2>1
  <2> QED BY <1>1, <1>3, <2>2, <2>3, <2>4
<1>5. (k - 1) * n = k * n - n /\ (k - 1) * n >= 0 /\ k * n \in Int
  <2>1. k \in Int /\ k - 1 \in Nat BY <1>2, <1>3
  <2>2. (k - 1) * n = k * n - n /\ k * n \in Int BY <1>1, <2>1
  <2>3. (k - 1) * n >= 0 BY <1>1, <2>1
  <2> QED BY <2>2, <2>3
<1>6. Position(s, k) \in 1 .. Len(items)
  <2>1. Position(s, k) = k * n - n + s BY <1>5 DEF Position
  <2>2. k * n - n >= 0 BY <1>5
  <2> QED BY <1>1, <1>4, <1>5, <2>1, <2>2
<1> QED BY <1>6, SourcesAssumption DEF items

\* An item that is listed once has one owner, and one place in the share of its owner.
LEMMA OneOwner ==
    ASSUME source \in Sources, NEW s \in Slaves, NEW t \in Slaves,
           NEW k \in 1 .. Load(s), NEW l \in 1 .. Load(t),
           items[Position(s, k)] = items[Position(t, l)],
           ListedOnce(items[Position(s, k)])
    PROVE  s = t /\ k = l
<1>1. p - 1 \in Nat \ {0} /\ s \in 1 .. (p - 1) /\ t \in 1 .. (p - 1)
  BY PAssumption DEF Slaves
<1>2. Position(s, k) = Position(t, l)
  BY InList DEF ListedOnce
<1>3. Load(s) \in Int /\ Load(t) \in Int
  BY <1>1, Division, SourcesAssumption, PAssumption DEF Load, items
<1>4. k - 1 \in Nat /\ l - 1 \in Nat
  BY <1>3
<1>5. k - 1 = l - 1 /\ s = t
  BY <1>1, <1>2, <1>4, Unique DEF Position
<1> QED BY <1>3, <1>5

\* What load_distributor puts into its dictionary is the share of each slave, and
\* repeats only what is listed more than once.
LEMMA AssignedIsOwn ==
    ASSUME source \in Sources, NEW s \in Slaves
    PROVE  /\ Assigned(s) \in Seq(Items)
           /\ \A i \in DOMAIN Assigned(s) : Assigned(s)[i] \in Own(s)
           /\ \A i, j \in DOMAIN Assigned(s) :
                ListedOnce(Assigned(s)[i]) /\ Assigned(s)[i] = Assigned(s)[j] => i = j
<1>1. Assigned(s) = [k \in 1 .. Load(s) |-> items[Position(s, k)]]
  BY DEF Assigned, Position
<1>2. \A k \in 1 .. Load(s) : items[Position(s, k)] \in Items
  BY InList, SourcesAssumption DEF items, Items
<1>3. Assigned(s) \in Seq(Items)
  <2>1. /\ p - 1 \in Nat \ {0}
        /\ Len(items) - s + p - 1 \in Int /\ Len(items) - s + p - 1 >= 0
    BY PAssumption, SourcesAssumption DEF Slaves, items
  <2>2. Load(s) \in Nat BY <2>1, Division DEF Load
  <2> QED BY <1>1, <1>2, <2>2
<1>4. \A i \in DOMAIN Assigned(s) : Assigned(s)[i] \in Own(s)
  BY <1>1 DEF Own
<1>5. \A i, j \in DOMAIN Assigned(s) :
          ListedOnce(Assigned(s)[i]) /\ Assigned(s)[i] = Assigned(s)[j] => i = j
  BY <1>1, OneOwner
<1> QED BY <1>3, <1>4, <1>5

\* Before the slaves start, nothing has been processed.
LEMMA InitIInv == Init => IInv
<1> SUFFICES ASSUME Init PROVE IInv
    OBVIOUS
<1>1. Types /\ Dealt
  BY DEF Init, Types, Dealt
<1>2. ASSUME NEW s \in Slaves, NEW n \in Own(s) PROVE destination[n] = "absent"
  BY <1>2, InList, SourcesAssumption DEF Init, Own, items, Items
<1>3. \A s \in Slaves : Share(s)
  BY <1>2 DEF Init, Share
<1> QED BY <1>1, <1>3 DEF IInv

\* A step that leaves the slaves and the files alone leaves the shares alone.
LEMMA SharesKept ==
    ASSUME IInv, UNCHANGED <<source, slaveVars, files>>
    PROVE  Types' /\ \A s \in Slaves : Share(s)'
BY DEF IInv, Types, Share, slaveVars, files, Own, items, Items, Position, Load, ListedOnce

\* No step breaks the invariant.
LEMMA NextIInv == IInv /\ [Next]_vars => IInv'
<1> SUFFICES ASSUME IInv, [Next]_vars PROVE IInv'
    OBVIOUS
<1>1. CASE Master
  <2>1. UNCHANGED <<source, slaveVars, files>>
    BY <1>1 DEF Master, MasterExits, MasterRaises, MasterDistributes,
       MasterSends, MasterHasSent, MasterDone, MasterReceivesIdle,
       MasterReceivesConfirmation
  <2>2. Dealt'
    BY <1>1, <2>1 DEF IInv, Dealt, Master, MasterExits, MasterRaises,
       MasterDistributes, MasterSends, MasterHasSent, MasterDone,
       MasterReceivesIdle, MasterReceivesConfirmation, Assigned, Load, items
  <2> QED BY <2>1, <2>2, SharesKept DEF IInv
<1>2. ASSUME NEW s \in Slaves, Slave(s) PROVE IInv'
  <2>1. UNCHANGED <<source, masterVars>>
    BY <1>2 DEF Slave, SlaveStarts, SlaveIsIdle, SlaveReceives, SlaveProcesses,
       SlaveRaises
  <2>2. Dealt'
    BY <2>1 DEF IInv, Dealt, masterVars, Assigned, Load, items
  <2>3. (\A t \in Slaves : Own(t)' = Own(t)) /\ \A n : ListedOnce(n)' <=> ListedOnce(n)
    BY <2>1 DEF Own, items, Position, Load, ListedOnce
  <2>4. ASSUME slave[s] \notin {"start", "recv"} \/ slave'[s] \in {"recv", "exit"},
               slave' \in {[slave EXCEPT ![s] = v] : v \in {"recv", "exit", "dead"}},
               slave'[s] = "recv" => slave[s] = "start",
               UNCHANGED <<job_list, files>>
        PROVE  Types' /\ \A t \in Slaves : Share(t)'
    <3>1. Types' BY <2>1, <2>4 DEF IInv, Types, files, Items
    <3>2. ASSUME NEW t \in Slaves PROVE Share(t)'
      <4>1. /\ slave'[t] \in {"start", "recv"} => slave[t] \in {"start", "recv"}
            /\ slave'[t] = "work" => slave[t] = "work"
        <5>1. slave'[t] = slave[t] \/ (t = s /\ slave'[s] \in {"recv", "exit", "dead"})
          BY <2>4 DEF IInv, Types
        <5> QED BY <2>4, <5>1
      <4>2. Own(t)' = Own(t) /\ job_list' = job_list /\ destination' = destination
        BY <2>3, <2>4 DEF files
      <4>3. Share(t) BY DEF IInv
      <4> QED BY <2>3, <4>1, <4>2, <4>3 DEF Share
    <3> QED BY <3>1, <3>2
  <2>5. CASE SlaveStarts(s) \/ SlaveIsIdle(s) \/ SlaveRaises(s)
    BY <2>2, <2>4, <2>5 DEF IInv, Types, SlaveStarts, SlaveIsIdle, SlaveRaises, slaveVars
  <2>6. CASE SlaveReceives(s)
    <3>1. /\ job_list' = [job_list EXCEPT ![s] = Assigned(s)]
          /\ slave' = [slave EXCEPT ![s] = "work"]
          /\ slave[s] = "recv" /\ Assigned(s) # <<>>
          /\ UNCHANGED files
      BY <2>6 DEF SlaveReceives, HasMail, IInv, Dealt
    <3>2. Types'
      BY <2>1, <3>1, AssignedIsOwn DEF IInv, Types, files, Items
    <3>3. ASSUME NEW t \in Slaves PROVE Share(t)'
      <4>1. CASE t = s
        <5>1. /\ job_list'[s] = Assigned(s) /\ slave'[s] = "work"
              /\ destination' = destination
          BY <3>1 DEF IInv, Types, files
        <5>2. \A n \in Own(s) : ListedOnce(n) => destination[n] = "absent"
          BY <3>1 DEF IInv, Share
        <5> QED BY <2>3, <3>1, <4>1, <5>1, <5>2, AssignedIsOwn DEF IInv, Types, Share
      <4>2. CASE t # s
        <5>1. /\ job_list'[t] = job_list[t] /\ slave'[t] = slave[t]
              /\ destination' = destination /\ Own(t)' = Own(t)
          BY <2>3, <3>1, <4>2 DEF IInv, Types, files
        <5>2. Share(t) BY DEF IInv
        <5> QED BY <2>3, <5>1, <5>2 DEF Share
      <4> QED BY <4>1, <4>2
    <3> QED BY <2>2, <3>2, <3>3 DEF IInv
  <2>7. CASE SlaveProcesses(s)
    <3> DEFINE jobs == job_list[s]
               job  == Head(job_list[s])
    <3>1. /\ jobs \in Seq(Items) /\ jobs # <<>>
          /\ job_list' = [job_list EXCEPT ![s] = Tail(jobs)]
          /\ slave[s] = "work"
          /\ slave' = [slave EXCEPT ![s] = IF Tail(jobs) = <<>> THEN "exit" ELSE @]
      BY <2>7 DEF SlaveProcesses, IInv, Types, Share
    <3>2. PICK result \in {"absent", "partial", "complete"} :
            destination' = [destination EXCEPT ![job] = result]
      BY <2>7 DEF SlaveProcesses, RsyncResults
    <3>3. job = jobs[1] /\ 1 \in DOMAIN jobs /\ job \in Items /\ job \in Own(s)
      BY <3>1 DEF IInv, Share
    <3>4. /\ Tail(jobs) \in Seq(Items)
          /\ \A i \in DOMAIN Tail(jobs) : i + 1 \in DOMAIN jobs /\ Tail(jobs)[i] = jobs[i + 1]
      BY <3>1
    <3>5. Types'
      BY <2>1, <3>1, <3>2, <3>3, <3>4 DEF IInv, Types, Items
    <3>6. \A n \in Items \ {job} : destination'[n] = destination[n]
      BY <3>2 DEF IInv, Types
    <3>7. Share(s)'
      <4>1. \A i \in DOMAIN Tail(jobs) : ListedOnce(Tail(jobs)[i]) => Tail(jobs)[i] # job
        <5> SUFFICES ASSUME NEW i \in DOMAIN Tail(jobs), ListedOnce(Tail(jobs)[i]),
                            Tail(jobs)[i] = job
                     PROVE  FALSE
          OBVIOUS
        <5>1. i + 1 \in DOMAIN jobs /\ jobs[i + 1] = jobs[1] /\ ListedOnce(jobs[i + 1])
          BY <3>3, <3>4
        <5>2. i + 1 = 1 BY <3>3, <5>1 DEF IInv, Share
        <5>3. i \in 1 .. Len(Tail(jobs)) BY <3>4
        <5> QED BY <5>2, <5>3
      <4>2. \A i \in DOMAIN Tail(jobs) :
                ListedOnce(Tail(jobs)[i]) => destination'[Tail(jobs)[i]] = "absent"
        BY <3>1, <3>4, <3>6, <4>1 DEF IInv, Share
      <4>3. job_list'[s] = Tail(jobs) /\ slave'[s] \in {"work", "exit"}
            /\ (slave'[s] = "work" => Tail(jobs) # <<>>)
        BY <3>1 DEF IInv, Types
      <4>4. \A i, j \in DOMAIN Tail(jobs) :
                ListedOnce(Tail(jobs)[i]) /\ Tail(jobs)[i] = Tail(jobs)[j] => i = j
        BY <3>1, <3>4 DEF IInv, Share
      <4>5. \A i \in DOMAIN Tail(jobs) : Tail(jobs)[i] \in Own(s)
        BY <3>4 DEF IInv, Share
      <4> QED BY <2>3, <4>2, <4>3, <4>4, <4>5 DEF Share
    <3>8. ASSUME NEW t \in Slaves, t # s PROVE Share(t)'
      <4>1. \A n \in Own(t) : n \in Items /\ (ListedOnce(n) => n # job)
        <5>1. Own(t) \subseteq Items
          BY InList, SourcesAssumption DEF IInv, Types, Own, items, Items
        <5>2. ASSUME job \in Own(t), ListedOnce(job) PROVE FALSE
          <6>1. PICK l \in 1 .. Load(t) : job = items[Position(t, l)]
            BY <5>2 DEF Own
          <6>2. PICK k \in 1 .. Load(s) : job = items[Position(s, k)]
            BY <3>3 DEF Own
          <6>3. source \in Sources BY DEF IInv, Types
          <6>4. /\ items[Position(s, k)] = items[Position(t, l)]
                /\ ListedOnce(items[Position(s, k)])
            BY <5>2, <6>1, <6>2
          <6>5. s = t BY <6>3, <6>4, OneOwner
          <6> QED BY <3>8, <6>5
        <5> QED BY <5>1, <5>2
      <4>2. job_list'[t] = job_list[t] /\ slave'[t] = slave[t]
        BY <3>1, <3>8 DEF IInv, Types
      <4> QED BY <2>3, <3>6, <4>1, <4>2 DEF IInv, Share
    <3> QED BY <2>2, <3>5, <3>7, <3>8 DEF IInv
  <2> QED BY <1>2, <2>5, <2>6, <2>7 DEF Slave
<1>3. CASE UNCHANGED vars
  BY <1>3, SharesKept DEF vars, masterVars, IInv, Dealt, Assigned, Load, items
<1> QED BY <1>1, <1>2, <1>3 DEF Next, Terminated

-----------------------------------------------------------------------------
\* The invariant holds in every behaviour.
LEMMA Invariant == Spec => []IInv
BY InitIInv, NextIInv, PTL DEF Spec

\* An item that is listed once, as every sub-directory is, is processed by one slave
\* only, and once only, for any number of ranks and any source: no two slaves ever
\* use the hash files of one item.
THEOREM StagedOnce == Spec => []ProcessedOnce
<1>1. IInv => ProcessedOnce
  <2> SUFFICES ASSUME IInv, NEW s \in Slaves, NEW i \in DOMAIN job_list[s],
                      ListedOnce(job_list[s][i])
               PROVE  /\ destination[job_list[s][i]] = "absent"
                      /\ \A t \in Slaves : \A j \in DOMAIN job_list[t] :
                            job_list[s][i] = job_list[t][j] => s = t /\ i = j
    BY DEF ProcessedOnce
  <2>1. destination[job_list[s][i]] = "absent"
    BY DEF IInv, Share
  <2>2. ASSUME NEW t \in Slaves, NEW j \in DOMAIN job_list[t],
               job_list[s][i] = job_list[t][j]
        PROVE  s = t /\ i = j
    <3>1. job_list[s][i] \in Own(s) /\ job_list[s][i] \in Own(t)
      BY <2>2 DEF IInv, Share
    <3>2. s = t
      BY <3>1, OneOwner DEF IInv, Types, Own
    <3> QED BY <2>2, <3>2 DEF IInv, Share
  <2> QED BY <2>1, <2>2
<1> QED BY <1>1, Invariant, PTL

-----------------------------------------------------------------------------
(* What the comparison of the hash files says.                             *)

\* A verdict is set together with the result of the copy it is about.
Compared ==
    /\ verdict \in [Items -> {"none", "identical", "unverified"}]
    /\ FlatIdenticalIsCopied

LEMMA NextCompared == IInv /\ Compared /\ [Next]_vars => Compared'
<1> SUFFICES ASSUME IInv, Compared, [Next]_vars PROVE Compared'
    OBVIOUS
<1>1. CASE UNCHANGED <<source, files>>
  BY <1>1 DEF Compared, FlatIdenticalIsCopied, files, Items
<1>2. ASSUME NEW s \in Slaves, SlaveProcesses(s) PROVE Compared'
  <2> DEFINE job == Head(job_list[s])
  <2>1. PICK result \in RsyncResults(job) : \E said \in Verdicts(job, result) :
            /\ destination' = [destination EXCEPT ![job] = result]
            /\ verdict' = [verdict EXCEPT ![job] = said]
    BY <1>2 DEF SlaveProcesses
  <2>0. PICK said \in Verdicts(job, result) :
            /\ destination' = [destination EXCEPT ![job] = result]
            /\ verdict' = [verdict EXCEPT ![job] = said]
    BY <2>1
  <2>2. source' = source /\ Items' = Items
    BY <1>2 DEF SlaveProcesses, Items
  <2>3. /\ said \in {"none", "identical", "unverified"}
        /\ source.shape[job] = "flat" /\ said = "identical" => result = "complete"
    BY <2>0 DEF Verdicts, RsyncResults
  <2>4. destination \in [Items -> {"absent", "partial", "complete"}]
    BY DEF IInv, Types
  <2>5. verdict' \in [Items -> {"none", "identical", "unverified"}]
    BY <2>0, <2>3 DEF Compared
  <2>6. ASSUME NEW n \in Items, source.shape[n] = "flat", verdict'[n] = "identical"
        PROVE  destination'[n] = "complete"
    <3>1. CASE n = job
      BY <2>0, <2>3, <2>4, <2>6, <3>1 DEF Compared
    <3>2. CASE n # job
      BY <2>0, <2>4, <2>6, <3>2 DEF Compared, FlatIdenticalIsCopied
    <3> QED BY <3>1, <3>2
  <2> QED BY <2>2, <2>5, <2>6 DEF Compared, FlatIdenticalIsCopied
<1>3. Next => UNCHANGED <<source, files>> \/ \E s \in Slaves : SlaveProcesses(s)
  BY DEF Next, Master, MasterExits, MasterRaises, MasterDistributes, MasterSends,
     MasterHasSent, MasterDone, MasterReceivesIdle, MasterReceivesConfirmation,
     Slave, SlaveStarts, SlaveIsIdle, SlaveReceives, SlaveRaises, Terminated, vars
<1> QED BY <1>1, <1>2, <1>3 DEF vars

\* An item is only said to be identical with its copy if all of it has been
\* copied, if all its files lie at its top; for any source and any outcome of
\* rsync.
THEOREM IdenticalMeansCopied == Spec => []FlatIdenticalIsCopied
<1>1. Init => Compared
  BY DEF Init, Compared, FlatIdenticalIsCopied
<1>2. Compared => FlatIdenticalIsCopied
  BY DEF Compared
<1> QED BY <1>1, <1>2, Invariant, NextCompared, PTL DEF Spec

-----------------------------------------------------------------------------
(* Every message is waited for.                                            *)

\* The number of messages that slave s sends in all: one for each item, or one
\* to say that it has none.
Due(s) == IF Load(s) = 0 THEN 1 ELSE Load(s)

\* Of these, the messages that it has not sent yet.
Left(s) == IF slave[s] \in {"start", "recv"} THEN Due(s) ELSE Len(job_list[s])

\* Of these, the messages that the master has received.
Taken(s) == Due(s) - Left(s) - unread[s]

\* The messages, each by its slave and its number.
Messages == {m \in Slaves \X Nat : 1 <= m[2] /\ m[2] <= Due(m[1])}
Received == {m \in Slaves \X Nat : 1 <= m[2] /\ m[2] <= Taken(m[1])}

\* The number of messages that the master has counted.
Counted ==
    IF master \in {"receive", "done"}
    THEN (p - Len(items) - idle_counter) + (message_counter - 1)
    ELSE 0

\* The last Len(job_list[s]) items of the share of slave s are still to be
\* processed, the others have been.
Progress(s) ==
    /\ slave[s] \in {"start", "recv"} => unread[s] = 0 /\ job_list[s] = <<>>
    /\ slave[s] \in {"work", "exit", "dead"} =>
        /\ Len(job_list[s]) <= Load(s)
        /\ \A i \in DOMAIN job_list[s] :
             job_list[s][i] = items[Position(s, Load(s) - Len(job_list[s]) + i)]
        /\ Rsync_Status = 1 =>
             \A k \in 1 .. Load(s) - Len(job_list[s]) :
                 destination[items[Position(s, k)]] # "absent"
    /\ slave[s] = "exit" => job_list[s] = <<>>
    /\ slave[s] = "dead" => job_list[s] # <<>>
    /\ unread[s] \in Nat /\ Taken(s) \in Nat

\* What the two loops of the master have counted are the messages received.
Counting ==
    /\ unread \in [Slaves -> Nat]
    /\ message_counter \in 1 .. Len(items) + 1
    /\ idle_counter \in Int
    /\ master \notin {"receive", "done"} => message_counter = 1
    /\ master \in {"receive", "done"} =>
        /\ idle_counter <= p - Len(items)
        /\ idle_counter < p - Len(items) => idle_counter >= 1
    /\ master = "done" => idle_counter <= 1 /\ AllConfirmed
    /\ IsFiniteSet(Received) /\ Cardinality(Received) = Counted

\* What is dealt out is there, and there is a slave for it.
Distributed ==
    master \in {"send", "receive", "done"} =>
        source.exists /\ ~DistributionRaises

CInv ==
    /\ Distributed
    /\ source.exists => Counting /\ \A s \in Slaves : Progress(s)


\* A share is as long as the division says, and a slave sends something.
LEMMA Loads ==
    ASSUME source \in Sources, NEW s \in Slaves
    PROVE  /\ Load(s) \in Nat /\ Due(s) \in Nat /\ Due(s) >= 1
           /\ Len(Assigned(s)) = Load(s)
<1>1. /\ p - 1 \in Nat \ {0}
      /\ Len(items) - s + p - 1 \in Int /\ Len(items) - s + p - 1 >= 0
  BY PAssumption, SourcesAssumption DEF Slaves, items
<1>2. Load(s) \in Nat BY <1>1, Division DEF Load
<1>3. Due(s) \in Nat /\ Due(s) >= 1
  BY <1>2 DEF Due
<1> QED BY <1>2, <1>3 DEF Assigned

\* Nothing that a message is counted by changes.
LEMMA ProgressKept ==
    ASSUME IInv, CInv, source.exists,
           UNCHANGED <<source, slaveVars, unread, files>>
    PROVE  \A s \in Slaves : Progress(s)' /\ Taken(s)' = Taken(s)
BY DEF CInv, Progress, Taken, Left, Due, Load, Position, items, slaveVars, files

\* A step of a slave keeps the progress of all slaves; the number of messages
\* that the master has received does not change.
LEMMA SlaveProgress ==
    ASSUME IInv, CInv, source.exists, NEW s \in Slaves, Slave(s)
    PROVE  \A t \in Slaves : Progress(t)' /\ Taken(t)' = Taken(t)
<1>0. /\ source' = source /\ source \in Sources
      /\ \A t \in Slaves : Load(t)' = Load(t) /\ Due(t)' = Due(t)
      /\ \A t \in Slaves, k \in Nat : Position(t, k)' = Position(t, k)
      /\ items' = items
  BY DEF Slave, SlaveStarts, SlaveIsIdle, SlaveReceives, SlaveProcesses,
     SlaveRaises, Load, Due, items, Position, IInv, Types
<1>1. Load(s) \in Nat /\ Due(s) \in Nat /\ Due(s) >= 1
  BY <1>0, Loads
<1>2. Progress(s) /\ Share(s) /\ unread[s] \in Nat /\ Taken(s) \in Nat
  BY DEF CInv, IInv, Progress
<1>a. /\ unread \in [Slaves -> Nat] /\ unread' \in [Slaves -> Int]
      /\ slave \in [Slaves -> {"start", "recv", "work", "exit", "dead"}]
      /\ job_list \in [Slaves -> Seq(Items)]
      /\ destination \in [Items -> {"absent", "partial", "complete"}]
  BY DEF CInv, Counting, IInv, Types, Slave, SlaveStarts, SlaveIsIdle,
     SlaveReceives, SlaveProcesses, SlaveRaises, Confirm
<1>b. ASSUME Rsync_Status = 1, NEW n \in Items, destination[n] # "absent"
      PROVE  destination'[n] # "absent"
  BY <1>a, <1>b DEF Slave, SlaveStarts, SlaveIsIdle, SlaveReceives,
     SlaveProcesses, SlaveRaises, RsyncResults, files
<1>c. \A t \in Slaves, k \in Int : k \in 1 .. Load(t) => items[Position(t, k)] \in Items
  BY <1>0, InList, SourcesAssumption DEF items, Items
<1>3. ASSUME NEW t \in Slaves, t # s PROVE Progress(t)' /\ Taken(t)' = Taken(t)
  <2>1. slave'[t] = slave[t] /\ job_list'[t] = job_list[t] /\ unread'[t] = unread[t]
    BY <1>3, <1>a DEF Slave, SlaveStarts, SlaveIsIdle, SlaveReceives,
       SlaveProcesses, SlaveRaises, Confirm, slaveVars
  <2>2. Progress(t) BY DEF CInv
  <2>3. Taken(t)' = Taken(t)
    BY <1>0, <2>1 DEF Taken, Left
  <2>4. Load(t) \in Nat /\ Len(job_list[t]) \in Nat
    BY <1>0, <1>a, Loads
  <2>5. ASSUME Rsync_Status = 1, slave[t] \in {"work", "exit", "dead"},
               NEW k \in 1 .. Load(t) - Len(job_list[t])
        PROVE  destination'[items[Position(t, k)]] # "absent"
    <3>1. k \in 1 .. Load(t) BY <2>4
    <3> QED BY <1>b, <1>c, <2>2, <2>5, <3>1 DEF Progress
  <2>6. \A k \in Int : items'[Position(t, k)'] = items[Position(t, k)]
    BY <1>0 DEF Position
  <2> QED BY <1>0, <2>1, <2>2, <2>3, <2>4, <2>5, <2>6 DEF Progress
<1>4. CASE SlaveStarts(s)
  <2>1. /\ slave[s] = "start" /\ slave'[s] = "recv"
        /\ job_list'[s] = job_list[s] /\ unread'[s] = unread[s]
    BY <1>4, <1>a DEF SlaveStarts
  <2>2. Taken(s)' = Taken(s)
    BY <1>0, <2>1 DEF Taken, Left
  <2> QED BY <1>2, <1>3, <2>1, <2>2 DEF Progress
<1>5. CASE SlaveIsIdle(s)
  <2>1. /\ slave[s] = "recv" /\ slave'[s] = "exit" /\ Assigned(s) = <<>>
        /\ job_list'[s] = job_list[s] /\ unread'[s] = unread[s] + 1
    BY <1>5, <1>a DEF SlaveIsIdle, HasMail, Confirm, IInv, Dealt
  <2>2. Load(s) = 0 /\ Due(s) = 1
    BY <2>1, <1>0, Loads DEF Due
  <2>3. job_list[s] = <<>>
    BY <1>2, <2>1 DEF Progress
  <2>4. Taken(s)' = Taken(s) /\ unread[s] = 0
    BY <1>0, <1>2, <2>1, <2>2, <2>3 DEF Taken, Left, Progress
  <2> QED BY <1>0, <1>2, <1>3, <2>1, <2>2, <2>3, <2>4 DEF Progress
<1>6. CASE SlaveReceives(s)
  <2>1. /\ slave[s] = "recv" /\ slave'[s] = "work" /\ Assigned(s) # <<>>
        /\ job_list'[s] = Assigned(s) /\ unread'[s] = unread[s]
    BY <1>6, <1>a DEF SlaveReceives, HasMail, IInv, Dealt
  <2>2. Len(Assigned(s)) = Load(s) /\ Load(s) > 0 /\ Due(s) = Load(s)
    BY <2>1, <1>0, <1>1, Loads DEF Due, Assigned
  <2>3. Taken(s)' = Taken(s)
    BY <1>0, <2>1, <2>2 DEF Taken, Left
  <2>4. \A i \in DOMAIN Assigned(s) : Assigned(s)[i] = items[Position(s, i)]
    BY DEF Assigned, Position
  <2>5. \A i \in Int : Load(s) - Load(s) + i = i
    BY <1>1
  <2>6. \A i \in DOMAIN Assigned(s) :
            Assigned(s)[i] = items'[Position(s, Load(s) - Load(s) + i)']
    BY <1>0, <1>1, <2>4, <2>5 DEF Assigned, Position
  <2> QED BY <1>0, <1>1, <1>2, <1>3, <2>1, <2>2, <2>3, <2>6 DEF Progress
<1>7. CASE SlaveProcesses(s)
  <2> DEFINE jobs == job_list[s]
             job  == Head(job_list[s])
  <2>1. /\ slave[s] = "work" /\ jobs \in Seq(Items) /\ jobs # <<>>
        /\ job_list'[s] = Tail(jobs) /\ unread'[s] = unread[s] + 1
        /\ slave'[s] = IF Tail(jobs) = <<>> THEN "exit" ELSE "work"
    BY <1>2, <1>7, <1>a DEF SlaveProcesses, Confirm, Share
  <2>2. /\ Len(jobs) \in Nat /\ Len(jobs) >= 1 /\ Len(Tail(jobs)) = Len(jobs) - 1
        /\ Tail(jobs) \in Seq(Items) /\ job = jobs[1] /\ 1 \in DOMAIN jobs
        /\ \A i \in DOMAIN Tail(jobs) : i + 1 \in DOMAIN jobs /\ Tail(jobs)[i] = jobs[i + 1]
    BY <2>1
  <2>3. Taken(s)' = Taken(s)
    BY <1>0, <1>1, <1>2, <2>1, <2>2 DEF Taken, Left
  <2>4. Len(jobs) <= Load(s)
    BY <1>2, <2>1 DEF Progress
  <2>5. ASSUME NEW i \in DOMAIN Tail(jobs)
        PROVE  Tail(jobs)[i] = items[Position(s, Load(s) - Len(Tail(jobs)) + i)]
    <3>1. Tail(jobs)[i] = items[Position(s, Load(s) - Len(jobs) + (i + 1))]
      BY <1>2, <2>1, <2>2, <2>5 DEF Progress
    <3>2. i \in Nat BY <2>2, <2>5
    <3>3. Load(s) - Len(jobs) + (i + 1) = Load(s) - Len(Tail(jobs)) + i
      BY <1>1, <2>2, <3>2
    <3> QED BY <3>1, <3>3
  <2>6. ASSUME Rsync_Status = 1, NEW k \in 1 .. Load(s) - Len(Tail(jobs))
        PROVE  destination'[items[Position(s, k)]] # "absent"
    <3>1. k \in 1 .. Load(s) /\ items[Position(s, k)] \in Items
      BY <1>1, <1>c, <2>2
    <3>2. CASE k = Load(s) - Len(jobs) + 1
      <4>1. job = items[Position(s, k)]
        BY <1>2, <2>1, <2>2, <3>2 DEF Progress
      <4>2. destination'[job] # "absent"
        BY <1>7, <1>a, <2>6, <3>1, <4>1 DEF SlaveProcesses, RsyncResults
      <4> QED BY <4>1, <4>2
    <3>3. CASE k # Load(s) - Len(jobs) + 1
      <4>1. k \in 1 .. Load(s) - Len(jobs)
        BY <1>1, <2>2, <3>3
      <4>2. destination[items[Position(s, k)]] # "absent"
        BY <1>2, <2>1, <2>6, <4>1 DEF Progress
      <4> QED BY <1>b, <2>6, <3>1, <4>2
    <3> QED BY <3>2, <3>3
  <2>7. Len(Tail(jobs)) <= Load(s) /\ unread'[s] \in Nat
    BY <1>1, <1>2, <2>1, <2>2, <2>4
  <2>8. /\ items' = items /\ Load(s)' = Load(s) /\ job_list'[s] = Tail(jobs)
        /\ slave'[s] \in {"work", "exit"} /\ (slave'[s] = "exit" => Tail(jobs) = <<>>)
    BY <1>0, <2>1
  <2> HIDE DEF jobs
  <2>9. /\ \A i \in DOMAIN job_list'[s] :
             job_list'[s][i] = items'[Position(s, Load(s)' - Len(job_list'[s]) + i)]
        /\ Rsync_Status = 1 =>
             \A k \in 1 .. Load(s)' - Len(job_list'[s]) :
                 destination'[items'[Position(s, k)]] # "absent"
    BY <2>5, <2>6, <2>8
  <2>10. Taken(s)' \in Nat
    BY <1>2, <2>3
  <2>11. Progress(s)'
    BY <2>7, <2>8, <2>9, <2>10 DEF Progress
  <2> QED BY <1>3, <2>3, <2>11
<1>8. CASE SlaveRaises(s)
  <2>1. /\ slave[s] = "work" /\ slave'[s] = "dead" /\ job_list[s] # <<>>
        /\ job_list'[s] = job_list[s] /\ unread'[s] = unread[s]
        /\ destination' = destination
    BY <1>2, <1>8, <1>a DEF SlaveRaises, files, Share
  <2>2. Taken(s)' = Taken(s)
    BY <1>0, <2>1 DEF Taken, Left
  <2>3. \A k \in Int : items'[Position(s, k)'] = items[Position(s, k)]
    BY <1>0 DEF Position
  <2> QED BY <1>0, <1>1, <1>2, <1>3, <2>1, <2>2, <2>3 DEF Progress
<1> QED BY <1>3, <1>4, <1>5, <1>6, <1>7, <1>8 DEF Slave

\* The messages of the slaves fit into the two loops of the master.
LEMMA MessagesFit ==
    ASSUME source \in Sources, source.exists
    PROVE  /\ IsFiniteSet(Messages)
           /\ Cardinality(Messages) <=
                IF Len(items) < p THEN p - 1 ELSE Len(items)
<1> DEFINE n == p - 1
           bound == IF Len(items) < p THEN p - 1 ELSE Len(items)
           f == [m \in Messages |-> Position(m[1], m[2])]
<1>1. p \in Nat \ {0} /\ Len(items) \in Nat
  BY PAssumption, SourcesAssumption DEF items
<1>2. ASSUME NEW m \in Messages
      PROVE  Position(m[1], m[2]) \in 1 .. bound
  <2>1. m[1] \in Slaves /\ m[2] \in 1 .. Due(m[1]) /\ m[1] \in 1 .. n
    BY DEF Messages, Slaves
  <2>2. CASE Load(m[1]) = 0
    <3>1. m[2] = 1 BY <2>1, <2>2 DEF Due
    <3>2. Position(m[1], m[2]) = 0 * n + m[1] BY <3>1 DEF Position
    <3>3. 0 * n = 0 BY <1>1
    <3> QED BY <1>1, <2>1, <3>2, <3>3
  <2>3. CASE Load(m[1]) # 0
    <3>1. m[2] \in 1 .. Load(m[1]) BY <2>1, <2>3 DEF Due
    <3>2. Position(m[1], m[2]) \in 1 .. Len(items)
      BY <2>1, <3>1, InList, SourcesAssumption DEF items
    <3> QED BY <1>1, <3>2
  <2> QED BY <2>2, <2>3
<1>3. ASSUME NEW a \in Messages, NEW b \in Messages,
             Position(a[1], a[2]) = Position(b[1], b[2])
      PROVE  a = b
  <2>1. /\ a[1] \in Slaves /\ a[2] \in Nat /\ 1 <= a[2] /\ a = <<a[1], a[2]>>
        /\ b[1] \in Slaves /\ b[2] \in Nat /\ 1 <= b[2] /\ b = <<b[1], b[2]>>
    BY DEF Messages
  <2>2. n \in Nat \ {0} /\ a[1] \in 1 .. n /\ b[1] \in 1 .. n
    BY <2>1, PAssumption DEF Slaves
  <2>3. a[2] - 1 \in Nat /\ b[2] - 1 \in Nat
    BY <2>1
  <2>4. PICK x \in Nat, y \in Nat : x = a[2] - 1 /\ y = b[2] - 1
    BY <2>3
  <2>5. x * n + a[1] = y * n + b[1]
    BY <1>3, <2>4 DEF Position
  <2>6. x = y /\ a[1] = b[1]
    BY <2>2, <2>5, Unique
  <2>7. a[2] = b[2] BY <2>1, <2>4, <2>6
  <2> QED BY <2>1, <2>6, <2>7
<1>4. f \in Injection(Messages, 1 .. bound)
  BY <1>2, <1>3 DEF Injection, IsInjective
<1>5. bound \in Nat
  BY <1>1
<1>6. IsFiniteSet(1 .. bound) /\ Cardinality(1 .. bound) = bound
  <2> HIDE DEF bound
  <2> QED BY <1>5, FS_Interval
<1>7. IsFiniteSet(Messages) /\ Cardinality(Messages) <= bound
  BY <1>4, <1>6, FS_Injection
<1> QED BY <1>7

\* Receiving a message adds one to the messages received.
LEMMA ReceiveProgress ==
    ASSUME IInv, CInv, source.exists, NEW s \in Slaves, Receive(s),
           UNCHANGED <<source, slaveVars, files>>
    PROVE  /\ \A t \in Slaves : Progress(t)'
           /\ unread' \in [Slaves -> Nat]
           /\ IsFiniteSet(Received')
           /\ Cardinality(Received') = Cardinality(Received) + 1
<1>1. /\ \A t \in Slaves : Load(t)' = Load(t) /\ Due(t)' = Due(t) /\ Left(t)' = Left(t)
      /\ \A t \in Slaves : Due(t) \in Nat /\ Left(t) \in Nat
      /\ items' = items /\ slave' = slave /\ job_list' = job_list
      /\ destination' = destination
  <2>1. ASSUME NEW t \in Slaves PROVE Due(t) \in Nat /\ Left(t) \in Nat
    BY Loads DEF IInv, Types, Left
  <2> QED BY <2>1 DEF Load, Due, Left, items, slaveVars, files
<1>2. unread \in [Slaves -> Nat] /\ unread[s] > 0
  BY DEF CInv, Counting, Receive
<1>3. unread' = [unread EXCEPT ![s] = unread[s] - 1] /\ unread' \in [Slaves -> Nat]
  BY <1>2 DEF Receive
<1>4. /\ Taken(s)' = Taken(s) + 1 /\ Taken(s) \in Nat
      /\ \A t \in Slaves : t # s => Taken(t)' = Taken(t)
  <2>1. Taken(s)' = Taken(s) + 1
    BY <1>1, <1>2, <1>3 DEF Taken
  <2>2. \A t \in Slaves : t # s => Taken(t)' = Taken(t)
    BY <1>1, <1>2, <1>3 DEF Taken
  <2> QED BY <2>1, <2>2 DEF CInv, Progress
<1>5. ASSUME NEW t \in Slaves PROVE Progress(t)'
  <2>1. Progress(t) BY DEF CInv
  <2>2. unread'[t] \in Nat /\ Taken(t)' \in Nat
    BY <1>3, <1>4, <2>1 DEF Progress
  <2>3. unread'[t] = unread[t] \/ t = s
    BY <1>2, <1>3
  <2>4. slave[s] \notin {"start", "recv"}
    BY <1>2 DEF CInv, Progress
  <2> QED BY <1>1, <2>1, <2>2, <2>3, <2>4 DEF Progress
<1>6. Received' = Received \cup {<<s, Taken(s) + 1>>}
  <2>1. ASSUME NEW m \in Slaves \X Nat
        PROVE  1 <= m[2] /\ m[2] <= Taken(m[1])' <=>
                 (1 <= m[2] /\ m[2] <= Taken(m[1])) \/ m = <<s, Taken(s) + 1>>
    <3>1. m[1] \in Slaves /\ m[2] \in Nat /\ m = <<m[1], m[2]>>
      OBVIOUS
    <3>2. CASE m[1] = s
      BY <1>4, <3>1, <3>2
    <3>3. CASE m[1] # s
      BY <1>4, <3>1, <3>3
    <3> QED BY <3>2, <3>3
  <2>2. <<s, Taken(s) + 1>> \in Slaves \X Nat
    BY <1>4
  <2>3. Received' = {m \in Slaves \X Nat : 1 <= m[2] /\ m[2] <= Taken(m[1])'}
    BY DEF Received
  <2> QED BY <2>1, <2>2, <2>3 DEF Received
<1>7. <<s, Taken(s) + 1>> \notin Received
  BY <1>4 DEF Received
<1>8. IsFiniteSet(Received) /\ Cardinality(Received) \in Nat
  BY FS_CardinalityType DEF CInv, Counting
<1> QED BY <1>3, <1>5, <1>6, <1>7, <1>8, FS_AddElement

\* The messages received are the same if each slave's are.
LEMMA ReceivedKept ==
    ASSUME \A s \in Slaves : Taken(s)' = Taken(s)
    PROVE  Received' = Received
<1>1. Received' = {m \in Slaves \X Nat : 1 <= m[2] /\ m[2] <= Taken(m[1])'}
  BY DEF Received
<1> QED BY <1>1 DEF Received

LEMMA InitCInv == Init => CInv
<1> SUFFICES ASSUME Init, source.exists
             PROVE  Counting /\ \A s \in Slaves : Progress(s)
    BY DEF CInv, Distributed, Init
<1>1. source \in Sources BY DEF Init
<1>2. ASSUME NEW s \in Slaves PROVE Progress(s) /\ Taken(s) = 0
  <2>1. slave[s] = "start" /\ job_list[s] = <<>> /\ unread[s] = 0
    BY DEF Init
  <2>2. Taken(s) = 0 BY <1>1, <2>1, Loads DEF Taken, Left
  <2> QED BY <2>1, <2>2 DEF Progress
<1>3. Received = {}
  BY <1>2 DEF Received
<1>4. Counting
  BY <1>1, <1>3, FS_EmptySet, SourcesAssumption DEF Init, Counting, Counted, items
<1> QED BY <1>2, <1>4

LEMMA NextCInv == IInv /\ CInv /\ [Next]_vars => CInv'
<1> SUFFICES ASSUME IInv, CInv, [Next]_vars PROVE CInv'
    OBVIOUS
<1>0. CASE ~source.exists
  BY <1>0 DEF CInv, Distributed, Next, Master, MasterExits, MasterRaises,
     MasterDistributes, MasterSends, MasterHasSent, MasterDone, MasterReceivesIdle,
     MasterReceivesConfirmation, Slave, SlaveStarts, SlaveIsIdle, SlaveReceives,
     SlaveProcesses, SlaveRaises, Terminated, vars, masterVars
<1> SUFFICES ASSUME source.exists PROVE CInv'
    BY <1>0
<1>1. source' = source /\ source.exists /\ source \in Sources
  BY DEF IInv, Types, Next, Master, MasterExits, MasterRaises, MasterDistributes,
     MasterSends, MasterHasSent, MasterDone, MasterReceivesIdle,
     MasterReceivesConfirmation, Slave, SlaveStarts, SlaveIsIdle, SlaveReceives,
     SlaveProcesses, SlaveRaises, Terminated, vars
<1>2. /\ Distributed /\ Counting /\ \A s \in Slaves : Progress(s)
      /\ Len(items) \in Nat /\ p \in Nat \ {0} /\ items' = items
  BY <1>1, PAssumption, SourcesAssumption DEF CInv, items
<1>3. ASSUME UNCHANGED masterVars, unread' \in [Slaves -> Nat],
             \A s \in Slaves : Progress(s)' /\ Taken(s)' = Taken(s)
      PROVE  CInv'
  BY <1>1, <1>2, <1>3, ReceivedKept DEF CInv, Distributed, DistributionRaises, Load_Level,
     Counting, Counted, AllConfirmed, masterVars
<1>4. ASSUME NEW s \in Slaves, Slave(s) PROVE CInv'
  <2>1. \A t \in Slaves : Progress(t)' /\ Taken(t)' = Taken(t)
    BY <1>1, <1>4, SlaveProgress
  <2>2. UNCHANGED masterVars /\ unread' \in [Slaves -> Nat]
    BY <1>2, <1>4 DEF Counting, Slave, SlaveStarts, SlaveIsIdle, SlaveReceives,
       SlaveProcesses, SlaveRaises, Confirm
  <2> QED BY <1>3, <2>1, <2>2
<1>5. CASE UNCHANGED vars
  <2>1. UNCHANGED <<source, slaveVars, unread, files, masterVars>>
    BY <1>5 DEF vars
  <2> QED BY <1>1, <1>2, <1>3, <2>1, ProgressKept DEF Counting
<1>6. ASSUME UNCHANGED <<source, slaveVars, unread, files>>,
             Distributed', message_counter' = message_counter, idle_counter' \in Int,
             master' \in {"receive", "done"} =>
               /\ idle_counter' <= p - Len(items)
               /\ idle_counter' < p - Len(items) => idle_counter' >= 1,
             master' = "done" => idle_counter' <= 1 /\ AllConfirmed,
             master' \notin {"receive", "done"} => message_counter' = 1,
             Counted' = Counted
      PROVE  CInv'
  <2>1. \A s \in Slaves : Progress(s)' /\ Taken(s)' = Taken(s)
    BY <1>1, <1>6, ProgressKept
  <2>2. Received' = Received
    BY <2>1, ReceivedKept
  <2>3. Counting'
    BY <1>2, <1>6, <2>2 DEF Counting, AllConfirmed
  <2> QED BY <1>6, <2>1, <2>3 DEF CInv
<1>7. CASE MasterExits \/ MasterRaises \/ MasterDistributes \/ MasterSends
  BY <1>1, <1>2, <1>6, <1>7 DEF MasterExits, MasterRaises, MasterDistributes, MasterSends,
     Distributed, DistributionRaises, Load_Level, Counting, Counted
<1>8. CASE MasterHasSent
  BY <1>1, <1>2, <1>6, <1>8 DEF MasterHasSent, IdleExpected, Distributed,
     DistributionRaises, Load_Level, Counting, Counted
<1>9. CASE MasterDone
  BY <1>1, <1>2, <1>6, <1>9 DEF MasterDone, Distributed,
     DistributionRaises, Load_Level, Counting, Counted
<1>10. ASSUME NEW s \in Slaves,
              MasterReceivesIdle(s) \/ MasterReceivesConfirmation(s)
       PROVE  CInv'
  <2>1. Receive(s) /\ UNCHANGED <<source, slaveVars, files>> /\ master = "receive"
        /\ master' = master
    BY <1>10 DEF MasterReceivesIdle, MasterReceivesConfirmation
  <2>2. /\ \A t \in Slaves : Progress(t)'
        /\ unread' \in [Slaves -> Nat]
        /\ IsFiniteSet(Received')
        /\ Cardinality(Received') = Cardinality(Received) + 1
    BY <1>1, <2>1, ReceiveProgress
  <2>3. Distributed'
    BY <1>1, <1>2, <2>1 DEF Distributed, DistributionRaises, Load_Level
  <2>4. Counted' = Counted + 1
    BY <1>2, <1>10, <2>1 DEF Counted, Counting, MasterReceivesIdle,
       MasterReceivesConfirmation
  <2>5. /\ message_counter' \in 1 .. Len(items) + 1 /\ idle_counter' \in Int
        /\ idle_counter' <= p - Len(items)
        /\ idle_counter' < p - Len(items) => idle_counter' >= 1
    BY <1>2, <1>10, <2>1 DEF Counting, MasterReceivesIdle,
       MasterReceivesConfirmation, AllConfirmed
  <2>6. Counting'
    BY <1>2, <2>1, <2>2, <2>4, <2>5 DEF Counting
  <2> QED BY <2>2, <2>3, <2>6 DEF CInv
<1> QED BY <1>4, <1>5, <1>7, <1>8, <1>9, <1>10 DEF Next, Master, Terminated

\* Every item is in the share of some slave.
LEMMA EveryItemIsOwned ==
    ASSUME source \in Sources, p > 1, NEW i \in DOMAIN items
    PROVE  \E s \in Slaves : \E k \in 1 .. Load(s) : i = Position(s, k)
<1> DEFINE n == p - 1
<1>1. n \in Nat \ {0} /\ i \in 1 .. Len(items) /\ Len(items) \in Nat
  BY PAssumption, SourcesAssumption DEF items
<1>2. PICK k \in Nat, s \in 1 .. n : i = k * n + s
  <2>1. i \in Nat \ {0} BY <1>1
  <2> HIDE DEF n
  <2> QED BY <1>1, <2>1, Digits
<1>3. s \in Slaves BY <1>2 DEF Slaves
<1>4. k + 1 <= Load(s)
  <2>1. Load(s) = (Len(items) - s + n) \div n
    BY <1>1, <1>2, PAssumption DEF Load
  <2>2. k * n \in Int /\ Len(items) - s + n >= k * n + n
    BY <1>1, <1>2
  <2>3. k * n + n = (k + 1) * n
    BY <1>1, <1>2
  <2>5. Len(items) - s + n \in Int
    BY <1>1, <1>2
  <2>6. k + 1 \in Int /\ (k + 1) * n <= Len(items) - s + n
    BY <1>2, <2>2, <2>3
  <2> QED BY <1>1, <2>1, <2>5, <2>6, QuotientBound
<1>5. k + 1 \in 1 .. Load(s) /\ i = Position(s, k + 1)
  <2>1. Load(s) \in Nat BY <1>3, Loads
  <2>2. (k + 1) - 1 = k BY <1>2
  <2>3. i = Position(s, k + 1) BY <1>2, <2>2 DEF Position
  <2> QED BY <1>2, <1>4, <2>1, <2>3
<1> QED BY <1>3, <1>5

\* The master only reports the end when it has received every message: the
\* slaves are idle, and every item has been processed; for any number of ranks,
\* any number of items and any order in which the messages arrive.
THEOREM NothingIsLeftOut == Spec => []DoneIsComplete
<1>1. IInv /\ CInv => DoneIsComplete
  <2> SUFFICES ASSUME IInv, CInv, master = "done" PROVE
        /\ \A s \in Slaves : slave[s] = "exit" /\ job_list[s] = <<>> /\ unread[s] = 0
        /\ Rsync_Status = 1 => \A n \in Items : destination[n] # "absent"
      BY DEF DoneIsComplete
  <2> DEFINE bound == IF Len(items) < p THEN p - 1 ELSE Len(items)
  <2>1. /\ source \in Sources /\ source.exists /\ ~DistributionRaises
        /\ Counting /\ \A s \in Slaves : Progress(s) /\ Share(s)
        /\ Len(items) \in Nat /\ p \in Nat \ {0} /\ source.others \in Nat
    BY PAssumption, SourcesAssumption DEF IInv, Types, CInv, Distributed, items
  <2>2. Counted >= bound /\ Counted \in Int
    BY <2>1 DEF Counting, Counted, AllConfirmed
  <2>3. ASSUME NEW s \in Slaves
        PROVE  /\ Due(s) \in Nat /\ Due(s) >= 1 /\ Load(s) \in Nat
               /\ Left(s) \in Nat /\ unread[s] \in Nat /\ job_list[s] \in Seq(Items)
               /\ slave[s] \in {"start", "recv", "work", "exit", "dead"}
    BY <2>1, Loads DEF IInv, Types, Progress, Left
  <2>4. Received \subseteq Messages
    BY <2>3 DEF Received, Messages, Taken
  <2>5. Received = Messages
    <3>1. IsFiniteSet(Messages) /\ Cardinality(Messages) <= bound
      BY <2>1, MessagesFit
    <3>2. Cardinality(Received) <= Cardinality(Messages) /\ Cardinality(Messages) \in Nat
      BY <2>4, <3>1, FS_Subset, FS_CardinalityType
    <3>3. Cardinality(Received) = Cardinality(Messages)
      BY <2>1, <2>2, <3>1, <3>2 DEF Counting
    <3> QED BY <2>4, <3>1, <3>3, FS_Subset
  <2>6. ASSUME NEW s \in Slaves
        PROVE  slave[s] = "exit" /\ job_list[s] = <<>> /\ unread[s] = 0
    <3>1. <<s, Due(s)>> \in Received
      BY <2>3, <2>5 DEF Messages
    <3>2. Due(s) <= Taken(s)
      BY <3>1 DEF Received
    <3>3. Left(s) = 0 /\ unread[s] = 0
      BY <2>3, <3>2 DEF Taken
    <3>4. slave[s] \notin {"start", "recv"} /\ Len(job_list[s]) = 0
      BY <2>3, <3>3 DEF Left
    <3>5. job_list[s] = <<>>
      BY <2>3, <3>4
    <3> QED BY <2>1, <2>3, <3>3, <3>4, <3>5 DEF Progress, Share
  <2>7. ASSUME Rsync_Status = 1, NEW n \in Items PROVE destination[n] # "absent"
    <3>1. PICK i \in DOMAIN items : items[i] = n
      BY <2>1, SourcesAssumption DEF items, Items
    <3>2. p > 1
      BY <2>1, <3>1, SourcesAssumption DEF DistributionRaises, items
    <3>3. PICK s \in Slaves : \E k \in 1 .. Load(s) : i = Position(s, k)
      BY <2>1, <3>1, <3>2, EveryItemIsOwned
    <3>4. PICK k \in 1 .. Load(s) : i = Position(s, k)
      BY <3>3
    <3>5. Progress(s) /\ slave[s] = "exit" /\ Load(s) - Len(job_list[s]) = Load(s)
      BY <2>1, <2>3, <2>6
    <3>6. destination[items[Position(s, k)]] # "absent"
      BY <2>7, <3>4, <3>5 DEF Progress
    <3> QED BY <3>1, <3>4, <3>6
  <2> QED BY <2>6, <2>7
<1>2. Spec => []CInv
  BY InitCInv, NextCInv, Invariant, PTL DEF Spec
<1> QED BY <1>1, <1>2, Invariant, PTL

=============================================================================

-------------------------- MODULE ControllerProofs --------------------------
(***************************************************************************)
(* What Controller guarantees, for any number of ranks, any cache, any set *)
(* of requests and any use of join() and shutdown.                         *)
(***************************************************************************)
EXTENDS NegotiationProofs

-----------------------------------------------------------------------------
(* The background threads meet in the same collective operations of the    *)
(* control plane.                                                          *)

\* The ranks never disagree on whether this cycle is the last one, and after
\* the last one no rank begins another.
StopTogether ==
    /\ \A q, r \in Rank : stop[q] = stop[r]
    /\ \A r \in Rank : stop[r] => phase[r] \in {"perform", "stopped", "dead"}
    /\ \A r \in Rank : phase[r] = "stopped" => stop[r]

\* With a cache, all ranks enter the slow path together; without one, there
\* is no other path.
Paths ==
    /\ Capacity = 0 => \A r \in Rank : phase[r] # "sync"
    /\ Capacity > 0 => \A q, r \in Rank :
            phase[q] = "ready" => phase[r] \in {"ready", "dead"}

\* The part of the invariant that this needs, and what it adds to it.
InStep ==
    /\ phase \in [Rank -> Phases]
    /\ stop \in [Rank -> BOOLEAN]
    /\ StopTogether
    /\ Paths

\* The bitwise and leaves the same hits on every rank.
LEMMA SameHits ==
    ASSUME NEW q \in Rank, NEW r \in Rank
    PROVE  CacheHits(q) = CacheHits(r)
BY DEF CacheHits

\* The job starts with every rank in its first cycle.
LEMMA InitInStep == Init => InStep
BY DEF Init, InStep, StopTogether, Paths, Phases

\* No step breaks the invariant.
LEMMA NextInStep == InStep /\ [Next]_vars => InStep'
<1> SUFFICES ASSUME InStep, [Next]_vars PROVE InStep'
    OBVIOUS
<1> USE DEF InStep
<1>1. ASSUME NEW r \in Rank, NEW q, Add(r, q), ~shutDown[r]
      PROVE  InStep'
  BY <1>1 DEF Add, StopTogether, Paths
<1>2. ASSUME NEW r \in Rank, HorovodShutdown(r)
      PROVE  InStep'
  BY <1>2 DEF HorovodShutdown, StopTogether, Paths
<1>3. ASSUME NEW r \in Rank, Pop(r)
      PROVE  InStep'
  <2>1. /\ phase[r] = "perform" /\ ~stop[r]
        /\ phase' \in {[phase EXCEPT ![r] = "dead"],
                       [phase EXCEPT ![r] = IF Capacity > 0 THEN "sync" ELSE "ready"]}
        /\ stop' = stop
    BY <1>3 DEF Pop, Idle
  <2>2. phase' \in [Rank -> Phases] /\ stop' \in [Rank -> BOOLEAN]
    BY <2>1 DEF Phases
  <2>3. StopTogether' BY <2>1 DEF StopTogether
  <2>4. Paths' BY <2>1, CapacityAssumption DEF Paths
  <2> QED BY <2>2, <2>3, <2>4
<1>4. ASSUME Sync PROVE InStep'
  <2>1. \A r \in Rank : phase[r] = "sync" /\ phase'[r] \in {"ready", "perform"}
    BY <1>4 DEF Sync
  <2>2. phase' \in [Rank -> Phases] /\ stop' \in [Rank -> BOOLEAN]
    BY <1>4 DEF Sync, Phases
  <2>3. \A q, r \in Rank : phase'[q] = phase'[r]
    BY <1>4 DEF Sync, UncachedInQueue
  <2>4. \A q, r \in Rank : stop'[q] = stop'[r]
    BY <1>4, SameHits DEF Sync, UncachedInQueue, ShouldShutDown
  <2>5. \A r \in Rank : stop'[r] => phase'[r] = "perform"
    BY <1>4 DEF Sync
  <2>6. StopTogether' BY <2>1, <2>4, <2>5 DEF StopTogether
  <2>7. Paths' BY <2>1, <2>3, Coordinator0 DEF Paths
  <2> QED BY <2>2, <2>6, <2>7
<1>5. ASSUME Coordinate PROVE InStep'
  <2>1. \A r \in Rank : phase[r] = "ready" /\ phase'[r] \in {"dead", "perform"}
    BY <1>5 DEF Coordinate
  <2>2. /\ phase' \in [Rank -> Phases]
        /\ stop' = [r \in Rank |-> ShouldShutDown(r)]
    BY <1>5 DEF Coordinate, Phases
  <2>3. stop' \in [Rank -> BOOLEAN] /\ \A q, r \in Rank : stop'[q] = stop'[r]
    BY <2>2 DEF ShouldShutDown
  <2>4. StopTogether' BY <2>1, <2>3 DEF StopTogether
  <2>5. Paths' BY <2>1 DEF Paths
  <2> QED BY <2>2, <2>3, <2>4, <2>5
<1>6. ASSUME CoordinatorDies PROVE InStep'
  <2>1. /\ \A r \in Rank : phase[r] = "ready"
        /\ phase' = [phase EXCEPT ![0] = "dead"]
        /\ stop' = stop
    BY <1>6 DEF CoordinatorDies
  <2>2. \A r \in Rank : phase'[r] \in {"ready", "dead"}
    BY <2>1
  <2>3. \A r \in Rank : ~stop[r]
    BY <2>1 DEF StopTogether
  <2>4. phase' \in [Rank -> Phases] /\ stop' \in [Rank -> BOOLEAN]
    BY <2>1, Coordinator0 DEF Phases
  <2>5. StopTogether' /\ Paths'
    BY <2>1, <2>2, <2>3 DEF StopTogether, Paths
  <2> QED BY <2>4, <2>5
<1>7. ASSUME NEW r \in Rank, Perform(r) PROVE InStep'
  <2>1. /\ phase[r] = "perform"
        /\ phase' \in {phase, [phase EXCEPT ![r] = "dead"]}
        /\ stop' = stop
    BY <1>7 DEF Perform
  <2>2. phase' \in [Rank -> Phases] /\ stop' \in [Rank -> BOOLEAN]
    BY <2>1 DEF Phases
  <2>3. StopTogether' /\ Paths' BY <2>1 DEF StopTogether, Paths
  <2> QED BY <2>2, <2>3
<1>8. ASSUME NEW r \in Rank, Stop(r) PROVE InStep'
  <2>1. /\ phase[r] = "perform" /\ stop[r]
        /\ phase' = [phase EXCEPT ![r] = "stopped"]
        /\ stop' = stop
    BY <1>8 DEF Stop, Idle
  <2>2. phase' \in [Rank -> Phases] /\ stop' \in [Rank -> BOOLEAN]
    BY <2>1 DEF Phases
  <2>3. StopTogether' /\ Paths' BY <2>1 DEF StopTogether, Paths
  <2> QED BY <2>2, <2>3
<1>9. ASSUME UNCHANGED vars PROVE InStep'
  BY <1>9 DEF vars, StopTogether, Paths
<1> QED
  BY <1>1, <1>2, <1>3, <1>4, <1>5, <1>6, <1>7, <1>8, <1>9
  DEF Next, Enqueue, EnqueueJoin, Terminated

\* That holds in every behaviour.
LEMMA InStepHolds == Spec => []InStep
BY InitInStep, NextInStep, PTL DEF Spec

\* Nobody waits for ever in a collective operation of the control plane: while
\* a rank is in one, every other rank that lives is in the same one or will
\* come to it.
THEOREM RanksMeet == Spec => []CollectivesMeet
<1>1. InStep => CollectivesMeet
  <2> SUFFICES ASSUME InStep, NEW q \in Rank, NEW r \in Rank,
                      phase[q] \in {"sync", "ready"}
               PROVE  \/ phase[r] \in {phase[q], "dead"}
                      \/ phase[r] = "perform" /\ ~stop[r]
    BY DEF CollectivesMeet
  <2>1. ~stop[r] /\ phase[r] # "stopped"
    BY DEF InStep, StopTogether
  <2>2. phase[r] \in {"perform", "sync", "ready", "dead"}
    BY <2>1 DEF InStep, Phases
  <2>3. phase[r] \in {"sync", "ready"} => phase[r] = phase[q]
    BY CapacityAssumption DEF InStep, Paths
  <2> QED BY <2>1, <2>2, <2>3
<1> QED BY <1>1, InStepHolds, PTL

-----------------------------------------------------------------------------
(* What follows from the invariant.                                        *)

\* The end of a list, as the module of sequences says it.
LEMMA EndIsSuffix ==
    ASSUME NEW s \in Seq(Response), NEW t \in Seq(Response), SameEnd(s, t), Len(s) <= Len(t)
    PROVE  IsSuffix(s, t)
<1> DEFINE a == Reverse(s)
           b == Reverse(t)
<1>1. PICK m \in Nat : m = Len(s) OBVIOUS
<1>2. PICK n \in Nat : n = Len(t) OBVIOUS
<1>3. /\ a = [i \in 1 .. m |-> s[(m - i) + 1]] /\ b = [i \in 1 .. n |-> t[(n - i) + 1]]
  BY <1>1, <1>2 DEF Reverse
<1> HIDE DEF a, b
<1>4. a \in [1 .. m -> Response] /\ b \in [1 .. n -> Response]
  <2>1. \A i \in 1 .. m : (m - i) + 1 \in 1 .. m OBVIOUS
  <2>2. \A i \in 1 .. n : (n - i) + 1 \in 1 .. n OBVIOUS
  <2> QED BY <1>1, <1>2, <1>3, <2>1, <2>2
<1>5. a \in Seq(Response) /\ Len(a) = m /\ b \in Seq(Response) /\ Len(b) = n
  BY <1>4
<1>6. \A i \in 1 .. m : a[i] = b[i]
  <2> TAKE i \in 1 .. m
  <2>1. (m - i) + 1 \in DOMAIN s /\ n - m + ((m - i) + 1) = (n - i) + 1
    BY <1>1
  <2>2. s[(m - i) + 1] = t[n - m + ((m - i) + 1)] BY <1>1, <1>2, <2>1 DEF SameEnd
  <2>3. i \in 1 .. n BY <1>1, <1>2
  <2> QED BY <1>3, <2>1, <2>2, <2>3
<1>7. SubSeq(a, 1, m) = SubSeq(b, 1, m)
  <2>1. m <= n BY <1>1, <1>2
  <2>2. SubSeq(a, 1, m) = [i \in 1 .. m |-> a[i]]
    BY <1>5
  <2>3. SubSeq(b, 1, m) = [i \in 1 .. m |-> b[i]]
    BY <1>5, <2>1
  <2> QED BY <1>6, <2>2, <2>3
<1> QED BY <1>1, <1>2, <1>5, <1>7 DEF IsSuffix, IsPrefix, a, b

\* How often a name is in a list without duplicates.
LEMMA OneIndex ==
    ASSUME NEW s, IsInjective(s), NEW n
    PROVE  Cardinality({i \in DOMAIN s : s[i] = n}) = IF n \in ToSet(s) THEN 1 ELSE 0
<1>1. CASE n \in ToSet(s)
  <2>1. PICK i \in DOMAIN s : s[i] = n BY <1>1 DEF ToSet
  <2>2. {k \in DOMAIN s : s[k] = n} = {i} BY <2>1 DEF IsInjective
  <2> QED BY <1>1, <2>2, FS_Singleton
<1>2. CASE n \notin ToSet(s)
  <2>1. {k \in DOMAIN s : s[k] = n} = {} BY <1>2 DEF ToSet
  <2> QED BY <1>2, <2>1, FS_EmptySet
<1> QED BY <1>1, <1>2

\* How often a name is in the responses of a list.
LEMMA OneResponse ==
    ASSUME NEW list, Once(list), NEW n
    PROVE  Cardinality({i \in DOMAIN list : n \in ToSet(list[i].names)})
             = IF n \in InList(list) THEN 1 ELSE 0
<1>1. CASE n \in InList(list)
  <2>1. PICK i \in DOMAIN list : n \in ToSet(list[i].names) BY <1>1 DEF InList, NamesIn
  <2>2. {k \in DOMAIN list : n \in ToSet(list[k].names)} = {i} BY <2>1 DEF Once, NamesIn
  <2> QED BY <1>1, <2>2, FS_Singleton
<1>2. CASE n \notin InList(list)
  <2>1. {k \in DOMAIN list : n \in ToSet(list[k].names)} = {} BY <1>2 DEF InList, NamesIn
  <2> QED BY <1>2, <2>1, FS_EmptySet
<1> QED BY <1>1, <1>2

\* The caches are identical whenever bits are exchanged.
THEOREM CachesStayIdentical == Spec => []CacheConsistent
<1>1. Inv => CacheConsistent BY DEF Inv
<1> QED BY <1>1, InvHolds, PTL

\* Threads only fail in a cycle in which a rank has joined before a higher one.
THEOREM FailuresNeedEarlyJoins == Spec => OnlyEarlyJoinsFail
<1>1. Inv /\ [Next]_vars =>
        [fault' # fault =>
            /\ fault' \in {"devices", "fuse"}
            /\ \E q, r \in Rank : q < r /\ joined[q] /\ ~joined[r]]_vars
  BY NextInv DEF Excused, EarlyJoin
<1> QED BY <1>1, InvHolds, PTL DEF Spec, OnlyEarlyJoinsFail

\* A rank that performs a response has the tensors it needs.
THEOREM TensorsAreThere == Spec => []TensorsPresent
<1>1. Inv => TensorsPresent
  <2> SUFFICES ASSUME Inv, NEW r \in Rank, phase[r] = "perform",
                      NEW i \in DOMAIN todo[r], ~joined[r]
               PROVE  ToSet(todo[r][i].names) \subseteq Outstanding(r)
    BY DEF TensorsPresent
  <2>1. Located(r) BY InvParts
  <2>2. InList(todo[r]) \subseteq Outstanding(r) BY <2>1 DEF Located
  <2> QED BY <2>2 DEF InList, NamesIn
<1> QED BY <1>1, InvHolds, PTL

\* What one rank has still to perform is the end of what any other has.
THEOREM RanksAgree == Spec => []Agreement
<1>1. Inv => Agreement
  <2> SUFFICES ASSUME Inv, NEW q \in Rank, NEW r \in Rank,
                      phase[q] = "perform", phase[r] = "perform"
               PROVE  IsSuffix(todo[q], todo[r]) \/ IsSuffix(todo[r], todo[q])
    BY DEF Agreement
  <2>1. /\ SameEnd(todo[q], todo[r]) /\ SameEnd(todo[r], todo[q])
        /\ todo[q] \in Seq(Response) /\ todo[r] \in Seq(Response)
    BY InvParts DEF Aligned, Typed
  <2>2. Len(todo[q]) \in Nat /\ Len(todo[r]) \in Nat BY <2>1
  <2>3. Len(todo[q]) <= Len(todo[r]) \/ Len(todo[r]) <= Len(todo[q]) BY <2>2
  <2> QED BY <2>1, <2>3, EndIsSuffix
<1> QED BY <1>1, InvHolds, PTL

\* No request is lost or sent twice.
THEOREM RequestsAreConserved == Spec => []RequestsConserved
<1>1. Inv => RequestsConserved
  <2> SUFFICES ASSUME Inv, NEW r \in Rank, Alive(r), NEW n \in Outstanding(r), n # J
               PROVE  Places(r, n) = 1
    BY DEF RequestsConserved, J
  <2> USE InvParts
  <2>1. Located(r) /\ TableOK(r) BY DEF Alive
  <2>2. n \in Names BY <2>1 DEF TableOK, Names
  <2>3. Cardinality({i \in DOMAIN queue[r] : queue[r][i] = n}) = IF n \in Q(r) THEN 1 ELSE 0
    BY <2>1, OneIndex DEF Located, Q
  <2>4. Cardinality({i \in DOMAIN msgs[r] : msgs[r][i] = n}) = IF n \in M(r) THEN 1 ELSE 0
    BY <2>1, OneIndex DEF Located, M
  <2>5. n \in Names /\ r \in messageTable[n] <=> n \in Counted(r) BY <2>2 DEF Counted
  <2>6. Cardinality({i \in DOMAIN todo[r] : n \in ToSet(todo[r][i].names)})
          = IF n \in InList(todo[r]) THEN 1 ELSE 0
    BY <2>1, OneResponse DEF Located
  <2>7. Cardinality({i \in DOMAIN cachedHits : n \in ToSet(cachedHits[i].names)})
          = IF n \in InList(cachedHits) THEN 1 ELSE 0
    BY <2>1, OneResponse DEF Located
  <2>8. n \in InList(todo[r]) => n \notin InList(cachedHits)
    <3>1. DOMAIN <<>> = {} OBVIOUS
    <3>2. todo[r] = <<>> \/ cachedHits = <<>> BY DEF PhasesOK
    <3> QED BY <3>1, <3>2 DEF InList
  <2>9. /\ \/ n \in Q(r) \/ n \in M(r) \/ n \in Counted(r)
           \/ n \in InList(todo[r]) \/ n \in InList(cachedHits)
        /\ ~(n \in Q(r) /\ n \in M(r))
        /\ ~(n \in Counted(r) /\ n \in Q(r)) /\ ~(n \in Counted(r) /\ n \in M(r))
        /\ n \in InList(cachedHits) => n \notin Q(r) /\ n \notin M(r) /\ n \notin Counted(r)
        /\ n \in InList(todo[r]) => n \notin Q(r) /\ n \notin M(r) /\ n \notin Counted(r)
    BY <2>1 DEF Located
  <2>10. Places(r, n) = (IF n \in Q(r) THEN 1 ELSE 0) + (IF n \in M(r) THEN 1 ELSE 0)
                        + (IF n \in Counted(r) THEN 1 ELSE 0)
                        + (IF n \in InList(todo[r]) THEN 1 ELSE 0)
                        + (IF n \in InList(cachedHits) THEN 1 ELSE 0)
    BY <2>3, <2>4, <2>5, <2>6, <2>7 DEF Places
  <2> QED BY <2>8, <2>9, <2>10
<1> QED BY <1>1, InvHolds, PTL

\* The variables have their types, the stall inspector only remembers what is
\* waiting, and nothing fails unless ranks join.
THEOREM JobIsWellFormed == Spec => []WellFormed
<1>1. Inv => TypeOK
  <2> SUFFICES ASSUME Inv PROVE TypeOK
    OBVIOUS
  <2> USE InvParts
  <2>1. ASSUME NEW r \in Rank
        PROVE  /\ Outstanding(r) \subseteq Names \cup {J}
               /\ \A n \in Outstanding(r) : table[r][n] \in Requests \cup {JoinRequest}
               /\ Len(cache[r]) <= Capacity
    <3>1. TableOK(r) /\ GoodCache(cache[r]) OBVIOUS
    <3>2. \A n \in Outstanding(r) : n \in Names \cup {J}
      BY <3>1 DEF TableOK, Names
    <3>3. Len(cache[r]) <= Capacity BY <3>1 DEF GoodCache
    <3> QED BY <3>1, <3>2, <3>3 DEF TableOK
  <2>2. joinedSize \in 0 .. Size - 1
    <3>1. joinedSize \in Nat /\ joinedSize < Size BY DEF Typed, JoinCount
    <3> QED BY <3>1, SizeAssumption
  <2>3. fault \in {"none", "devices", "fuse", "put", "stall", "tensor"} BY DEF FaultOK
  <2> QED BY <2>1, <2>2, <2>3 DEF TypeOK, Typed, Phases, J
<1>2. Inv => StalledAreWaiting
  <2> SUFFICES ASSUME Inv, NEW r \in Rank, Alive(r)
               PROVE  stalled[r] \subseteq ToSet(queue[r]) \cup ToSet(msgs[r])
    BY DEF StalledAreWaiting
  <2>1. Waits(r) /\ phase[r] # "stopped" BY InvParts DEF Alive
  <2> QED BY <2>1 DEF Waits, Q, M
<1>3. Inv => (JoinRanks = {} => NoFault) BY DEF Inv, FaultOK, NoFault
<1>4. Inv => WellFormed BY <1>1, <1>2, <1>3 DEF WellFormed
<1> QED BY <1>4, InvHolds, PTL

-----------------------------------------------------------------------------
(* The responses fit the requests.                                         *)

\* Every name stands for one kind of operation.
OneOperation == \A p, q \in Requests : p.name = q.name => p.op = q.op

\* The requests of ranks q and r for n can be served by one operation of this
\* type.
Alike(q, r, n, type) ==
    /\ table[q][n].dtype = table[r][n].dtype
    /\ type # "ALLGATHER" => table[q][n].shape = table[r][n].shape
    /\ OneOperation => /\ table[r][n].op = type
                       /\ type = "BROADCAST" => table[q][n].root = table[r][n].root

\* The ranks in S have tensors that a response fits.
Agreed(response, S) ==
    \A n \in NamesIn(response) :
        /\ \A r \in S : n \in Outstanding(r)
        /\ response.type \in CollectiveTypes => \A q, r \in S : Alike(q, r, n, response.type)

\* The size that a reduction tells is that of its first tensor on the ranks in S.
SizesFit(response, S) ==
    response.type \in Reductions =>
        /\ Head(response.names) \in NamesIn(response)
        /\ \A r \in S : response.sizes[1] = NumElements(table[r][Head(response.names)].shape)

\* The ranks that have this response still to perform, and those of them that
\* have not joined.
Holders(response) == {r \in Rank : phase[r] = "perform" /\ response \in ToSet(todo[r])}
Contributors(response) == {r \in Holders(response) : ~joined[r]}

\* The responses that are being performed fit the tensors.
Matched ==
    \A r \in Rank : \A response \in ToSet(todo[r]) :
        /\ Agreed(response, Contributors(response))
        /\ Contributors(response) # Holders(response) => SizesFit(response, Contributors(response))

\* An entry has the operation of the requests for its name.
RightType(e) == \A q \in Requests : q.name = e.name => q.op = e.type

\* Every cache entry has it.
TypesStand == OneOperation => \A r \in Rank : \A e \in ToSet(cache[r]) : RightType(e)

\* How many ranks have joined.
Absent == Size - Cardinality(Active)

\* What a response to one tensor, before it is fused, says of the requests.
Fits(response) ==
    /\ \A r \in Active : TensorOf(response) \in Outstanding(r)
    /\ response.type \in CollectiveTypes =>
          \A q, r \in Active : Alike(q, r, TensorOf(response), response.type)
    /\ response.type \in Reductions /\ Active # Rank =>
          \A r \in Active : response.sizes[1] = NumElements(table[r][TensorOf(response)].shape)
    /\ OneOperation =>
          (response.type = "ERROR" <=> Mismatch(TensorOf(response), Active, Absent))

\* What the ranks perform says of the requests.
FitsAll(list) ==
    \A k \in DOMAIN list :
        /\ IsInjective(list[k].names)
        /\ Agreed(list[k], Active)
        /\ Active # Rank => SizesFit(list[k], Active)
        /\ OneOperation => \A n \in NamesIn(list[k]) :
              (list[k].type = "ERROR" <=> Mismatch(n, Active, Absent))

\* The answer to a tensor that is ready fits the requests for it.
LEMMA AnswerFits ==
    ASSUME Inv, \A r \in Rank : phase[r] = "ready",
           NEW n \in Names, Requesters(n) = Active, Active # {}
    PROVE  Fits(Answer(n))
<1> USE InvParts
<1> DEFINE first == table[Min(Active)][n]
           error == Mismatch(n, Active, Joins)
           rows == Ascending(Active)
           c == Answer(n)
<1>1. /\ \A r \in Active : n \in Outstanding(r)
      /\ IsFiniteSet(Active) /\ Joins \in Nat /\ Joins = Size - Cardinality(Active)
  BY WhatIsCounted
<1>2. ASSUME NEW r \in Active
      PROVE  table[r][n].op \in {"ALLREDUCE", "ADASUM", "ALLGATHER", "BROADCAST"}
  <2>1. r \in Rank /\ n # J BY JoinIsNoName DEF Active
  <2>2. table[r][n] \in Requests BY <1>1, <2>1 DEF TableOK
  <2> QED BY <2>2, RequestsAssumption
<1>3. Active \in SUBSET Nat /\ Active \in SUBSET Rank BY DEF Active, Rank
<1>4. Min(Active) \in Active
  <2>1. \E m \in Active : \A k \in Active : m <= k BY <1>3, LeastElement
  <2> QED BY <2>1 DEF Min
<1>5. c = [type    |-> IF error THEN "ERROR" ELSE first.op,
           names   |-> <<n>>,
           devices |-> Active,
           sizes   |-> IF error THEN <<>>
                       ELSE IF first.op = "ALLGATHER"
                       THEN [i \in DOMAIN rows |-> Head(table[rows[i]][n].shape)]
                       ELSE IF Joins > 0 THEN <<NumElements(first.shape)>>
                       ELSE <<>>]
  BY DEF Answer, ConstructResponse
<1>6. TensorOf(c) = n /\ (c.type = "ERROR" <=> error)
  <2>1. first.op # "ERROR" BY <1>2, <1>4
  <2> HIDE DEF first, error, c, rows
  <2> QED BY <1>5, <2>1 DEF TensorOf
<1> HIDE DEF rows, error, first, c
<1>7. ASSUME c.type \in CollectiveTypes, NEW q \in Active, NEW r \in Active
      PROVE  Alike(q, r, n, c.type)
  <2>1. ~error /\ c.type = first.op
    BY <1>5, <1>6, <1>7 DEF CollectiveTypes, Reductions
  <2>2. table[r][n].op = first.op BY <1>4, <2>1, MatchAgrees DEF error, first
  <2>3. /\ table[q][n].dtype = table[r][n].dtype
        /\ table[r][n].op \in Reductions \cup {"BROADCAST"} =>
                 table[q][n].shape = table[r][n].shape
        /\ table[r][n].op = "BROADCAST" => table[q][n].root = table[r][n].root
    BY <2>1, MatchAgrees DEF error
  <2> QED BY <1>7, <2>1, <2>2, <2>3 DEF Alike, CollectiveTypes
<1>8. ASSUME c.type \in Reductions, Active # Rank, NEW r \in Active
      PROVE  c.sizes[1] = NumElements(table[r][n].shape)
  <2>1. ~error /\ c.type = first.op BY <1>5, <1>6, <1>8 DEF Reductions
  <2>2. Joins > 0
    <3>1. IsFiniteSet(Rank) /\ Cardinality(Rank) = Size BY RankSize
    <3>2. Active \in SUBSET Rank BY <1>3
    <3>3. Cardinality(Active) <= Cardinality(Rank) /\ Cardinality(Active) # Cardinality(Rank)
      BY <1>8, <3>1, <3>2, FS_Subset
    <3>4. Cardinality(Active) \in Nat BY <1>1, FS_CardinalityType
    <3> QED BY <1>1, <3>1, <3>3, <3>4, SizeAssumption
  <2>3. c.sizes = <<NumElements(first.shape)>>
    BY <1>5, <1>8, <2>1, <2>2 DEF Reductions
  <2>4. table[r][n].op = first.op BY <1>4, <2>1, MatchAgrees DEF error, first
  <2>5. table[r][n].op \in Reductions BY <1>8, <2>1, <2>4
  <2>6. first.shape = table[r][n].shape
    BY <1>4, <2>1, <2>5, MatchAgrees DEF error, first
  <2> QED BY <2>3, <2>6
<1>9. c.type = "ERROR" <=> Mismatch(n, Active, Absent)
  BY <1>1, <1>6 DEF Absent, error
<1>10. Fits(c) BY <1>1, <1>6, <1>7, <1>8, <1>9 DEF Fits
<1> QED BY <1>10 DEF c

\* A response from the cache fits the requests that all ranks have.
LEMMA EntryFits ==
    ASSUME NEW e \in Entries, Stands(e), OneOperation => RightType(e),
           \A r \in Rank : TableOK(r) /\ JoinsOK(r) /\ e.name \in Outstanding(r)
    PROVE  Fits(CachedResponse(e)) /\ Active = Rank
<1> DEFINE c == CachedResponse(e)
           n == e.name
<1>1. n \in Names /\ e.type \in Reductions BY DEF Entries, Entry, Names
<1>2. c.type = e.type /\ TensorOf(c) = n BY DEF CachedResponse, TensorOf
<1>3. Active = Rank
  <2>1. \A r \in Rank : ~joined[r] BY <1>1, JoinIsNoName DEF JoinsOK
  <2> QED BY <2>1 DEF Active
<1> HIDE DEF c
<1>4. ASSUME NEW r \in Rank
      PROVE  /\ table[r][n].dtype = e.dtype /\ table[r][n].shape = e.shape
             /\ OneOperation => table[r][n].op = e.type
  <2>1. table[r][n] \in Requests /\ table[r][n].name = n
    BY <1>1, JoinIsNoName DEF TableOK
  <2> QED BY <2>1 DEF Stands, RightType
<1>5. c.type # "BROADCAST" /\ c.type # "ALLGATHER" /\ c.type # "ERROR"
  BY <1>1, <1>2 DEF Reductions
<1>6. \A q, r \in Rank : Alike(q, r, n, c.type)
  BY <1>2, <1>4, <1>5 DEF Alike
<1>7. OneOperation => ~Mismatch(n, Rank, Absent)
  <2> SUFFICES ASSUME OneOperation PROVE ~Mismatch(n, Rank, Absent)
    OBVIOUS
  <2> DEFINE requests == {table[r][n] : r \in Rank}
             ops == {q.op : q \in requests}
  <2>1. \A q \in requests : q.op = e.type /\ q.dtype = e.dtype /\ q.shape = e.shape
    BY <1>4
  <2>2. ops \subseteq {e.type} BY <2>1
  <2>3. ops # {"ALLGATHER"} /\ ops # {"BROADCAST"} BY <1>2, <1>5, <2>2
  <2>4. /\ \A x, y \in requests : x.dtype = y.dtype
        /\ \A x, y \in requests : x.op = y.op
        /\ \A x, y \in requests : x.shape = y.shape
    BY <2>1
  <2>5. \A joins : Mismatch(n, Rank, joins) =>
           \/ ~\A x, y \in requests : x.dtype = y.dtype
           \/ ~\A x, y \in requests : x.op = y.op
           \/ ~\A x, y \in requests : x.shape = y.shape
           \/ ops = {"ALLGATHER"} \/ ops = {"BROADCAST"}
    BY DEF Mismatch
  <2> HIDE DEF requests, ops
  <2> QED BY <2>3, <2>4, <2>5
<1>8. Fits(c) BY <1>2, <1>3, <1>5, <1>6, <1>7 DEF Fits
<1> QED BY <1>3, <1>8 DEF c

\* So do the responses of the list they are merged in.
LEMMA ListFits ==
    ASSUME NEW responses, OneEach(responses), NEW list, Merged(responses, list),
           \A i \in DOMAIN responses : Fits(responses[i])
    PROVE  FitsAll(list)
<1> SUFFICES ASSUME NEW k \in DOMAIN list
             PROVE  /\ IsInjective(list[k].names)
                    /\ Agreed(list[k], Active)
                    /\ Active # Rank => SizesFit(list[k], Active)
                    /\ OneOperation => \A n \in NamesIn(list[k]) :
                          (list[k].type = "ERROR" <=> Mismatch(n, Active, Absent))
  BY DEF FitsAll
<1>1. Agreed(list[k], Active)
  <2> SUFFICES ASSUME NEW n \in NamesIn(list[k])
               PROVE  /\ \A r \in Active : n \in Outstanding(r)
                      /\ list[k].type \in CollectiveTypes =>
                            \A q, r \in Active : Alike(q, r, n, list[k].type)
    BY DEF Agreed
  <2>1. PICK i \in DOMAIN responses : TensorOf(responses[i]) = n /\ responses[i].type = list[k].type
    BY DEF Merged
  <2> QED BY <2>1 DEF Fits
<1>2. ASSUME Active # Rank, list[k].type \in Reductions
      PROVE  /\ Head(list[k].names) \in NamesIn(list[k])
             /\ \A r \in Active :
                   list[k].sizes[1] = NumElements(table[r][Head(list[k].names)].shape)
  <2>1. PICK i \in DOMAIN responses : /\ TensorOf(responses[i]) = Head(list[k].names)
                                      /\ responses[i].type = list[k].type
                                      /\ responses[i].sizes = list[k].sizes
    BY <1>2 DEF Merged
  <2>2. \A r \in Active :
           responses[i].sizes[1] = NumElements(table[r][TensorOf(responses[i])].shape)
    BY <1>2, <2>1 DEF Fits
  <2>3. list[k].names # <<>> /\ list[k] \in Response BY DEF Merged
  <2>4. list[k].names \in Seq(Names \cup {J}) BY <2>3 DEF Response, J
  <2>5. Head(list[k].names) \in NamesIn(list[k])
    BY <2>3, <2>4, TailElements DEF NamesIn, ToSet
  <2> QED BY <2>1, <2>2, <2>5
<1>3. ASSUME OneOperation, NEW n \in NamesIn(list[k])
      PROVE  list[k].type = "ERROR" <=> Mismatch(n, Active, Absent)
  <2>1. PICK i \in DOMAIN responses : TensorOf(responses[i]) = n /\ responses[i].type = list[k].type
    BY DEF Merged
  <2> QED BY <1>3, <2>1 DEF Fits
<1>4. Active # Rank => SizesFit(list[k], Active) BY <1>2 DEF SizesFit
<1>5. IsInjective(list[k].names) BY DEF Merged
<1> QED BY <1>1, <1>3, <1>4, <1>5

\* All ranks take over a list of responses that fit.
LEMMA FreshMatches ==
    ASSUME NEW list,
           FitsAll(list), table' = table, joined' = joined,
           \A r \in Rank : todo'[r] = list /\ phase'[r] = "perform"
    PROVE  Matched'
<1> SUFFICES ASSUME NEW r \in Rank, NEW response \in ToSet(list)
             PROVE  /\ Agreed(response, Contributors(response))'
                    /\ (Contributors(response) # Holders(response))' =>
                          SizesFit(response, Contributors(response))'
  BY DEF Matched
<1>1. Holders(response)' = Rank /\ Contributors(response)' = Active
  BY DEF Holders, Contributors, Active
<1>2. PICK k \in DOMAIN list : response = list[k] BY DEF ToSet
<1>3. Agreed(response, Active) /\ (Active # Rank => SizesFit(response, Active))
  BY <1>2 DEF FitsAll
<1>4. Agreed(response, Contributors(response))'
  BY <1>1, <1>3 DEF Agreed, Alike, Outstanding
<1>5. (Contributors(response) # Holders(response))' => SizesFit(response, Contributors(response))'
  BY <1>1, <1>3 DEF SizesFit
<1> QED BY <1>4, <1>5

\* Ranks that go on with fewer responses and the same requests.
LEMMA StaysMatched ==
    ASSUME Inv, Inv', Matched,
           \A r \in Rank : phase'[r] = "perform" =>
              /\ phase[r] = "perform" /\ ToSet(todo'[r]) \subseteq ToSet(todo[r])
              /\ joined'[r] = joined[r] \/ ToSet(todo'[r]) = {}
              /\ \A n \in Outstanding(r) : n \in Outstanding(r)' => table'[r][n] = table[r][n]
    PROVE  Matched'
<1> SUFFICES ASSUME NEW p \in Rank, NEW response \in ToSet(todo'[p])
             PROVE  /\ Agreed(response, Contributors(response))'
                    /\ (Contributors(response) # Holders(response))' =>
                          SizesFit(response, Contributors(response))'
  BY DEF Matched
<1> DEFINE S == Contributors(response)'
<1>1. phase'[p] = "perform" /\ response \in ToSet(todo[p])
  <2>1. PhasesOK' /\ phase'[p] \in Phases BY DEF Inv, Typed
  <2>2. todo'[p] # <<>>
    <3>1. DOMAIN <<>> = {} OBVIOUS
    <3> QED BY <3>1 DEF ToSet
  <2>3. phase'[p] = "perform" BY <2>1, <2>2 DEF PhasesOK
  <2> QED BY <2>3
<1>2. Agreed(response, Contributors(response))
      /\ (Contributors(response) # Holders(response) => SizesFit(response, Contributors(response)))
  BY <1>1 DEF Matched
<1>3. ASSUME NEW r \in Holders(response)'
      PROVE  /\ r \in Holders(response) /\ joined'[r] = joined[r] /\ r \in Rank
             /\ ~joined[r] => \A n \in NamesIn(response) :
                   n \in Outstanding(r)' /\ table'[r][n] = table[r][n]
  <2>1. r \in Rank /\ phase'[r] = "perform" /\ response \in ToSet(todo'[r]) BY DEF Holders
  <2>2. r \in Holders(response) /\ joined'[r] = joined[r] BY <2>1 DEF Holders
  <2>3. Located(r)' /\ Located(r) BY <2>1 DEF Inv
  <2>4. NamesIn(response) \subseteq InList(todo[r]) BY <2>2 DEF InList, Holders, ToSet
  <2>5. NamesIn(response) \subseteq InList(todo[r])' BY <2>1 DEF InList, ToSet
  <2>6. ~joined[r] => NamesIn(response) \subseteq Outstanding(r)
    BY <2>3, <2>4 DEF Located
  <2>7. ~joined[r] => NamesIn(response) \subseteq Outstanding(r)'
    BY <2>2, <2>3, <2>5 DEF Located
  <2> QED BY <2>1, <2>2, <2>6, <2>7
<1>4. \A r \in S : /\ r \in Contributors(response)
                   /\ \A n \in NamesIn(response) :
                         n \in Outstanding(r)' /\ table'[r][n] = table[r][n]
  BY <1>3 DEF Contributors
<1>5. S # Holders(response)' => Contributors(response) # Holders(response)
  BY <1>3 DEF Contributors
<1>6. ASSUME NEW n \in NamesIn(response), response.type \in CollectiveTypes,
             NEW q \in S, NEW r \in S
      PROVE  Alike(q, r, n, response.type)'
  <2>1. Alike(q, r, n, response.type) BY <1>2, <1>4, <1>6 DEF Agreed
  <2> QED BY <1>4, <2>1 DEF Alike
<1>7. Agreed(response, Contributors(response))'
  <2>1. \A n \in NamesIn(response) : \A r \in S : n \in Outstanding(r)' BY <1>4
  <2> HIDE DEF S
  <2> QED BY <1>6, <2>1 DEF Agreed, S
<1>8. ASSUME S # Holders(response)', response.type \in Reductions
      PROVE  /\ Head(response.names) \in NamesIn(response)
             /\ \A r \in S : response.sizes[1] = NumElements(table'[r][Head(response.names)].shape)
  <2>1. /\ Head(response.names) \in NamesIn(response)
        /\ \A r \in S : response.sizes[1] = NumElements(table[r][Head(response.names)].shape)
    BY <1>2, <1>4, <1>5, <1>8 DEF SizesFit
  <2> QED BY <1>4, <2>1
<1>9. (Contributors(response) # Holders(response))' => SizesFit(response, Contributors(response))'
  BY <1>8 DEF SizesFit
<1> QED BY <1>7, <1>9

\* The response to join() concerns nobody else.
LEMMA JoinFits ==
    ASSUME Active = {}
    PROVE  Fits(JoinResponse)
<1>1. JoinResponse.type = "JOIN" BY DEF JoinResponse
<1>2. ~Mismatch(TensorOf(JoinResponse), {}, Absent)
  <2> DEFINE requests == {table[r][TensorOf(JoinResponse)] : r \in {}}
             ops == {q.op : q \in requests}
  <2>1. requests = {} /\ ops = {} OBVIOUS
  <2>2. Mismatch(TensorOf(JoinResponse), {}, Absent) => ops # {} \/ requests # {}
    BY DEF Mismatch
  <2> QED BY <2>1, <2>2
<1>3. JoinResponse.type \notin CollectiveTypes /\ JoinResponse.type \notin Reductions
  BY <1>1 DEF CollectiveTypes, Reductions
<1> QED BY <1>1, <1>2, <1>3 DEF Fits

\* What all ranks perform after a negotiated cycle fits their requests.
LEMMA NegotiatedFits ==
    ASSUME Inv, TypesStand, \A r \in Rank : phase[r] = "ready",
           NEW late \in SetToSeqs(ReadyAfterJoins), NEW ready, ready = ReadyInOrder \o late,
           NEW list, list = Fused(0, Negotiated(ready))
    PROVE  FitsAll(list)
<1> USE InvParts
<1> DEFINE responses == Negotiated(ready)
<1>1. /\ OneEach(responses)
      /\ Active = {} => responses = <<JoinResponse>>
      /\ Active # {} => \A i \in DOMAIN responses :
            \/ \E k \in DOMAIN cachedHits : responses[i] = cachedHits[k]
            \/ \E n \in ToSet(ready) : responses[i] = Answer(n)
  <2>1. AreNegotiated(responses, ready) BY WhatIsNegotiated
  <2> HIDE DEF responses
  <2> QED BY <2>1 DEF AreNegotiated
<1> HIDE DEF responses
<1>2. Merged(responses, list) BY <1>1, FusedIsMerged DEF responses
<1>3. ASSUME NEW i \in DOMAIN responses PROVE Fits(responses[i])
  <2>1. CASE Active = {}
    <3>1. DOMAIN <<JoinResponse>> = {1} /\ <<JoinResponse>>[1] = JoinResponse OBVIOUS
    <3>2. responses[i] = JoinResponse BY <1>1, <2>1, <3>1
    <3> QED BY <2>1, <3>2, JoinFits
  <2>2. ASSUME NEW k \in DOMAIN cachedHits, responses[i] = cachedHits[k] PROVE Fits(responses[i])
    <3>1. PICK e \in ToSet(cache[0]) :
                 /\ e \in Entries /\ cachedHits[k] = CachedResponse(e) /\ Stands(e)
                 /\ TensorOf(cachedHits[k]) = e.name
      BY HitsAre
    <3>2. e.name \in InList(cachedHits) BY <3>1, HitsAre DEF Tensors
    <3>3. \A r \in Rank : TableOK(r) /\ JoinsOK(r) /\ e.name \in Outstanding(r)
      BY <3>2 DEF Located
    <3>4. OneOperation => RightType(e) BY <3>1, Coordinator0 DEF TypesStand
    <3> QED BY <2>2, <3>1, <3>3, <3>4, EntryFits
  <2>3. ASSUME NEW n \in ToSet(ready), responses[i] = Answer(n), Active # {} PROVE Fits(responses[i])
    <3>1. n \in Names /\ Requesters(n) = Active BY WhatIsReady
    <3> QED BY <2>3, <3>1, AnswerFits
  <2> QED BY <1>1, <2>1, <2>2, <2>3
<1> QED BY <1>1, <1>2, <1>3, ListFits

\* So does what they perform after a cycle on the fast path.
LEMMA FastFits ==
    ASSUME Inv, TypesStand, \A r \in Rank : phase[r] = "sync",
           NEW list, list = Fused(0, FromCache(0))
    PROVE  FitsAll(list)
<1> USE InvParts
<1> DEFINE answers == FromCache(0)
<1>1. /\ OneEach(answers)
      /\ \A i \in DOMAIN answers : \E b \in CacheHits(0) :
            answers[i] = CachedResponse(cache[0][b])
  BY CacheAnswers
<1>2. Merged(answers, list) BY <1>1, FusedIsMerged
<1>3. ASSUME NEW i \in DOMAIN answers PROVE Fits(answers[i])
  <2>1. PICK b \in CacheHits(0) : answers[i] = CachedResponse(cache[0][b]) BY <1>1
  <2>2. PICK e : e = cache[0][b] OBVIOUS
  <2>3. /\ b \in DOMAIN cache[0] /\ \A r \in Rank : e.name \in M(r)
        /\ Stands(e)
    BY <2>2, HitsAreCommon
  <2>4. GoodCache(cache[0]) BY Coordinator0
  <2>5. e \in Entries BY <2>2, <2>3, <2>4, CacheBits
  <2>6. e \in ToSet(cache[0]) BY <2>2, <2>3 DEF ToSet
  <2>7. \A r \in Rank : TableOK(r) /\ JoinsOK(r) /\ e.name \in Outstanding(r)
    BY <2>3 DEF Located
  <2>8. OneOperation => RightType(e) BY <2>6, Coordinator0 DEF TypesStand
  <2> QED BY <2>1, <2>2, <2>3, <2>5, <2>7, <2>8, EntryFits
<1> HIDE DEF answers
<1> QED BY <1>1, <1>2, <1>3, ListFits

\* The coordinator decides.
LEMMA CoordinateMatches ==
    ASSUME Inv, TypesStand, Coordinate
    PROVE  Matched' /\ TypesStand'
<1> USE InvParts
<1>1. \A r \in Rank : phase[r] = "ready" BY DEF Coordinate
<1>2. table' = table /\ joined' = joined BY DEF Coordinate, appVars
<1>3. PICK late \in SetToSeqs(ReadyAfterJoins) :
         LET ready == ReadyInOrder \o late
             list == Fused(0, Negotiated(ready))
         IN  /\ todo'  = [r \in Rank |-> list]
             /\ cache' = [r \in Rank |->
                    IF Capacity > 0 THEN put(cache[r], EntriesOf(r, list))
                    ELSE cache[r]]
             /\ phase' = [r \in Rank |-> IF Capacity > 0 /\ PutThrows(r, list) THEN "dead" ELSE "perform"]
  BY DEF Coordinate
<1>4. PICK ready : ready = ReadyInOrder \o late OBVIOUS
<1>5. PICK list : list = Fused(0, Negotiated(ready)) OBVIOUS
<1>6. /\ list \in Seq(Response)
      /\ Active = {} => list = <<JoinResponse>>
      /\ Cacheable(list)
  <2> HIDE DEF Fused, Negotiated, ReadyInOrder, ReadyAfterJoins, JoinResponse, InList, Once, Cacheable
  <2>1. late \in SetToSeqs(ReadyAfterJoins) /\ ready = ReadyInOrder \o late BY <1>4
  <2> QED BY <1>1, <1>5, <2>1, ListIs, Zenon
<1>7. \A r \in Rank :
         /\ EntriesOf(r, list) \in Seq(Entries) /\ ~PutThrows(r, list)
         /\ \A e \in ToSet(EntriesOf(r, list)) : ComesFrom(e, list)
  <2> TAKE r \in Rank
  <2> HIDE DEF ComesFrom, Cacheable
  <2> QED BY <1>6, EntriesAgree, Zenon
<1>8. \A r \in Rank : todo'[r] = list /\ phase'[r] = "perform"
  BY <1>3, <1>4, <1>5, <1>7
<1>9. FitsAll(list)
  <2>1. late \in SetToSeqs(ReadyAfterJoins) /\ ready = ReadyInOrder \o late BY <1>4
  <2> QED BY <1>1, <1>5, <2>1, NegotiatedFits
<1>10. Matched' BY <1>2, <1>8, <1>9, FreshMatches
<1>11. ASSUME OneOperation, NEW e, ComesFrom(e, list) PROVE RightType(e)
  <2>1. PICK k \in DOMAIN list :
          e.name \in NamesIn(list[k]) /\ e.type = list[k].type /\ list[k].type \in Reductions
    BY <1>11 DEF ComesFrom
  <2>2. Active # {}
    <3> SUFFICES ASSUME Active = {} PROVE FALSE
      OBVIOUS
    <3>1. DOMAIN <<JoinResponse>> = {1} /\ <<JoinResponse>>[1] = JoinResponse OBVIOUS
    <3>2. list = <<JoinResponse>> BY <1>6
    <3>3. list[k] = JoinResponse BY <3>1, <3>2
    <3>4. list[k].type = "JOIN" BY <3>3 DEF JoinResponse
    <3> QED BY <2>1, <3>4 DEF Reductions
  <2>3. PICK r : r \in Active BY <2>2
  <2>4. list[k].type \in CollectiveTypes BY <2>1 DEF CollectiveTypes
  <2>5. e.name \in Outstanding(r) /\ Alike(r, r, e.name, e.type)
    BY <1>9, <2>1, <2>3, <2>4 DEF FitsAll, Agreed
  <2>6. table[r][e.name].op = e.type BY <1>11, <2>5 DEF Alike
  <2>7. e.name # J
    <3>1. e.name = J => table[r][e.name] = JoinRequest /\ r \in Rank
      BY <2>3, <2>5 DEF TableOK, Active
    <3> QED BY <2>1, <2>6, <3>1 DEF JoinRequest, Reductions
  <2>8. table[r][e.name] \in Requests /\ table[r][e.name].name = e.name
    BY <2>3, <2>5, <2>7 DEF TableOK, Active
  <2> QED BY <1>11, <2>6, <2>8 DEF OneOperation, RightType
<1>12. TypesStand'
  <2> SUFFICES ASSUME OneOperation, NEW r \in Rank, NEW e \in ToSet(cache'[r])
               PROVE  RightType(e)
    BY DEF TypesStand
  <2>1. CASE Capacity > 0
    <3>1. cache'[r] = put(cache[r], EntriesOf(r, list)) BY <1>3, <1>4, <1>5, <2>1
    <3>2. GoodCache(cache[r]) /\ EntriesOf(r, list) \in Seq(Entries) BY <1>7
    <3>3. ToSet(put(cache[r], EntriesOf(r, list))) \subseteq ToSet(cache[r]) \cup ToSet(EntriesOf(r, list))
      BY <2>1, <3>2, PutKeeps
    <3>4. CASE e \in ToSet(cache[r]) BY <3>4 DEF TypesStand
    <3>5. CASE e \in ToSet(EntriesOf(r, list)) BY <1>7, <1>11, <3>5
    <3> QED BY <3>1, <3>3, <3>4, <3>5
  <2>2. CASE ~(Capacity > 0) BY <1>3, <2>2 DEF TypesStand
  <2> QED BY <2>1, <2>2
<1> QED BY <1>10, <1>12

\* The ranks exchange the cache bits.
LEMMA SyncMatches ==
    ASSUME Inv, Inv', Matched, TypesStand, Sync
    PROVE  Matched' /\ TypesStand'
<1> USE InvParts
<1>1. /\ \A r \in Rank : phase[r] = "sync"
      /\ table' = table /\ joined' = joined
      /\ phase' = [r \in Rank |-> IF UncachedInQueue(r) THEN "ready" ELSE "perform"]
      /\ cache' = [r \in Rank |-> IF UncachedInQueue(r)
                                THEN EraseBits(cache[r], InvalidBits(r))
                                ELSE MoveToBack(cache[r], CacheHits(r))]
      /\ todo' = [r \in Rank |-> IF UncachedInQueue(r) THEN <<>>
                                ELSE Fused(r, FromCache(r))]
  BY DEF Sync
<1>2. \A r \in Rank : UncachedInQueue(r) = UncachedInQueue(0) /\ CacheHits(r) = CacheHits(0)
  BY Coordinator0, SameBits
<1>3. Matched'
  <2>1. CASE UncachedInQueue(0)
    <3>1. \A r \in Rank : phase'[r] = "ready" BY <1>1, <1>2, <2>1
    <3> QED BY <3>1, StaysMatched
  <2>2. CASE ~UncachedInQueue(0)
    <3>1. PICK list : list = Fused(0, FromCache(0)) OBVIOUS
    <3>2. \A r \in Rank : Fused(r, FromCache(r)) = list BY <1>1, <3>1, FastList
    <3>3. \A r \in Rank : todo'[r] = list /\ phase'[r] = "perform"
      BY <1>1, <1>2, <2>2, <3>2
    <3>4. FitsAll(list)
      BY <1>1, <3>1, FastFits
    <3> QED BY <1>1, <3>3, <3>4, FreshMatches
  <2> QED BY <2>1, <2>2
<1>4. ASSUME NEW r \in Rank PROVE ToSet(cache'[r]) \subseteq ToSet(cache[r])
  <2>1. GoodCache(cache[r]) OBVIOUS
  <2>2. CASE UncachedInQueue(r)
    <3>1. \A k \in DOMAIN EraseBits(cache[r], InvalidBits(r)) :
             \E i \in DOMAIN cache[r] : EraseBits(cache[r], InvalidBits(r))[k] = cache[r][i]
      BY <2>1, EraseKeeps
    <3> QED BY <1>1, <2>2, <3>1 DEF ToSet
  <2>3. CASE ~UncachedInQueue(r)
    <3>1. CacheHits(r) \in SUBSET (DOMAIN cache[r])
      <4>1. \A b \in CacheHits(0) : b \in DOMAIN cache[0] BY <1>1, HitsAreCommon
      <4>2. cache[r] = cache[0] BY Coordinator0 DEF CacheConsistent
      <4> QED BY <1>2, <4>1, <4>2
    <3>2. ToSet(MoveToBack(cache[r], CacheHits(r))) = ToSet(cache[r])
      BY <2>1, <3>1, MoveKeeps
    <3> QED BY <1>1, <2>3, <3>2
  <2> QED BY <2>2, <2>3
<1>5. TypesStand' BY <1>4 DEF TypesStand
<1> QED BY <1>3, <1>5

\* Other steps leave the caches, and do not add to what is performed.
Fewer ==
    /\ cache' = cache
    /\ \A r \in Rank : phase'[r] = "perform" =>
          /\ phase[r] = "perform" /\ ToSet(todo'[r]) \subseteq ToSet(todo[r])
          /\ joined'[r] = joined[r] \/ ToSet(todo'[r]) = {}
          /\ \A n \in Outstanding(r) : n \in Outstanding(r)' => table'[r][n] = table[r][n]

\* Such a step keeps the match.
LEMMA FewerMatches ==
    ASSUME Inv, Inv', Matched, TypesStand, Fewer
    PROVE  Matched' /\ TypesStand'
<1>1. Matched' BY StaysMatched DEF Fewer
<1>2. TypesStand' BY DEF Fewer, TypesStand
<1> QED BY <1>1, <1>2

\* A program submits a request.
LEMMA AddIsFewer ==
    ASSUME Inv, NEW r \in Rank, NEW q, Add(r, q), q.name \notin Outstanding(r)
    PROVE  Fewer
<1>1. table \in [Rank -> Tables] BY DEF Inv, Typed
<1>2. /\ cache' = cache /\ phase' = phase /\ todo' = todo /\ joined' = joined
      /\ table' = [table EXCEPT ![r] =
                    [n \in Outstanding(r) \cup {q.name} |-> IF n = q.name THEN q ELSE table[r][n]]]
  BY DEF Add, Outstanding
<1>3. \A p \in Rank : p # r => table'[p] = table[p] BY <1>1, <1>2
<1>4. table'[r] = [n \in Outstanding(r) \cup {q.name} |-> IF n = q.name THEN q ELSE table[r][n]]
  BY <1>1, <1>2
<1>5. \A p \in Rank : \A n \in Outstanding(p) : table'[p][n] = table[p][n]
  BY <1>3, <1>4
<1> QED BY <1>2, <1>5 DEF Fewer

\* A rank performs a response.
LEMMA PerformIsFewer ==
    ASSUME Inv, NEW r \in Rank, Perform(r)
    PROVE  Fewer
<1> DEFINE response == Head(todo[r])
           S == Served(r, response)
<1>1. /\ todo[r] # <<>> /\ todo[r] \in Seq(Response)
      /\ \/ response.type = "JOIN" /\ Tail(todo[r]) = <<>>
         \/ response.type # "JOIN"
      /\ table' = [table EXCEPT ![r] = [n \in Outstanding(r) \ S |-> table[r][n]]]
      /\ joined' = [joined EXCEPT ![r] = joined[r] /\ response.type # "JOIN"]
      /\ todo' = [todo EXCEPT ![r] = Tail(todo[r])]
      /\ phase' = phase /\ cache' = cache
  BY PerformCases
<1> HIDE DEF response, S
<1>2. /\ table \in [Rank -> Tables] /\ joined \in [Rank -> BOOLEAN]
      /\ todo \in [Rank -> Seq(Response)]
  BY DEF Inv, Typed
<1>3. ToSet(Tail(todo[r])) \subseteq ToSet(todo[r])
  BY <1>1, TailElements DEF ToSet
<1>4. \A p \in Rank : p # r => todo'[p] = todo[p] /\ table'[p] = table[p] /\ joined'[p] = joined[p]
  BY <1>1, <1>2
<1>5. /\ todo'[r] = Tail(todo[r])
      /\ table'[r] = [n \in Outstanding(r) \ S |-> table[r][n]]
      /\ joined'[r] = (joined[r] /\ response.type # "JOIN")
  BY <1>1, <1>2
<1>6. joined'[r] = joined[r] \/ ToSet(todo'[r]) = {}
  <2>1. joined[r] \in BOOLEAN BY <1>2
  <2>2. CASE response.type = "JOIN"
    <3>1. DOMAIN <<>> = {} OBVIOUS
    <3> QED BY <1>1, <1>5, <2>2, <3>1 DEF ToSet
  <2>3. CASE response.type # "JOIN" BY <1>5, <2>1, <2>3
  <2> QED BY <2>2, <2>3
<1>7. \A n \in Outstanding(r)' : table'[r][n] = table[r][n]
  BY <1>5 DEF Outstanding
<1> QED BY <1>1, <1>3, <1>4, <1>5, <1>6, <1>7 DEF Fewer

\* No step breaks the match.
LEMMA NextMatches ==
    ASSUME Inv, Inv', Matched, TypesStand, [Next]_vars
    PROVE  Matched' /\ TypesStand'
<1>1. ASSUME NEW r \in Rank, NEW q \in Requests, Enqueue(r, q) PROVE Matched' /\ TypesStand'
  BY <1>1, AddIsFewer, FewerMatches DEF Enqueue
<1>2. ASSUME NEW r \in Rank, EnqueueJoin(r) PROVE Matched' /\ TypesStand'
  BY <1>2, AddIsFewer, FewerMatches DEF EnqueueJoin
<1>3. ASSUME NEW r \in Rank, HorovodShutdown(r) PROVE Matched' /\ TypesStand'
  <2>1. Fewer BY <1>3 DEF HorovodShutdown, Fewer
  <2> QED BY <2>1, FewerMatches
<1>4. ASSUME NEW r \in Rank, Pop(r) PROVE Matched' /\ TypesStand'
  <2>1. phase \in [Rank -> Phases] /\ joined \in [Rank -> BOOLEAN] BY DEF Inv, Typed
  <2>2. /\ cache' = cache /\ todo' = todo /\ table' = table
        /\ joined' = [joined EXCEPT ![r] = @ \/ J \in ToSet(queue[r])]
        /\ \E x \in {"dead", "sync", "ready"} : phase' = [phase EXCEPT ![r] = x]
    BY <1>4 DEF Pop, J
  <2>3. \A p \in Rank : phase'[p] = "perform" => p # r /\ phase[p] = "perform" /\ joined'[p] = joined[p]
    BY <2>1, <2>2
  <2>4. Fewer BY <2>2, <2>3 DEF Fewer
  <2> QED BY <2>4, FewerMatches
<1>5. ASSUME Sync PROVE Matched' /\ TypesStand'
  BY <1>5, SyncMatches
<1>6. ASSUME Coordinate PROVE Matched' /\ TypesStand'
  BY <1>6, CoordinateMatches
<1>7. ASSUME CoordinatorDies PROVE Matched' /\ TypesStand'
  <2>1. /\ cache' = cache /\ \A r \in Rank : phase[r] = "ready"
        /\ phase' = [phase EXCEPT ![0] = "dead"]
    BY <1>7 DEF CoordinatorDies
  <2>2. \A r \in Rank : phase'[r] # "perform" BY <2>1
  <2>3. Fewer BY <2>1, <2>2 DEF Fewer
  <2> QED BY <2>3, FewerMatches
<1>8. ASSUME NEW r \in Rank, Perform(r) PROVE Matched' /\ TypesStand'
  BY <1>8, PerformIsFewer, FewerMatches
<1>9. ASSUME NEW r \in Rank, Stop(r) PROVE Matched' /\ TypesStand'
  <2>1. phase \in [Rank -> Phases] /\ table \in [Rank -> Tables] BY DEF Inv, Typed
  <2>2. /\ cache' = cache /\ todo' = todo /\ joined' = joined
        /\ phase' = [phase EXCEPT ![r] = "stopped"]
        /\ table' = [table EXCEPT ![r] = EmptyTable]
    BY <1>9 DEF Stop
  <2>3. \A p \in Rank : phase'[p] = "perform" => p # r /\ phase[p] = "perform" /\ table'[p] = table[p]
    BY <2>1, <2>2
  <2>4. Fewer BY <2>2, <2>3 DEF Fewer
  <2> QED BY <2>4, FewerMatches
<1>10. ASSUME UNCHANGED vars PROVE Matched' /\ TypesStand'
  <2>1. Fewer BY <1>10 DEF vars, Fewer
  <2> QED BY <2>1, FewerMatches
<1> QED BY <1>1, <1>2, <1>3, <1>4, <1>5, <1>6, <1>7, <1>8, <1>9, <1>10 DEF Next, Terminated

\* What is performed fits the tensors in every behaviour.
LEMMA MatchHolds == Spec => [](Inv /\ Matched /\ TypesStand)
<1>1. Init => Inv /\ Matched /\ TypesStand
  <2> SUFFICES ASSUME Init PROVE Matched /\ TypesStand
    BY InitInv
  <2>1. DOMAIN <<>> = {} OBVIOUS
  <2>2. \A r \in Rank : todo[r] = <<>> /\ cache[r] = <<>> BY DEF Init
  <2>3. \A r \in Rank : ToSet(todo[r]) = {} /\ ToSet(cache[r]) = {} BY <2>1, <2>2 DEF ToSet
  <2> QED BY <2>3 DEF Matched, TypesStand
<1>2. Inv /\ Matched /\ TypesStand /\ [Next]_vars => (Inv /\ Matched /\ TypesStand)'
  BY NextInv, NextMatches
<1> QED BY <1>1, <1>2, PTL DEF Spec

\* Two ranks about to perform the same reduction, gather or broadcast asked for
\* this operation on matching tensors.
THEOREM OperationsMatch ==
    ASSUME OneOperation
    PROVE  Spec => []SameOperation
<1>1. Inv /\ Matched => SameOperation
  <2> SUFFICES ASSUME Inv, Matched, NEW q \in Rank, NEW r \in Rank,
                      phase[q] = "perform", phase[r] = "perform", todo[q] = todo[r],
                      ~joined[q], ~joined[r], NEW i \in DOMAIN todo[r],
                      todo[r][i].type \in CollectiveTypes, NEW n \in NamesIn(todo[r][i])
               PROVE  /\ table[r][n].op = todo[r][i].type
                      /\ table[q][n].op = todo[r][i].type
                      /\ table[q][n].dtype = table[r][n].dtype
                      /\ todo[r][i].type # "ALLGATHER" => table[q][n].shape = table[r][n].shape
                      /\ todo[r][i].type = "BROADCAST" => table[q][n].root = table[r][n].root
    BY DEF SameOperation, NamesIn
  <2>1. PICK response : response = todo[r][i] OBVIOUS
  <2>2. response \in ToSet(todo[r]) /\ response \in ToSet(todo[q]) BY <2>1 DEF ToSet
  <2>3. q \in Contributors(response) /\ r \in Contributors(response)
    BY <2>2 DEF Contributors, Holders
  <2>4. Agreed(response, Contributors(response)) BY <2>2 DEF Matched
  <2>5. Alike(q, r, n, response.type) /\ Alike(r, q, n, response.type)
    BY <2>1, <2>3, <2>4 DEF Agreed
  <2> QED BY <2>1, <2>5 DEF Alike
<1> QED BY <1>1, MatchHolds, PTL

\* Two ranks contribute equally many elements to every tensor of a reduction,
\* fused or not, unless one has joined and the tensor was fused behind one of
\* another length.
THEOREM ZerosFit == Spec => []BuffersMatch
<1>1. Inv /\ Matched => BuffersMatch
  <2> SUFFICES ASSUME Inv, Matched, NEW q \in Rank, NEW r \in Rank,
                      phase[q] = "perform", phase[r] = "perform", ~joined[r],
                      todo[q] = todo[r], todo[r] # <<>>,
                      Head(todo[r]).type \in Reductions,
                      NEW k \in DOMAIN Head(todo[r]).names
               PROVE  \/ BufferLength(q, Head(todo[q]), k) = BufferLength(r, Head(todo[r]), k)
                      \/ /\ joined[q]
                         /\ BufferLength(r, Head(todo[r]), k) # BufferLength(r, Head(todo[r]), 1)
    BY DEF BuffersMatch
  <2>1. PICK response : response = Head(todo[r]) /\ response = Head(todo[q]) OBVIOUS
  <2>2. todo[r] \in Seq(Response) BY DEF Inv, Typed
  <2>3. response \in ToSet(todo[r]) /\ response \in ToSet(todo[q]) /\ response \in Response
    BY <2>1, <2>2, TailElements DEF ToSet
  <2>4. /\ Agreed(response, Contributors(response))
        /\ Contributors(response) # Holders(response) => SizesFit(response, Contributors(response))
    BY <2>3 DEF Matched
  <2>5. q \in Holders(response) /\ r \in Holders(response) BY <2>3 DEF Holders
  <2>6. r \in Contributors(response) BY <2>5 DEF Contributors
  <2>7. CASE joined[q]
    <3>1. q \notin Contributors(response) BY <2>7 DEF Contributors
    <3>2. response.sizes[1] = NumElements(table[r][Head(response.names)].shape)
      BY <2>1, <2>4, <2>5, <2>6, <3>1 DEF SizesFit
    <3>3. Head(response.names) = response.names[1]
      OBVIOUS
    <3>4. BufferLength(q, response, k) = BufferLength(r, response, 1)
      BY <2>7, <3>2, <3>3 DEF BufferLength
    <3> QED BY <2>1, <2>7, <3>4
  <2>8. CASE ~joined[q]
    <3>1. q \in Contributors(response) BY <2>5, <2>8 DEF Contributors
    <3>2. response.names[k] \in NamesIn(response) BY <2>1 DEF NamesIn, ToSet
    <3>3. response.type \in CollectiveTypes /\ response.type # "ALLGATHER"
      BY <2>1 DEF CollectiveTypes, Reductions
    <3>4. Alike(q, r, response.names[k], response.type)
      BY <2>4, <2>6, <3>1, <3>2, <3>3 DEF Agreed
    <3>5. table[q][response.names[k]].shape = table[r][response.names[k]].shape
      BY <3>3, <3>4 DEF Alike
    <3> QED BY <2>1, <2>8, <3>5 DEF BufferLength
  <2> QED BY <2>7, <2>8
<1> QED BY <1>1, MatchHolds, PTL

-----------------------------------------------------------------------------
(* What the programs see, without join(): one agreement after another.     *)

\* What the programs see of the responses of a rank.
Seen(list) == [i \in DOMAIN list |-> [type |-> list[i].type, names |-> list[i].names]]

\* The threads decide to close the job only for a reason.
Reasons == \A r \in Rank : coord[r].shut => StallShutdown \/ \E p \in Rank : shutDown[p]

\* Both modules mean the same by these operators.
LEMMA SameOperators ==
    /\ \A s : Promise!ToSet(s) = ToSet(s)
    /\ \A s : Promise!IsInjective(s) = IsInjective(s)
    /\ \A s : Promise!FlattenSeq(s) = FlattenSeq(s)
<1>1. \A s : Promise!ToSet(s) = ToSet(s) BY DEF ToSet, Promise!ToSet
<1>2. \A s : Promise!IsInjective(s) = IsInjective(s) BY DEF IsInjective, Promise!IsInjective
<1>3. \A s : Promise!FlattenSeq(s) = FlattenSeq(s) BY DEF FlattenSeq, Promise!FlattenSeq
<1> QED BY <1>1, <1>2, <1>3

\* Nobody has joined.
LEMMA NobodyJoined ==
    ASSUME Inv, JoinRanks = {}, \A r \in Rank : phase[r] # "stopped"
    PROVE  Active = Rank /\ Absent = 0
<1>1. ASSUME NEW r \in Rank PROVE ~joined[r]
  BY InvParts DEF JoinsOK, TableOK
<1>2. Active = Rank BY <1>1 DEF Active
<1> QED BY <1>2, RankSize, SizeAssumption DEF Absent

\* The coordinator finds the mismatches that Collective speaks of.
LEMMA MismatchIs ==
    ASSUME Inv, NEW n, \A r \in Rank : n \in Outstanding(r), JoinRanks = {}
    PROVE  Mismatch(n, Rank, 0) <=> ~Promise!Match(Promise!For(n))
<1> DEFINE requests == {table[r][n] : r \in Rank}
           ops == {x.op : x \in requests}
<1>1. \A x \in requests : x.op \in {"ALLREDUCE", "ADASUM", "ALLGATHER", "BROADCAST"}
  <2> SUFFICES ASSUME NEW r \in Rank
               PROVE  table[r][n].op \in {"ALLREDUCE", "ADASUM", "ALLGATHER", "BROADCAST"}
    OBVIOUS
  <2>1. table[r][n] \in Requests BY InvParts DEF TableOK
  <2> QED BY <2>1, RequestsAssumption
<1>2. Promise!For(n) = requests BY DEF Promise!For
<1>3. table[0][n] \in requests BY Coordinator0
<1>4. Mismatch(n, Rank, 0) <=>
        \/ ~\A x, y \in requests : x.dtype = y.dtype
        \/ ~\A x, y \in requests : x.op = y.op
        \/ ops \subseteq Reductions \cup {"BROADCAST"} /\ ~\A x, y \in requests : x.shape = y.shape
        \/ /\ ops = {"ALLGATHER"}
           /\ \/ \E x \in requests : x.shape = <<>>
              \/ ~\A x, y \in requests : Tail(x.shape) = Tail(y.shape)
        \/ ops = {"BROADCAST"} /\ ~\A x, y \in requests : x.root = y.root
  BY DEF Mismatch
<1>5. Promise!Match(requests) <=>
        \A p, q \in requests :
            /\ p.op = q.op
            /\ p.dtype = q.dtype
            /\ p.op \in {"ALLREDUCE", "ADASUM", "BROADCAST"} => p.shape = q.shape
            /\ p.op = "BROADCAST" => p.root = q.root
            /\ p.op = "ALLGATHER" =>
                  /\ p.shape # <<>> /\ q.shape # <<>>
                  /\ Tail(p.shape) = Tail(q.shape)
  BY DEF Promise!Match
<1>6. PICK o : o = table[0][n].op OBVIOUS
<1>7. o \in {"ALLREDUCE", "ADASUM", "ALLGATHER", "BROADCAST"} BY <1>1, <1>3, <1>6
<1>8. (\A x, y \in requests : x.op = y.op) => ops = {o} /\ \A x \in requests : x.op = o
  BY <1>3, <1>6
<1>9. CASE ~\A x, y \in requests : x.op = y.op
  <2> HIDE DEF requests, ops
  <2> QED BY <1>2, <1>4, <1>5, <1>9
<1>10. CASE \A x, y \in requests : x.op = y.op
  <2>1. ops = {o} /\ \A x \in requests : x.op = o BY <1>8, <1>10
  <2> HIDE DEF requests, ops
  <2>2. CASE o = "ALLGATHER"
    BY <1>2, <1>4, <1>5, <1>10, <2>1, <2>2 DEF Reductions
  <2>3. CASE o = "BROADCAST"
    BY <1>2, <1>4, <1>5, <1>10, <2>1, <2>3 DEF Reductions
  <2>4. CASE o \in {"ALLREDUCE", "ADASUM"}
    BY <1>2, <1>4, <1>5, <1>10, <2>1, <2>4 DEF Reductions
  <2> QED BY <1>7, <2>2, <2>3, <2>4
<1> QED BY <1>9, <1>10

\* The response list that all ranks take over is one that Collective allows.
Allowed(list) ==
    /\ Promise!IsInjective(Promise!NamesOf(Seen(list)))
    /\ \A i \in DOMAIN Seen(list) : Promise!Justified(Seen(list)[i])

\* No tensor is twice in a list.
LEMMA SeenNames ==
    ASSUME NEW list \in Seq(Response), Once(list),
           \A k \in DOMAIN list : IsInjective(list[k].names)
    PROVE  Promise!IsInjective(Promise!NamesOf(Seen(list)))
<1> DEFINE parts == [i \in DOMAIN list |-> list[i].names]
<1>1. parts \in Seq(Seq(Names \cup {J}))
  <2>1. DOMAIN list = 1 .. Len(list) /\ Len(list) \in Nat OBVIOUS
  <2>2. \A i \in DOMAIN list : list[i].names \in Seq(Names \cup {J})
    <3>1. \A i \in DOMAIN list : list[i] \in Response OBVIOUS
    <3> QED BY <3>1 DEF Response, J
  <2>3. parts \in [1 .. Len(list) -> Seq(Names \cup {J})] BY <2>1, <2>2
  <2> HIDE DEF parts
  <2> QED BY <2>1, <2>3
<1>2. DOMAIN parts = DOMAIN list /\ \A i \in DOMAIN list : parts[i] = list[i].names
  OBVIOUS
<1>3. [i \in DOMAIN Seen(list) |-> Seen(list)[i].names] = parts
  BY DEF Seen
<1>4. Promise!NamesOf(Seen(list)) = FlattenSeq(parts)
  BY <1>3, SameOperators DEF Promise!NamesOf
<1> HIDE DEF parts
<1>5. \A a \in DOMAIN parts : IsInjective(parts[a]) BY <1>2
<1>6. \A a, b \in DOMAIN parts : ToSet(parts[a]) \cap ToSet(parts[b]) # {} => a = b
  BY <1>2 DEF Once, NamesIn
<1>7. IsInjective(FlattenSeq(parts)) BY <1>1, <1>5, <1>6, FlattenInjective
<1> QED BY <1>4, <1>7, SameOperators

\* A list that fits the requests is one that Collective allows.
LEMMA ListAllowed ==
    ASSUME Inv, OneOperation, JoinRanks = {}, \A r \in Rank : phase[r] # "stopped",
           NEW list \in Seq(Response), Once(list), FitsAll(list),
           \A k \in DOMAIN list : list[k].type # "JOIN"
    PROVE  Allowed(list)
<1>1. Active = Rank /\ Absent = 0 BY NobodyJoined
<1>2. Promise!IsInjective(Promise!NamesOf(Seen(list))) BY SeenNames DEF FitsAll
<1>3. DOMAIN Seen(list) = DOMAIN list
      /\ \A i \in DOMAIN list : Seen(list)[i].type = list[i].type /\ Seen(list)[i].names = list[i].names
  BY DEF Seen
<1>4. ASSUME NEW i \in DOMAIN list, NEW n \in NamesIn(list[i])
      PROVE  /\ \A r \in Rank : n \in DOMAIN table[r]
             /\ list[i].type = "ERROR" <=> ~Promise!Match(Promise!For(n))
             /\ list[i].type # "ERROR" => \A q \in Promise!For(n) : q.op = list[i].type
  <2>1. \A r \in Rank : n \in Outstanding(r) BY <1>1, <1>4 DEF FitsAll, Agreed
  <2>2. list[i].type = "ERROR" <=> Mismatch(n, Rank, 0) BY <1>1, <1>4 DEF FitsAll
  <2>3. Mismatch(n, Rank, 0) <=> ~Promise!Match(Promise!For(n)) BY <2>1, MismatchIs
  <2>4. list[i].type # "ERROR" => \A r \in Rank : table[r][n].op = list[i].type
    <3> SUFFICES ASSUME list[i].type # "ERROR", NEW r \in Rank
                 PROVE  table[r][n].op = list[i].type
      OBVIOUS
    <3>0. list[i] \in Response OBVIOUS
    <3>1. list[i].type \in CollectiveTypes
      BY <3>0 DEF Response, CollectiveTypes, Reductions
    <3>2. Alike(r, r, n, list[i].type) BY <1>1, <1>4, <3>1 DEF FitsAll, Agreed
    <3> QED BY <3>2 DEF Alike
  <2>5. list[i].type # "ERROR" => \A q \in Promise!For(n) : q.op = list[i].type
    BY <2>4 DEF Promise!For
  <2> QED BY <2>1, <2>2, <2>3, <2>5 DEF Outstanding
<1>5. ASSUME NEW i \in DOMAIN list PROVE Promise!Justified(Seen(list)[i])
  <2>1. \A n \in NamesIn(list[i]) :
          /\ \A r \in Rank : n \in DOMAIN table[r]
          /\ list[i].type = "ERROR" <=> ~Promise!Match(Promise!For(n))
          /\ list[i].type # "ERROR" => \A q \in Promise!For(n) : q.op = list[i].type
    BY <1>4
  <2> QED BY <1>3, <2>1, SameOperators DEF Promise!Justified, NamesIn
<1> QED BY <1>2, <1>3, <1>5 DEF Allowed

\* A step that the programs do not see.
LEMMA Stutter ==
    ASSUME table' = table, todo' = todo, shutDown' = shutDown, stop' = stop,
           \A r \in Rank : phase'[r] = "stopped" <=> phase[r] = "stopped"
    PROVE  UNCHANGED Promise!vars
BY DEF Promise!vars

\* All ranks take over a list.
LEMMA AgreeStep ==
    ASSUME Inv, InStep, Reasons, \A r \in Rank : phase[r] \in {"sync", "ready"},
           NEW list, Allowed(list),
           \A r \in Rank : stop'[r] => ShouldShutDown(r),
           stop' \in [Rank -> BOOLEAN],
           table' = table, shutDown' = shutDown, todo' = [r \in Rank |-> list],
           \A r \in Rank : phase'[r] # "stopped"
    PROVE  Promise!Agree
<1> DEFINE seen == [r \in Rank |-> [i \in DOMAIN todo[r] |->
                    [type |-> todo[r][i].type, names |-> todo[r][i].names]]]
<1>1. \A r \in Rank : seen[r] = <<>>
  <2> TAKE r \in Rank
  <2>1. todo[r] = <<>> BY InvParts DEF PhasesOK
  <2>2. DOMAIN todo[r] = {} BY <2>1
  <2> QED BY <2>2
<1>2. ~\E r \in Rank : stop[r] BY DEF InStep, StopTogether
<1>3. \A r \in Rank : seen'[r] = Seen(list) BY DEF Seen
<1>4. (\E r \in Rank : stop[r])' => StallShutdown \/ {r \in Rank : shutDown[r]} # {}
  BY DEF ShouldShutDown, Reasons
<1>5. {r \in Rank : phase[r] = "stopped"}' = {r \in Rank : phase[r] = "stopped"}
  OBVIOUS
<1>6. (\E r \in Rank : stop[r])' \in BOOLEAN OBVIOUS
<1> HIDE DEF seen
<1> QED BY <1>1, <1>2, <1>3, <1>4, <1>5, <1>6 DEF Promise!Agree, seen, Allowed

\* The slow path is an agreement.
LEMMA CoordinateAgrees ==
    ASSUME Inv, InStep, InStep', Reasons, TypesStand, OneOperation, JoinRanks = {}, Coordinate
    PROVE  Promise!Agree
<1>1. \A r \in Rank : phase[r] = "ready" BY DEF Coordinate
<1>2. PICK late \in SetToSeqs(ReadyAfterJoins) :
         LET ready == ReadyInOrder \o late
             list == Fused(0, Negotiated(ready))
         IN  todo' = [r \in Rank |-> list]
  BY DEF Coordinate
<1>3. PICK ready : ready = ReadyInOrder \o late OBVIOUS
<1>4. PICK list : list = Fused(0, Negotiated(ready)) OBVIOUS
<1>5. todo' = [r \in Rank |-> list] BY <1>2, <1>3, <1>4
<1>6. Active = Rank /\ Active # {} BY <1>1, NobodyJoined, Coordinator0
<1>7. /\ list \in Seq(Response) /\ Once(list)
      /\ Active # {} => \A k \in DOMAIN list : list[k].type # "JOIN"
  <2>1. late \in SetToSeqs(ReadyAfterJoins) /\ ready = ReadyInOrder \o late BY <1>3
  <2> HIDE DEF Fused, Negotiated, ReadyInOrder, ReadyAfterJoins, JoinResponse, InList, Once, Cacheable
  <2> QED BY <1>1, <1>4, <2>1, ListIs, Zenon
<1>8. FitsAll(list)
  <2>1. late \in SetToSeqs(ReadyAfterJoins) /\ ready = ReadyInOrder \o late BY <1>3
  <2> QED BY <1>1, <1>4, <2>1, NegotiatedFits
<1>9. Allowed(list) BY <1>1, <1>6, <1>7, <1>8, ListAllowed
<1>10. /\ table' = table /\ shutDown' = shutDown
       /\ stop' = [r \in Rank |-> ShouldShutDown(r)]
       /\ \A r \in Rank : phase'[r] # "stopped"
  BY DEF Coordinate, appVars
<1>11. \A r \in Rank : stop'[r] => ShouldShutDown(r) BY <1>10
<1> QED BY <1>1, <1>5, <1>9, <1>10, <1>11, AgreeStep DEF InStep

\* So is the fast path; on the way to the slow path nothing is to be seen.
LEMMA SyncAgrees ==
    ASSUME Inv, InStep, InStep', Reasons, TypesStand, OneOperation, JoinRanks = {}, Sync
    PROVE  Promise!Agree \/ UNCHANGED Promise!vars
<1>1. /\ \A r \in Rank : phase[r] = "sync"
      /\ table' = table /\ shutDown' = shutDown
      /\ phase' = [r \in Rank |-> IF UncachedInQueue(r) THEN "ready" ELSE "perform"]
      /\ todo' = [r \in Rank |-> IF UncachedInQueue(r) THEN <<>>
                                ELSE Fused(r, FromCache(r))]
      /\ stop' = [r \in Rank |-> /\ ~UncachedInQueue(r)
                                /\ CacheHits(r) = {}
                                /\ ShouldShutDown(r)]
  BY DEF Sync
<1>2. \A r \in Rank : UncachedInQueue(r) = UncachedInQueue(0)
  BY Coordinator0, SameBits
<1>3. \A r \in Rank : phase'[r] # "stopped" BY <1>1
<1>4. CASE UncachedInQueue(0)
  <2>1. todo' = todo
    <3>1. \A r \in Rank : todo'[r] = <<>> /\ todo[r] = <<>>
      BY <1>1, <1>2, <1>4, InvParts DEF PhasesOK
    <3>2. todo \in [Rank -> Seq(Response)] /\ todo' = [r \in Rank |-> todo'[r]]
      BY <1>1, InvParts DEF Typed
    <3> QED BY <3>1, <3>2
  <2>2. stop' = stop
    <3>1. \A r \in Rank : ~stop'[r] /\ ~stop[r]
      BY <1>1, <1>2, <1>4 DEF InStep, StopTogether
    <3>2. stop \in [Rank -> BOOLEAN] /\ stop' \in [Rank -> BOOLEAN] BY DEF InStep
    <3> QED BY <3>1, <3>2
  <2> QED BY <1>1, <1>3, <2>1, <2>2, Stutter
<1>5. CASE ~UncachedInQueue(0)
  <2>1. PICK list : list = Fused(0, FromCache(0)) OBVIOUS
  <2>2. /\ \A r \in Rank : Fused(r, FromCache(r)) = list
        /\ list \in Seq(Response) /\ Once(list)
        /\ \A k \in DOMAIN list : list[k].type # "JOIN"
    BY <1>1, <2>1, FastList
  <2>3. todo' = [r \in Rank |-> list] BY <1>1, <1>2, <1>5, <2>2
  <2>4. FitsAll(list) BY <1>1, <2>1, FastFits
  <2>5. Allowed(list) BY <1>1, <2>2, <2>4, ListAllowed
  <2>6. \A r \in Rank : stop'[r] => ShouldShutDown(r) BY <1>1
  <2>7. Promise!Agree BY <1>1, <1>3, <2>3, <2>5, <2>6, AgreeStep DEF InStep
  <2> QED BY <2>7
<1> QED BY <1>4, <1>5

\* What is left of a list after its first response, as the programs see it.
LEMMA SeenTail ==
    ASSUME NEW list \in Seq(Response), list # <<>>
    PROVE  Seen(Tail(list)) = Tail(Seen(list))
<1> DEFINE S == {[type |-> x.type, names |-> x.names] : x \in Response}
           s == Seen(list)
           n == Len(list)
<1>1. /\ Tail(list) \in Seq(Response) /\ DOMAIN Tail(list) = 1 .. n - 1
      /\ n \in Nat \ {0} /\ DOMAIN list = 1 .. n
      /\ \A k \in 1 .. n - 1 : k + 1 \in 1 .. n /\ Tail(list)[k] = list[k + 1]
  BY TailElements
<1>2. \A i \in 1 .. n : list[i] \in Response BY <1>1
<1>3. s = [i \in 1 .. n |-> [type |-> list[i].type, names |-> list[i].names]]
  BY <1>1 DEF Seen
<1>4. s \in [1 .. n -> S] BY <1>2, <1>3
<1>5. s \in Seq(S) /\ Len(s) = n
  <2> HIDE DEF s, S
  <2>1. s \in Seq(S) BY <1>1, <1>4
  <2>2. DOMAIN s = 1 .. n BY <1>4
  <2> QED BY <1>1, <2>1, <2>2
<1> HIDE DEF s, S
<1>6. s # <<>> BY <1>1, <1>5
<1>7. /\ Tail(s) \in Seq(S) /\ Len(Tail(s)) = n - 1
      /\ \A k \in 1 .. n - 1 : Tail(s)[k] = s[k + 1]
  BY <1>5, <1>6, TailElements
<1>8. Tail(s) = [k \in 1 .. n - 1 |-> Tail(s)[k]] BY <1>7, SequenceIsFunction
<1>9. Seen(Tail(list)) = [k \in 1 .. n - 1 |->
            [type |-> Tail(list)[k].type, names |-> Tail(list)[k].names]]
  BY <1>1 DEF Seen
<1>10. \A k \in 1 .. n - 1 :
          Tail(s)[k] = [type |-> Tail(list)[k].type, names |-> Tail(list)[k].names]
  BY <1>1, <1>3, <1>7
<1>11. Seen(Tail(list)) = Tail(s) BY <1>8, <1>9, <1>10
<1> QED BY <1>11 DEF s

\* To perform a response is to deliver it.
LEMMA PerformDelivers ==
    ASSUME Inv, JoinRanks = {}, NEW r \in Rank, Perform(r)
    PROVE  Promise!Deliver(r)
<1> DEFINE seen == [p \in Rank |-> [i \in DOMAIN todo[p] |->
                    [type |-> todo[p][i].type, names |-> todo[p][i].names]]]
           response == Head(todo[r])
<1>1. \A p \in Rank : ~joined[p] \/ phase[p] = "stopped"
  BY InvParts DEF JoinsOK, TableOK
<1>2. /\ phase[r] = "perform" /\ todo[r] # <<>> /\ todo[r] \in Seq(Response)
      /\ joined[r] \/ Served(r, response) = NamesIn(response)
      /\ table' = [table EXCEPT ![r] =
              [n \in Outstanding(r) \ Served(r, response) |-> table[r][n]]]
      /\ todo' = [todo EXCEPT ![r] = Tail(todo[r])]
      /\ phase' = phase /\ shutDown' = shutDown /\ stop' = stop
  BY PerformCases
<1>3. Served(r, response) = NamesIn(response) BY <1>1, <1>2
<1>4. todo \in [Rank -> Seq(Response)] BY InvParts DEF Typed
<1>5. /\ 1 \in DOMAIN todo[r] /\ response = todo[r][1]
  BY <1>2, TailElements
<1>6. seen[r] # <<>> /\ Head(seen[r]) = [type |-> response.type, names |-> response.names]
  <2>1. seen[r] = [i \in DOMAIN todo[r] |-> [type |-> todo[r][i].type, names |-> todo[r][i].names]]
    OBVIOUS
  <2>2. DOMAIN seen[r] = DOMAIN todo[r] /\ DOMAIN <<>> = {} BY <2>1
  <2>3. seen[r][1] = [type |-> response.type, names |-> response.names] BY <1>5, <2>1
  <2> HIDE DEF seen
  <2> QED BY <1>5, <2>2, <2>3
<1>7. seen' = [seen EXCEPT ![r] = Tail(seen[r])]
  <2>1. \A p \in Rank : p # r => seen'[p] = seen[p] BY <1>2, <1>4
  <2>2. seen'[r] = Tail(seen[r])
    <3>1. todo'[r] = Tail(todo[r]) BY <1>2, <1>4
    <3>2. seen[r] = Seen(todo[r]) /\ seen'[r] = Seen(todo'[r]) BY DEF Seen
    <3> HIDE DEF seen
    <3> QED BY <1>2, <3>1, <3>2, SeenTail
  <2>3. seen' = [p \in Rank |-> seen'[p]] OBVIOUS
  <2>4. [seen EXCEPT ![r] = Tail(seen[r])] = [p \in Rank |-> IF p = r THEN Tail(seen[r]) ELSE seen[p]]
    OBVIOUS
  <2> HIDE DEF seen
  <2> QED BY <2>1, <2>2, <2>3, <2>4
<1>8. table' = [table EXCEPT ![r] = [n \in DOMAIN table[r] \ NamesIn(response) |-> table[r][n]]]
  BY <1>2, <1>3 DEF Outstanding
<1> HIDE DEF seen, response
<1>9. Promise!ToSet(Head(seen[r]).names) = NamesIn(response)
  BY <1>6, SameOperators DEF NamesIn
<1>10. /\ {p \in Rank : shutDown[p]}' = {p \in Rank : shutDown[p]}
       /\ (\E p \in Rank : stop[p])' = \E p \in Rank : stop[p]
       /\ {p \in Rank : phase[p] = "stopped"}' = {p \in Rank : phase[p] = "stopped"}
  BY <1>2
<1> QED BY <1>6, <1>7, <1>8, <1>9, <1>10 DEF Promise!Deliver, seen

\* No step gives up the reason for which a thread wants to close the job.
LEMMA NextReasons ==
    ASSUME Inv, Inv', Reasons, [Next]_vars
    PROVE  Reasons'
<1>0. /\ shutDown \in [Rank -> BOOLEAN]
      /\ coord \in [Rank -> [hits : SUBSET Nat, invalid : SUBSET Nat,
                              uncached : BOOLEAN, shut : BOOLEAN]]
  BY InvParts DEF Typed
<1>1. ASSUME coord' = coord, \A r \in Rank : shutDown[r] => shutDown'[r] PROVE Reasons'
  BY <1>1 DEF Reasons
<1>2. ASSUME NEW r \in Rank, NEW q, Add(r, q) PROVE Reasons'
  BY <1>1, <1>2 DEF Add
<1>3. ASSUME NEW r \in Rank, HorovodShutdown(r) PROVE Reasons'
  BY <1>0, <1>1, <1>3 DEF HorovodShutdown
<1>4. ASSUME NEW r \in Rank, Pop(r) PROVE Reasons'
  <2>1. PICK stall \in StallResults(r) :
            coord' = [coord EXCEPT ![r] =
                    [hits     |-> Bits(r, InState(r, "HIT")),
                     invalid  |-> BitsToErase(r, stall.overdue),
                     uncached |-> ToSet(queue[r]) # InState(r, "HIT") \/ stall.overdue # {},
                     shut     |-> shutDown[r] \/ stall.shut]]
    BY <1>4 DEF Pop
  <2>2. shutDown' = shutDown BY <1>4 DEF Pop
  <2>3. coord'[r].shut = (shutDown[r] \/ stall.shut) /\ \A p \in Rank : p # r => coord'[p] = coord[p]
    BY <1>0, <2>1
  <2>4. stall.shut \in (IF /\ StallCheck /\ StallShutdown /\ r = 0
                        /\ \E n \in Names : messageTable[n] # {}
                     THEN BOOLEAN ELSE {FALSE})
    BY <2>1 DEF StallResults
  <2>5. stall.shut => StallShutdown BY <2>4
  <2> QED BY <2>2, <2>3, <2>5 DEF Reasons
<1>5. ASSUME Sync PROVE Reasons'
  <2>1. shutDown' = shutDown
        /\ coord' = [r \in Rank |-> IF UncachedInQueue(r) THEN coord[r] ELSE NoCoord]
    BY <1>5 DEF Sync
  <2>2. \A r \in Rank : coord'[r].shut => coord[r].shut BY <2>1 DEF NoCoord
  <2> QED BY <2>1, <2>2 DEF Reasons
<1>6. ASSUME Coordinate PROVE Reasons'
  <2>1. coord' = [r \in Rank |-> NoCoord] BY <1>6 DEF Coordinate
  <2>2. \A r \in Rank : ~coord'[r].shut BY <2>1 DEF NoCoord
  <2> QED BY <2>2 DEF Reasons
<1>7. ASSUME CoordinatorDies PROVE Reasons'
  BY <1>1, <1>7 DEF CoordinatorDies, appVars
<1>8. ASSUME NEW r \in Rank, Perform(r) PROVE Reasons'
  BY <1>1, <1>8 DEF Perform
<1>9. ASSUME NEW r \in Rank, Stop(r) PROVE Reasons'
  BY <1>0, <1>1, <1>9 DEF Stop
<1>10. ASSUME UNCHANGED vars PROVE Reasons'
  BY <1>1, <1>10 DEF vars
<1> QED BY <1>2, <1>3, <1>4, <1>5, <1>6, <1>7, <1>8, <1>9, <1>10
        DEF Next, Enqueue, EnqueueJoin, Terminated

\* Every step is a step of Collective, or is not to be seen.
LEMMA StepRefines ==
    ASSUME Inv, Inv', InStep, InStep', Reasons, TypesStand, OneOperation, JoinRanks = {}, [Next]_vars
    PROVE  [Promise!Next]_(Promise!vars)
<1>0. /\ shutDown \in [Rank -> BOOLEAN] /\ phase \in [Rank -> Phases]
      /\ table \in [Rank -> Tables]
  BY InvParts DEF Typed
<1>1. ASSUME NEW r \in Rank, NEW q \in Requests, Enqueue(r, q) PROVE Promise!Submit(r, q)
  <2>1. /\ ~shutDown[r] /\ q.name \notin DOMAIN table[r]
        /\ table' = [table EXCEPT ![r] =
              [n \in DOMAIN @ \cup {q.name} |-> IF n = q.name THEN q ELSE @[n]]]
        /\ UNCHANGED <<todo, shutDown, stop, phase>>
    BY <1>1 DEF Enqueue, Add, Outstanding
  <2> QED BY <2>1 DEF Promise!Submit
<1>2. ASSUME NEW r \in Rank, EnqueueJoin(r) PROVE FALSE
  BY <1>2 DEF EnqueueJoin
<1>3. ASSUME NEW r \in Rank, HorovodShutdown(r) PROVE Promise!Ask(r)
  <2>1. /\ shutDown' = [shutDown EXCEPT ![r] = TRUE]
        /\ UNCHANGED <<table, todo, stop, phase>>
    BY <1>3 DEF HorovodShutdown
  <2>2. {p \in Rank : shutDown[p]}' = {p \in Rank : shutDown[p]} \cup {r}
    BY <1>0, <2>1
  <2> QED BY <2>1, <2>2 DEF Promise!Ask
<1>4. ASSUME NEW r \in Rank, Pop(r) PROVE UNCHANGED Promise!vars
  <2>1. /\ table' = table /\ todo' = todo /\ shutDown' = shutDown /\ stop' = stop
        /\ phase[r] = "perform"
        /\ \E x \in {"dead", "sync", "ready"} : phase' = [phase EXCEPT ![r] = x]
    BY <1>4 DEF Pop, Idle
  <2>2. \A p \in Rank : phase'[p] = "stopped" <=> phase[p] = "stopped" BY <1>0, <2>1
  <2> QED BY <2>1, <2>2, Stutter
<1>5. ASSUME Sync PROVE Promise!Agree \/ UNCHANGED Promise!vars
  BY <1>5, SyncAgrees
<1>6. ASSUME Coordinate PROVE Promise!Agree
  BY <1>6, CoordinateAgrees
<1>7. ASSUME CoordinatorDies PROVE UNCHANGED Promise!vars
  <2>1. /\ table' = table /\ todo' = todo /\ shutDown' = shutDown /\ stop' = stop
        /\ \A p \in Rank : phase[p] = "ready"
        /\ phase' = [phase EXCEPT ![0] = "dead"]
    BY <1>7 DEF CoordinatorDies, appVars
  <2>2. \A p \in Rank : phase'[p] = "stopped" <=> phase[p] = "stopped" BY <1>0, <2>1
  <2> QED BY <2>1, <2>2, Stutter
<1>8. ASSUME NEW r \in Rank, Perform(r) PROVE Promise!Deliver(r)
  BY <1>8, PerformDelivers
<1>9. ASSUME NEW r \in Rank, Stop(r) PROVE Promise!Close(r)
  <2>1. /\ todo[r] = <<>> /\ stop[r]
        /\ phase' = [phase EXCEPT ![r] = "stopped"]
        /\ shutDown' = [shutDown EXCEPT ![r] = TRUE]
        /\ table' = [table EXCEPT ![r] = <<>>]
        /\ todo' = todo /\ stop' = stop
    BY <1>9 DEF Stop, Idle, EmptyTable
  <2>2. {p \in Rank : shutDown[p]}' = {p \in Rank : shutDown[p]} \cup {r}
    BY <1>0, <2>1
  <2>3. {p \in Rank : phase[p] = "stopped"}' = {p \in Rank : phase[p] = "stopped"} \cup {r}
    BY <1>0, <2>1
  <2>4. [i \in DOMAIN todo[r] |-> [type |-> todo[r][i].type, names |-> todo[r][i].names]] = <<>>
    BY <2>1
  <2> QED BY <2>1, <2>2, <2>3, <2>4 DEF Promise!Close
<1>10. ASSUME UNCHANGED vars PROVE UNCHANGED Promise!vars
  BY <1>10, Stutter DEF vars
<1> QED BY <1>1, <1>2, <1>3, <1>4, <1>5, <1>6, <1>7, <1>8, <1>9, <1>10
        DEF Next, Terminated, Promise!Next

\* Without join(), and if a name stands for one kind of operation, the cycles
\* with their cache, their fast path, their fusion and their stall inspector
\* are one agreement after another on the same list for every rank.
THEOREM KeepsThePromise ==
    ASSUME OneOperation, JoinRanks = {}
    PROVE  Spec => ImplementsCollective
<1>1. Init => Promise!Init BY DEF Init, Promise!Init, EmptyTable
<1>2. Init => Reasons BY DEF Init, Reasons, NoCoord
<1>3. Inv /\ Inv' /\ Reasons /\ [Next]_vars => Reasons' BY NextReasons
<1>4. Inv /\ Inv' /\ InStep /\ InStep' /\ Reasons /\ TypesStand /\ [Next]_vars
        => [Promise!Next]_(Promise!vars)
  BY StepRefines
<1> QED BY <1>1, <1>2, <1>3, <1>4, MatchHolds, InStepHolds, PTL
        DEF Spec, ImplementsCollective, Promise!Spec

=============================================================================

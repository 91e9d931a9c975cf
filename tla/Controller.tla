----------------------------- MODULE Controller -----------------------------
(***************************************************************************)
(* Horovod's background threads: how the ranks of a job agree, cycle after *)
(* cycle, on which tensors to reduce, gather or broadcast, in which order. *)
(*                                                                         *)
(* Every rank runs RunLoopOnce: pop the message queue, agree on the cache  *)
(* bits with two bitwise allreduces, negotiate through rank 0 if any rank  *)
(* has an uncached request, then perform the agreed responses.  The        *)
(* collectives of the control plane (MPI or Gloo) are external and modelled*)
(* as joint steps of all ranks.  Rank 0 is the coordinator.                *)
(*                                                                         *)
(* All tensors are on the CPU, so the device vector of a response is       *)
(* determined by the set of ranks that requested it.                       *)
(***************************************************************************)
EXTENDS Integers, Sequences, FiniteSets, FiniteSetsExt, SequencesExt, Lists, Fusion

CONSTANTS
    Size,            \* number of ranks (size_)
    Requests,        \* requests a program may submit:
                     \*   [name, op, dtype, shape, root]
    Capacity,        \* capacity of the response cache; 0 turns it off
    Threshold,       \* fusion threshold in bytes
    StallCheck,      \* is the stall inspector on?
    StallShutdown,   \* does it shut the job down (HOROVOD_STALL_SHUTDOWN_TIME)?
    JoinRanks,       \* ranks whose program calls join()
    JoinDescending,  \* does a rank join only after all higher ranks have?
    ShutdownRanks,   \* ranks whose program calls shutdown()
    MaxSubmit        \* bound: submissions and joins of each rank

ASSUME SizeAssumption == Size \in Nat \ {0}
ASSUME CapacityAssumption == Capacity \in Nat
ASSUME MaxSubmitAssumption == MaxSubmit \in Nat

Rank == 0 .. Size - 1
Names == {q.name : q \in Requests}

JOIN_TENSOR_NAME == "join.noname"
JoinRequest == [name |-> JOIN_TENSOR_NAME, op |-> "JOIN", dtype |-> "none",
                shape |-> <<>>, root |-> 0]

\* The bindings prefix every name with its operation ("allreduce.x"), so no
\* tensor has the name that join() uses.
ASSUME RequestsAssumption ==
    \A q \in Requests :
        /\ q.name # JOIN_TENSOR_NAME
        /\ q.op \in {"ALLREDUCE", "ADASUM", "ALLGATHER", "BROADCAST"}
        /\ q.shape \in Seq(Nat)

VARIABLES
    \* what the application threads and the background thread share
    table,         \* tensor_table_: per rank, name -> outstanding request
    queue,         \* message_queue_: per rank, names in order
    shutDown,      \* horovod_global.shut_down
    left,          \* submissions a rank may still make (MaxSubmit)
    \* the background thread of each rank
    phase,         \* where it is in RunLoopOnce
    msgs,          \* message_queue_tmp
    coord,         \* CacheCoordinator: bits and flags to be synchronised
    cache,         \* response cache, least recently used entry first; the
                   \* cache bit of an entry is its position
    stalled,       \* StallInspector::cached_tensor_table
    joined,        \* state.joined
    todo,          \* responses of this cycle still to be performed
    stop,          \* response_list.shutdown()
    \* the coordinator
    cachedHits,    \* cached responses that head the response list
    messageTable,  \* message_table_: name -> ranks that requested it
    joinedSize,    \* state.joined_size
    fault          \* ghost: what went wrong, "none" in a healthy job

appVars   == <<table, queue, shutDown, left>>
coordVars == <<cachedHits, messageTable, joinedSize>>
vars == <<table, queue, shutDown, left, phase, msgs, coord, cache, stalled,
          joined, todo, stop, cachedHits, messageTable, joinedSize, fault>>

-----------------------------------------------------------------------------
(* Helpers.                                                                *)

EmptyTable == [n \in {} |-> JoinRequest]

RemoveNames(f, gone) == [n \in DOMAIN f \ gone |-> f[n]]

Outstanding(r) == DOMAIN table[r]

NumElements(shape) == ProductOf(shape)
ElementSize(dtype) == IF dtype = "f64" THEN 8 ELSE 4
RequestBytes(q)    == NumElements(q.shape) * ElementSize(q.dtype)

\* The response cache: an entry remembers type, dtype and shape of a name.
Entry(name, type, q) ==
    [name |-> name, type |-> type, dtype |-> q.dtype, shape |-> q.shape]

CachedNames(c) == {c[i].name : i \in DOMAIN c}

\* The cache bit of a name that is cached.
peek_cache_bit(c, name) == CHOOSE i \in DOMAIN c : c[i].name = name

\* Mutant of cached: a hit whatever the shape.
cached_AnyShape(c, q) == IF q.name \in CachedNames(c) THEN "HIT" ELSE "MISS"

\* Looks at device, data type and shape, not at the operation.
cached(c, q) ==
    IF q.name \notin CachedNames(c) THEN "MISS"
    ELSE LET e == c[peek_cache_bit(c, q.name)]
         IN  IF e.dtype = q.dtype /\ e.shape = q.shape THEN "HIT" ELSE "INVALID"

CachedResponse(e) ==
    [type |-> e.type, names |-> <<e.name>>, devices |-> Rank, sizes |-> <<>>]

\* Moves the entries at these bits, in this order, to the most recently used
\* end (get_response on the fast path, put_ of a cached name).
MoveToBack(c, bits) == At(c, DOMAIN c \ bits) \o At(c, bits)

\* erase_response for each of these bits.
EraseBits(c, bits) == At(c, DOMAIN c \ bits)

\* put_: a new entry replaces the least recently used one when the cache is
\* full.
put_(c, e) ==
    IF e.name \in CachedNames(c)
    THEN MoveToBack(c, {peek_cache_bit(c, e.name)})
    ELSE Append(IF Len(c) = Capacity THEN Tail(c) ELSE c, e)

\* put for the entries of a response list, one after another.
put(c, entries) ==
    LET after[i \in 0 .. Len(entries)] ==
            IF i = 0 THEN c ELSE put_(after[i - 1], entries[i])
    IN  after[Len(entries)]

\* The entries that a response list adds to the cache of rank r: the parts of
\* the reductions that every rank requested.
EntriesOf(r, list) ==
    LET Part(response) ==
            IF response.type \in Reductions /\ response.devices = Rank
            THEN [i \in DOMAIN response.names |->
                    Entry(response.names[i], response.type,
                          table[r][response.names[i]])]
            ELSE <<>>
    IN  FlattenSeq([i \in DOMAIN list |-> Part(list[i])])

\* put throws if the name is cached with other parameters.
PutThrows(r, list) ==
    \E e \in ToSet(EntriesOf(r, list)), k \in ToSet(cache[r]) :
        e.name = k.name /\ (e.dtype # k.dtype \/ e.shape # k.shape)

-----------------------------------------------------------------------------
(* Fusion, seen from the tensor table of rank r.                           *)

\* GetTensorEntry throws, or finds an entry without a tensor.
LookupFails(r, name) == name \notin DOMAIN table[r] \ {JOIN_TENSOR_NAME}

Item(r, response) ==
    LET q == table[r][Head(response.names)]
    IN  [response |-> response, dtype |-> q.dtype, size |-> RequestBytes(q),
         out |-> SumOf(response.sizes)
                     * NumElements(SubSeq(q.shape, 2, Len(q.shape)))
                     * ElementSize(q.dtype)]

\* Fusing looks up the tensor of each response behind a reduction.
FusionThrows(r, responses) ==
    \E i \in 2 .. Len(responses) :
        /\ responses[i - 1].type \in Reductions
        /\ LookupFails(r, Head(responses[i].names))

\* Nothing is fused with a tensor that the rank does not have.
Fused(r, responses) ==
    IF \E i \in DOMAIN responses : LookupFails(r, Head(responses[i].names))
    THEN responses
    ELSE FuseResponses([i \in DOMAIN responses |-> Item(r, responses[i])], Threshold)

-----------------------------------------------------------------------------
(* Negotiation at the coordinator.                                         *)

\* Mutant of Mismatch: root ranks are not compared.
Mismatch_AnyRoot(name, ranks, joins) ==
    LET requests == {table[r][name] : r \in ranks}
    IN  \/ Cardinality({<<q.op, q.dtype>> : q \in requests}) > 1
        \/ Cardinality({Tail(q.shape) : q \in requests}) > 1

\* The requests for `name` cannot be served by one collective operation.
Mismatch(name, ranks, joins) ==
    LET requests == {table[r][name] : r \in ranks}
        Agree(Field(_)) == \A p, q \in requests : Field(p) = Field(q)
        ops == {q.op : q \in requests}
    IN  \/ ~Agree(LAMBDA q : q.dtype)
        \/ ~Agree(LAMBDA q : q.op)
        \/ ops \subseteq Reductions \cup {"BROADCAST"} /\ ~Agree(LAMBDA q : q.shape)
        \/ /\ ops = {"ALLGATHER"}
           /\ \/ joins > 0
              \/ \E q \in requests : q.shape = <<>>
              \/ ~Agree(LAMBDA q : Tail(q.shape))
        \/ ops = {"BROADCAST"} /\ (joins > 0 \/ ~Agree(LAMBDA q : q.root))

\* Mutant of ConstructResponse: sizes for the joined ranks in bytes.
ConstructResponse_Bytes(name, ranks, joins) ==
    LET first == table[Min(ranks)][name]
        error == Mismatch(name, ranks, joins)
    IN  [type    |-> IF error THEN "ERROR" ELSE first.op,
         names   |-> <<name>>,
         devices |-> ranks,
         sizes   |-> IF ~error /\ joins > 0 THEN <<RequestBytes(first)>> ELSE <<>>]

\* The response to a name that is ready.
ConstructResponse(name, ranks, joins) ==
    LET first == table[Min(ranks)][name]
        error == Mismatch(name, ranks, joins)
        rows  == Ascending(ranks)
    IN  [type    |-> IF error THEN "ERROR" ELSE first.op,
         names   |-> <<name>>,
         devices |-> ranks,
         sizes   |-> IF error THEN <<>>
                     ELSE IF first.op = "ALLGATHER"
                     THEN [i \in DOMAIN rows |-> Head(table[rows[i]][name].shape)]
                     ELSE IF joins > 0 THEN <<NumElements(first.shape)>>
                     ELSE <<>>]

\* The vector of devices has one element per request but is indexed by rank.
DevicesOverflow(ranks) == \E r \in ranks : r >= Cardinality(ranks)

JoinResponse ==
    [type |-> "JOIN", names |-> <<JOIN_TENSOR_NAME>>, devices |-> {}, sizes |-> <<>>]

\* All messages of this cycle, those of rank 0 first, then by rank.
Incoming ==
    FlattenSeq([i \in 1 .. Size |->
        [k \in DOMAIN msgs[i - 1] |-> [rank |-> i - 1, name |-> msgs[i - 1][k]]]])

\* Mutant of JoinsAfter: joins of earlier cycles are forgotten.
JoinsAfter_ThisCycle(i) ==
    Cardinality({k \in 1 .. i : Incoming[k].name = JOIN_TENSOR_NAME})

\* joined_size after the first i messages.
JoinsAfter(i) ==
    joinedSize + Cardinality({k \in 1 .. i : Incoming[k].name = JOIN_TENSOR_NAME})

\* The ranks that requested `name` in the table after the first i messages.
RanksAfter(i, name) ==
    messageTable[name] \cup {Incoming[k].rank : k \in {j \in 1 .. i : Incoming[j].name = name}}

Joins == JoinsAfter(Len(Incoming))

Requesters(name) == RanksAfter(Len(Incoming), name)

\* Mutant of Completes: one request too few is enough.
Completes_Early(i) ==
    LET name == Incoming[i].name
    IN  /\ name # JOIN_TENSOR_NAME
        /\ Cardinality(RanksAfter(i, name)) = Size - 1 - JoinsAfter(i)

\* IncrementTensorCount: message i completes its tensor.
Completes(i) ==
    LET name == Incoming[i].name
    IN  /\ name # JOIN_TENSOR_NAME
        /\ Cardinality(RanksAfter(i, name)) = Size - JoinsAfter(i)

\* The names that become ready, in the order of the completing messages.
ReadyInOrder ==
    LET completing == At(Incoming, {i \in DOMAIN Incoming : Completes(i)})
    IN  [k \in DOMAIN completing |-> completing[k].name]

\* Names of earlier cycles that joins have made ready.
ReadyAfterJoins ==
    {n \in Names : /\ Joins > 0
                   /\ Requesters(n) # {}
                   /\ Cardinality(Requesters(n)) = Size - Joins
                   /\ n \notin ToSet(ReadyInOrder)}

\* The responses of a negotiated cycle before fusion.
Negotiated(ready) ==
    cachedHits
    \o [i \in DOMAIN ready |->
            ConstructResponse(ready[i], Requesters(ready[i]), Joins)]
    \o (IF Joins = Size THEN <<JoinResponse>> ELSE <<>>)

-----------------------------------------------------------------------------
(* Application threads.                                                    *)

\* A CacheCoordinator is local to one call of ComputeResponseList.
NoCoord == [hits |-> {}, invalid |-> {}, uncached |-> FALSE, shut |-> FALSE]

Idle(r) == phase[r] = "perform" /\ todo[r] = <<>>

Alive(r) == phase[r] \notin {"stopped", "dead"}

\* The program of rank r waits in join().
Joining(r) == JOIN_TENSOR_NAME \in Outstanding(r)

\* Rank r has submitted `name` and no response to it has been agreed on.
Awaiting(r, name) ==
    /\ name \in Outstanding(r)
    /\ \A i \in DOMAIN todo[r] : name \notin ToSet(todo[r][i].names)

Add(r, q) ==
    /\ table' = [table EXCEPT ![r] =
                    [n \in DOMAIN @ \cup {q.name} |-> IF n = q.name THEN q ELSE @[n]]]
    /\ queue' = [queue EXCEPT ![r] = Append(@, q.name)]
    /\ left'  = [left EXCEPT ![r] = @ - 1]
    /\ UNCHANGED <<shutDown, phase, msgs, coord, cache, stalled, joined, todo,
                   stop, coordVars, fault>>

\* EnqueueTensor*: refused after a shutdown and for a name that is outstanding.
Enqueue(r, q) ==
    /\ left[r] > 0
    /\ ~Joining(r)
    /\ ~shutDown[r]
    /\ q.name \notin Outstanding(r)
    /\ Add(r, q)

\* EnqueueJoin, by a program that has waited for its own operations.
EnqueueJoin(r) ==
    /\ left[r] > 0
    /\ r \in JoinRanks
    /\ ~shutDown[r]
    /\ Outstanding(r) = {}
    /\ JoinDescending =>
           \A q \in Rank : q > r => Awaiting(q, JOIN_TENSOR_NAME)
    /\ Add(r, JoinRequest)

\* horovod_shutdown up to the join of the background thread.
HorovodShutdown(r) ==
    /\ r \in ShutdownRanks
    /\ ~shutDown[r]
    /\ ~Joining(r)
    /\ shutDown' = [shutDown EXCEPT ![r] = TRUE]
    /\ UNCHANGED <<table, queue, left, phase, msgs, coord, cache, stalled,
                   joined, todo, stop, coordVars, fault>>

-----------------------------------------------------------------------------
(* The cycle of the background thread.                                     *)

\* Names among the queued messages with this cache state.
InState(r, state) ==
    {n \in ToSet(queue[r]) : Capacity > 0 /\ cached(cache[r], table[r][n]) = state}

Bits(r, names) == {peek_cache_bit(cache[r], n) : n \in names}

\* cached_tensor_table after the messages are popped: a hit is recorded when it
\* is first seen, a miss and an invalid entry are removed.
StalledAfterPop(r) ==
    IF ~StallCheck THEN stalled[r]
    ELSE (stalled[r] \ (IF Capacity > 0 THEN ToSet(queue[r]) \ InState(r, "HIT") ELSE {}))
            \cup InState(r, "HIT")

\* What the stall inspector may find: some of the tensors that were already
\* waiting in an earlier cycle are overdue; rank 0 finds that the job has
\* stalled for so long that it must shut down.
StallResults(r) ==
    [overdue : SUBSET (IF StallCheck /\ Capacity > 0
                       THEN stalled[r] \cap StalledAfterPop(r) ELSE {}),
     shut    : IF /\ StallCheck /\ StallShutdown /\ r = 0
                  /\ \E n \in Names : messageTable[n] # {}
               THEN BOOLEAN ELSE {FALSE}]

\* Mutant of BitsToErase: overdue tensors are only reported.
BitsToErase_NotOverdue(r, overdue) == Bits(r, InState(r, "INVALID"))

\* The bits that rank r asks all ranks to erase.
BitsToErase(r, overdue) ==
    Bits(r, InState(r, "INVALID") \cup (overdue \cap CachedNames(cache[r])))

\* ComputeResponseList up to the first collective operation.
Pop(r) ==
    /\ Idle(r) /\ ~stop[r]
    /\ \E stall \in StallResults(r) :
         LET hits == InState(r, "HIT")
             lost == stall.overdue \ CachedNames(cache[r])
         IN  /\ coord' = [coord EXCEPT ![r] =
                    [hits     |-> Bits(r, hits),
                     invalid  |-> BitsToErase(r, stall.overdue),
                     uncached |-> ToSet(queue[r]) # hits \/ stall.overdue # {},
                     shut     |-> shutDown[r] \/ stall.shut]]
             /\ phase' = [phase EXCEPT ![r] =
                    IF lost # {} THEN "dead"
                    ELSE IF Capacity > 0 THEN "sync" ELSE "ready"]
             /\ fault' = IF lost # {} THEN "stall" ELSE fault
    /\ stalled' = [stalled EXCEPT ![r] = StalledAfterPop(r)]
    /\ msgs'    = [msgs EXCEPT ![r] = queue[r]]
    /\ queue'   = [queue EXCEPT ![r] = <<>>]
    /\ joined'  = [joined EXCEPT ![r] = @ \/ JOIN_TENSOR_NAME \in ToSet(queue[r])]
    /\ UNCHANGED <<table, shutDown, left, cache, todo, stop, coordVars>>

\* What rank r finds in its CacheCoordinator after sync: the bits that every
\* rank has hit and none has invalidated, the bits that some rank has
\* invalidated, and the flags that some rank has set.
CacheHits(r) ==
    {b \in coord[r].hits : \A q \in Rank : b \in coord[q].hits \ coord[q].invalid}

\* Mutant of InvalidBits: only the rank's own bits.
InvalidBits_Own(r) == coord[r].invalid

InvalidBits(r) == UNION {coord[q].invalid : q \in Rank}

\* Mutant of UncachedInQueue: only the rank's own flag.
UncachedInQueue_Own(r) == coord[r].uncached

UncachedInQueue(r) == \E q \in Rank : coord[q].uncached

\* Mutant of ShouldShutDown: the flags of the workers are not looked at.
ShouldShutDown_Coordinator(r) == coord[0].shut

ShouldShutDown(r) == \E q \in Rank : coord[q].shut

\* The state of a popped message after the invalid entries have been erased.
IsHit(r, n) == cached(EraseBits(cache[r], InvalidBits(r)), table[r][n]) = "HIT"

\* Mutant of BackOnQueue: hits that are not common are dropped.
BackOnQueue_Drops(r) == <<>>

\* Messages that go back on the queue: hits that are not common to all ranks.
BackOnQueue(r) ==
    At(msgs[r], {i \in DOMAIN msgs[r] :
        /\ IsHit(r, msgs[r][i])
        /\ peek_cache_bit(cache[r], msgs[r][i]) \notin CacheHits(r)})

\* Messages that have to be negotiated.
ToNegotiate(r) == At(msgs[r], {i \in DOMAIN msgs[r] : ~IsHit(r, msgs[r][i])})

\* Mutant of Handled: the entries of common hits stay.
Handled_OnlyNegotiated(r) == ToSet(ToNegotiate(r))

\* Messages that are settled in this cycle; they are no longer waiting.
Handled(r) == ToSet(msgs[r]) \ ToSet(BackOnQueue(r))

\* Mutant of FromCache: in the order of the rank's own messages.
FromCache_OwnOrder(r) ==
    LET hits == SelectSeq(msgs[r], LAMBDA n :
                    IsHit(r, n) /\ peek_cache_bit(cache[r], n) \in CacheHits(r))
    IN  [i \in DOMAIN hits |->
            CachedResponse(cache[r][peek_cache_bit(cache[r], hits[i])])]

\* The cached responses to the common hits, least recently used first.
FromCache(r) ==
    LET hits == At(cache[r], CacheHits(r))
    IN  [i \in DOMAIN hits |-> CachedResponse(hits[i])]

\* CoordinateCacheAndState on every rank, and what each rank then does by
\* itself: drop the invalid entries, put the hits that are not common back on
\* the queue and, if no rank has anything to negotiate, take the common ones
\* from the cache.  The shutdown flag only counts when there are none.
Sync ==
    /\ \A r \in Rank : phase[r] = "sync"
    /\ queue' = [r \in Rank |-> queue[r] \o BackOnQueue(r)]
    /\ msgs'  = [r \in Rank |-> ToNegotiate(r)]
    /\ stalled' = [r \in Rank |->
            IF StallCheck THEN stalled[r] \ Handled(r) ELSE stalled[r]]
    /\ phase' = [r \in Rank |-> IF UncachedInQueue(r) THEN "ready" ELSE "perform"]
    /\ cache' = [r \in Rank |-> IF UncachedInQueue(r)
                                THEN EraseBits(cache[r], InvalidBits(r))
                                ELSE MoveToBack(cache[r], CacheHits(r))]
    /\ todo'  = [r \in Rank |-> IF UncachedInQueue(r) THEN <<>>
                                ELSE Fused(r, FromCache(r))]
    /\ stop'  = [r \in Rank |-> /\ ~UncachedInQueue(r)
                                /\ CacheHits(r) = {}
                                /\ ShouldShutDown(r)]
    /\ coord' = [r \in Rank |-> IF UncachedInQueue(r) THEN coord[r] ELSE NoCoord]
    /\ cachedHits' = IF UncachedInQueue(0) THEN FromCache(0) ELSE <<>>
    /\ UNCHANGED <<table, shutDown, left, joined, messageTable, joinedSize, fault>>

\* The slow path: the coordinator gathers all messages, decides on the
\* responses and broadcasts them; every rank adds them to its cache.
Coordinate ==
    /\ \A r \in Rank : phase[r] = "ready"
    /\ \E late \in SetToSeqs(ReadyAfterJoins) :
         LET ready == ReadyInOrder \o late
             responses == Negotiated(ready)
             list == Fused(0, responses)
             Put(r) == Capacity > 0 /\ PutThrows(r, list)
         IN  /\ ~FusionThrows(0, responses)
             /\ todo'  = [r \in Rank |-> list]
             /\ cache' = [r \in Rank |->
                    IF Capacity > 0 THEN put(cache[r], EntriesOf(r, list))
                    ELSE cache[r]]
             /\ phase' = [r \in Rank |-> IF Put(r) THEN "dead" ELSE "perform"]
             /\ fault' = IF \E r \in Rank : Put(r) THEN "put"
                         ELSE IF \E n \in ToSet(ready) : DevicesOverflow(Requesters(n))
                         THEN "devices" ELSE fault
             /\ messageTable' = [n \in Names |->
                    IF n \in ToSet(ready) THEN {} ELSE Requesters(n)]
    /\ joinedSize' = IF Joins = Size THEN 0 ELSE Joins
    /\ stop' = [r \in Rank |-> ShouldShutDown(r)]
    /\ msgs' = [r \in Rank |-> <<>>]
    /\ coord' = [r \in Rank |-> NoCoord]
    /\ cachedHits' = <<>>
    /\ UNCHANGED <<appVars, stalled, joined>>

\* The coordinator dies of an exception while it fuses the responses, or of
\* the write behind the end of the vector of devices.
CoordinatorDies ==
    /\ \A r \in Rank : phase[r] = "ready"
    /\ \E late \in SetToSeqs(ReadyAfterJoins) :
         LET ready == ReadyInOrder \o late
         IN  \/ /\ FusionThrows(0, Negotiated(ready))
                /\ fault' = "fuse"
             \/ /\ \E n \in ToSet(ready) : DevicesOverflow(Requesters(n))
                /\ fault' = "devices"
    /\ phase' = [phase EXCEPT ![0] = "dead"]
    /\ UNCHANGED <<appVars, msgs, coord, cache, stalled, joined, todo, stop,
                   coordVars>>

\* Types whose operation returns on a rank only when all ranks are in it.
CollectiveTypes == Reductions \cup {"ALLGATHER", "BROADCAST"}

\* Every other rank is in this collective operation or has left it.
AllArrived(r) ==
    \A q \in Rank : phase[q] = "perform" => Len(todo[q]) <= Len(todo[r])

\* Mutant of Served: the callbacks also run on ranks that have joined.
Served_Joined(r, response) == ToSet(response.names)

\* The entries whose callbacks run when rank r performs a response.  A rank
\* that has joined contributes zeros instead, and ignores errors.
Served(r, response) ==
    IF response.type = "JOIN"
    THEN IF joined[r] THEN {JOIN_TENSOR_NAME} ELSE {}
    ELSE IF joined[r] THEN {} ELSE ToSet(response.names)

\* PerformOperation for the next response.
Perform(r) ==
    /\ phase[r] = "perform" /\ todo[r] # <<>>
    /\ LET response == Head(todo[r])
           missing  == Served(r, response) \ Outstanding(r)
       IN  /\ response.type \in CollectiveTypes => AllArrived(r)
           /\ table'  = [table EXCEPT ![r] = RemoveNames(@, Served(r, response))]
           /\ joined' = [joined EXCEPT ![r] = @ /\ response.type # "JOIN"]
           /\ phase'  = [phase EXCEPT ![r] = IF missing # {} THEN "dead" ELSE @]
           /\ fault'  = IF missing # {} THEN "tensor" ELSE fault
    /\ todo' = [todo EXCEPT ![r] = Tail(@)]
    /\ UNCHANGED <<queue, shutDown, left, msgs, coord, cache, stalled, stop,
                   coordVars>>

\* The end of BackgroundThreadLoop: refuse new requests, then run the callback
\* of every outstanding one with SHUT_DOWN_ERROR.  One step here; Process has
\* the steps of which it consists and the submissions between them.
Stop(r) ==
    /\ Idle(r) /\ stop[r]
    /\ phase'    = [phase EXCEPT ![r] = "stopped"]
    /\ shutDown' = [shutDown EXCEPT ![r] = TRUE]
    /\ table'    = [table EXCEPT ![r] = EmptyTable]
    /\ queue'    = [queue EXCEPT ![r] = <<>>]
    /\ UNCHANGED <<left, msgs, coord, cache, stalled, joined, todo, stop,
                   coordVars, fault>>

\* All background threads have ended.
Terminated ==
    /\ \A r \in Rank : phase[r] = "stopped"
    /\ UNCHANGED vars

-----------------------------------------------------------------------------
Init ==
    /\ table    = [r \in Rank |-> EmptyTable]
    /\ queue    = [r \in Rank |-> <<>>]
    /\ shutDown = [r \in Rank |-> FALSE]
    /\ left     = [r \in Rank |-> MaxSubmit]
    /\ phase    = [r \in Rank |-> "perform"]
    /\ msgs     = [r \in Rank |-> <<>>]
    /\ coord    = [r \in Rank |-> NoCoord]
    /\ cache    = [r \in Rank |-> <<>>]
    /\ stalled  = [r \in Rank |-> {}]
    /\ joined   = [r \in Rank |-> FALSE]
    /\ todo     = [r \in Rank |-> <<>>]
    /\ stop     = [r \in Rank |-> FALSE]
    /\ cachedHits   = <<>>
    /\ messageTable = [n \in Names |-> {}]
    /\ joinedSize   = 0
    /\ fault = "none"

Background(r) == Pop(r) \/ Perform(r) \/ Stop(r)

Next ==
    \/ \E r \in Rank, q \in Requests : Enqueue(r, q)
    \/ \E r \in Rank : EnqueueJoin(r)
    \/ \E r \in Rank : HorovodShutdown(r)
    \/ \E r \in Rank : Pop(r)
    \/ Sync
    \/ Coordinate
    \/ CoordinatorDies
    \/ \E r \in Rank : Perform(r)
    \/ \E r \in Rank : Stop(r)
    \/ Terminated

Spec == Init /\ [][Next]_vars

\* A collective operation returns once every rank has entered it: the bitwise
\* allreduces (Sync), and the gather and broadcast (Coordinate), during which
\* the coordinator may die.  Only these steps change the phases from such a
\* state, so this asks for one of them without evaluating what they decide.
CollectiveReturns(waiting, after) ==
    /\ \A r \in Rank : phase[r] = waiting
    /\ phase' \in [Rank -> after]

\* The operating system runs every background thread again and again, and
\* collectives return.  Applications need not do anything.
Fairness ==
    /\ \A r \in Rank : WF_vars(Background(r))
    /\ WF_phase(CollectiveReturns("sync", {"perform", "ready"}))
    /\ WF_phase(CollectiveReturns("ready", {"perform", "ready", "dead"}))

FairSpec == Spec /\ Fairness

\* With the stall inspector on, a tensor that waits for ever is found overdue.
StallFairness ==
    \A r \in Rank : SF_vars(Pop(r) /\ coord'[r].invalid # {})

-----------------------------------------------------------------------------
(* Properties.                                                             *)

Response ==
    [type : {"ALLREDUCE", "ADASUM", "ALLGATHER", "BROADCAST", "ERROR", "JOIN"},
     names : Seq(Names \cup {JOIN_TENSOR_NAME}), devices : SUBSET Rank,
     sizes : Seq(Nat)]

\* The variables have their types.
TypeOK ==
    /\ \A r \in Rank :
        /\ Outstanding(r) \subseteq Names \cup {JOIN_TENSOR_NAME}
        /\ \A n \in Outstanding(r) : table[r][n] \in Requests \cup {JoinRequest}
        /\ queue[r] \in Seq(Names \cup {JOIN_TENSOR_NAME})
        /\ msgs[r] \in Seq(Names \cup {JOIN_TENSOR_NAME})
        /\ coord[r] \in [hits : SUBSET Nat, invalid : SUBSET Nat,
                         uncached : BOOLEAN, shut : BOOLEAN]
        /\ Len(cache[r]) <= Capacity
        /\ stalled[r] \subseteq Names
        /\ todo[r] \in Seq(Response)
    /\ phase \in [Rank -> {"perform", "sync", "ready", "stopped", "dead"}]
    /\ shutDown \in [Rank -> BOOLEAN]
    /\ joined \in [Rank -> BOOLEAN]
    /\ stop \in [Rank -> BOOLEAN]
    /\ left \in [Rank -> 0 .. MaxSubmit]
    /\ cachedHits \in Seq(Response)
    /\ messageTable \in [Names -> SUBSET Rank]
    /\ joinedSize \in 0 .. Size - 1
    /\ fault \in {"none", "devices", "fuse", "put", "stall", "tensor"}

\* "All nodes should end up performing the same operation": what one rank has
\* still to perform in a cycle is the end of what any other rank has, so the
\* ranks enter the same collective operations in the same order.
Agreement ==
    \A q, r \in Rank : phase[q] = "perform" /\ phase[r] = "perform" =>
        IsSuffix(todo[q], todo[r]) \/ IsSuffix(todo[r], todo[q])

\* A cache bit means the same response on every rank: evictions, erasures and
\* reorderings keep the caches identical whenever bits are exchanged.
CacheConsistent ==
    \A q, r \in Rank : cache[q] = cache[r]

\* A rank that performs a response has the tensors it needs: "we should never
\* fail at finding this key in the tensor table".
TensorsPresent ==
    \A r \in Rank : phase[r] = "perform" =>
        \A i \in DOMAIN todo[r] : LET response == todo[r][i] IN
            response.type # "JOIN" /\ ~joined[r] =>
                ToSet(response.names) \subseteq Outstanding(r)

\* Two ranks about to perform the same reduction, gather or broadcast asked for
\* this operation on matching tensors; otherwise the response is an error.
SameOperation ==
    \A q, r \in Rank :
        phase[q] = "perform" /\ phase[r] = "perform" /\ todo[q] = todo[r]
        /\ ~joined[q] /\ ~joined[r] =>
            \A i \in DOMAIN todo[r] : LET response == todo[r][i] IN
                response.type \in CollectiveTypes =>
                    \A n \in ToSet(response.names) :
                        /\ table[r][n].op = response.type
                        /\ table[q][n].op = response.type
                        /\ table[q][n].dtype = table[r][n].dtype
                        /\ response.type # "ALLGATHER" =>
                              table[q][n].shape = table[r][n].shape
                        /\ response.type = "BROADCAST" =>
                              table[q][n].root = table[r][n].root

\* In how many places the request of rank r for `name` is.
Places(r, name) ==
    Cardinality({i \in DOMAIN queue[r] : queue[r][i] = name})
    + Cardinality({i \in DOMAIN msgs[r] : msgs[r][i] = name})
    + (IF name \in Names /\ r \in messageTable[name] THEN 1 ELSE 0)
    + Cardinality({i \in DOMAIN todo[r] : name \in ToSet(todo[r][i].names)})
    + Cardinality({i \in DOMAIN cachedHits : name \in ToSet(cachedHits[i].names)})

\* No request is lost or sent twice: an outstanding tensor is in the message
\* queue, or among the messages of this cycle, or counted by the coordinator,
\* or in a response, and only in one of them, however often it was a hit that
\* was put back, was evicted or was invalidated meanwhile.
RequestsConserved ==
    \A r \in Rank : Alive(r) =>
        \A n \in Outstanding(r) \ {JOIN_TENSOR_NAME} : Places(r, n) = 1

\* The stall inspector only remembers tensors that are waiting in the queue
\* or among the messages of the cycle, never one that is already performed.
StalledAreWaiting ==
    \A r \in Rank : Alive(r) =>
        stalled[r] \subseteq ToSet(queue[r]) \cup ToSet(msgs[r])

\* No background thread dies of an exception or of a broken assertion.
NoFault == fault = "none"

\* What a cycle relies on without looking: the cache does not outgrow its
\* capacity, the inspector asks for no tensor that has gone, and nothing fails
\* unless ranks join.
WellFormed == TypeOK /\ StalledAreWaiting /\ (JoinRanks = {} => NoFault)

\* Nobody waits for ever in a collective operation of the control plane: while
\* a rank is in one, every other rank is in the same one or will come to it,
\* and none has taken the other path, stopped or is about to.
CollectivesMeet ==
    \A q, r \in Rank : phase[q] \in {"sync", "ready"} =>
        \/ phase[r] \in {phase[q], "dead"}
        \/ phase[r] = "perform" /\ ~stop[r]

\* Threads only fail in a cycle in which a rank has joined before a higher one:
\* neither the stall inspector nor the cache nor the tensor table is ever asked
\* for something it does not have.
OnlyEarlyJoinsFail ==
    [][fault' # fault =>
        /\ fault' \in {"devices", "fuse"}
        /\ \E q, r \in Rank : q < r /\ joined[q] /\ ~joined[r]]_vars

\* The elements that rank r contributes as the k-th tensor of a reduction: those
\* of its tensor or, when it has joined, as many zeros as the response says.
BufferLength(r, response, k) ==
    IF joined[r] THEN response.sizes[1]
    ELSE NumElements(table[r][response.names[k]].shape)

\* Two ranks contribute equally many elements to each tensor of a reduction,
\* fused or not, with one exception: all zeros that a rank contributes after
\* join() have the length of the first tensor, the only one that a response
\* tells, whatever the length of the tensors fused with it.
BuffersMatch ==
    \A q, r \in Rank :
        phase[q] = "perform" /\ phase[r] = "perform" /\ ~joined[r]
        /\ todo[q] = todo[r] /\ todo[r] # <<>> /\ Head(todo[r]).type \in Reductions
            => \A k \in DOMAIN Head(todo[r]).names :
                  \/ BufferLength(q, Head(todo[q]), k) = BufferLength(r, Head(todo[r]), k)
                  \/ /\ joined[q]
                     /\ BufferLength(r, Head(todo[r]), k) # BufferLength(r, Head(todo[r]), 1)

\* A tensor that every rank has submitted is eventually performed on each of
\* them, as an operation or as an error, or given up by a shutdown.
SubmittedIsPerformed ==
    \A n \in Names, r \in Rank :
        (\A q \in Rank : Awaiting(q, n)) ~> n \notin Outstanding(r)

\* When every rank has called join(), join() returns on every rank.
JoinReturns ==
    \A r \in Rank :
        (\A q \in Rank : Awaiting(q, JOIN_TENSOR_NAME)) ~> ~Joining(r)

\* "All ranks that did not call join() continue to process operations": a
\* tensor submitted by every rank that has not joined is performed, provided
\* that the stall inspector, if there is one, finds what waits for ever.
OthersContinue ==
    \A n \in Names, r \in Rank : StallFairness =>
        ((/\ \A q \in Rank : Awaiting(q, n) \/ Awaiting(q, JOIN_TENSOR_NAME)
          /\ Awaiting(r, n))
            ~> n \notin Outstanding(r))

\* When one rank asks for a shutdown, all of them stop.
ShutdownCompletes ==
    (\E r \in Rank : shutDown[r]) ~> (\A r \in Rank : phase[r] = "stopped")

\* What the programs see of the background threads.
Promise == INSTANCE Collective WITH
    Watchdog <- StallShutdown,
    pending  <- table,
    agreed   <- [r \in Rank |-> [i \in DOMAIN todo[r] |->
                    [type |-> todo[r][i].type, names |-> todo[r][i].names]]],
    asked    <- {r \in Rank : shutDown[r]},
    closing  <- \E r \in Rank : stop[r],
    closed   <- {r \in Rank : phase[r] = "stopped"}

\* Without join(), the cycles with their cache, their fast path, their
\* fusion and their stall inspector are one agreement after another on lists
\* of responses: the same list for every rank, about tensors all of them have
\* submitted, in error exactly if the requests differ.
ImplementsCollective == Promise!Spec

=============================================================================

----------------------------- MODULE Rendezvous -----------------------------
(***************************************************************************)
(* How the processes of a Gloo job find each other.  gloo_run allocates    *)
(* ranks to the slots of the hosts (run/gloo_run.py) and starts an HTTP    *)
(* server, a key-value store that serves one request at a time             *)
(* (run/http/http_server.py).  Every worker builds three contexts, with    *)
(* all ranks, with those of its host and with those of its local rank: for *)
(* each it stores its address under its rank, waits for the addresses of   *)
(* the others, and says with a DELETE that it has finished.  The server    *)
(* stops when enough of these have come in every scope, but it calls the   *)
(* scope of all ranks "global" and the workers call it "global_".  A       *)
(* request whose answer is lost is repeated by the worker.                 *)
(***************************************************************************)
EXTENDS Horovodrun, Sequences, FiniteSets, SequencesExt

CONSTANTS
    HostLists,   \* values of settings.hosts: the numbers of slots of the hosts
    MaxLost,     \* bound on the requests or answers that are lost
    MaxTries     \* MAX_RETRY_TIMES of the HTTP client: 3 in the code

ASSUME HostListsAssumption == HostLists \subseteq Seq(Nat)
ASSUME RetryAssumption == MaxLost \in Nat /\ MaxTries \in Nat \ {0}

Ranks == 0..(NumProc - 1)

-----------------------------------------------------------------------------
(* _allocate.  A slot is a pair of a host and a place on it, from 0. *)

\* Mutant of AllSlots: local ranks start at 1.
AllSlots_FromOne(hosts) ==
    FlattenSeq([h \in DOMAIN hosts |->
        [l \in 1..hosts[h] |-> [cross |-> h - 1, local |-> l]]])

AllSlots(hosts) ==
    FlattenSeq([h \in DOMAIN hosts |->
        [l \in 1..hosts[h] |-> [cross |-> h - 1, local |-> l - 1]]])

\* There are enough slots; otherwise _allocate raises ValueError.
Fits(hosts) == NumProc <= Len(AllSlots(hosts))

\* alloc_list: cross_rank and local_rank of each rank.
Plan(hosts) == [r \in Ranks |-> AllSlots(hosts)[r + 1]]

\* The scopes of single hosts and of single local ranks.
PartScopes(plan) == {<<"local_", plan[r].cross>> : r \in Ranks}
                        \cup {<<"cross_", plan[r].local>> : r \in Ranks}

\* The scopes in which the workers build contexts.
Scopes(plan) == {<<"global_", 0>>} \cup PartScopes(plan)

\* Mutant of SizedScopes: the server and the workers use the same names.
SizedScopes_SameNames(plan) == Scopes(plan)

\* extract_scope_size: the scopes of which the server knows the size.
SizedScopes(plan) == {<<"global", 0>>} \cup PartScopes(plan)

Members(plan, s) ==
    CASE s[1] \in {"global", "global_"} -> Ranks
      [] s[1] = "local_" -> {r \in Ranks : plan[r].cross = s[2]}
      [] s[1] = "cross_" -> {r \in Ranks : plan[r].local = s[2]}

\* local_sizes, cross_sizes; also scope_size of the server.
ScopeSize(plan, s) == Cardinality(Members(plan, s))

\* The rank that a worker has in a context: its key in the store.
Key(plan, r, s) ==
    CASE s[1] \in {"global", "global_"} -> r
      [] s[1] = "local_" -> plan[r].local
      [] s[1] = "cross_" -> plan[r].cross

\* The order in which GlooContext::Initialize builds the contexts.
ScopesOf(plan, r) ==
    << <<"global_", 0>>, <<"local_", plan[r].cross>>, <<"cross_", plan[r].local>> >>

\* How the k-th context begins: gloo::rendezvous::Context(rank, size) requires
\* rank < size.
Create(plan, r, k) ==
    LET s == ScopesOf(plan, r)[k]
    IN  IF Key(plan, r, s) < ScopeSize(plan, s) THEN "put" ELSE "bad rank"

-----------------------------------------------------------------------------
VARIABLES
    plan,       \* host_alloc_plan
    server,     \* "none" when _allocate has raised, "open", "closed"
    store,      \* by scope: the keys in the cache
    finished,   \* finished_list: by scope, the keys of the DELETEs handled
    scope,      \* the context a worker is at: 1, 2, 3, and 4 when it has all
    doing,      \* its next request, "none" when it has all, or why it has failed
    tries,      \* failed attempts at this request
    lost        \* number of requests and answers lost so far

rendezvousVars == <<plan, server, store, finished, scope, doing, tries, lost>>

RendezvousInit ==
    \E hosts \in HostLists :
        /\ plan = IF Fits(hosts) THEN Plan(hosts)
                  ELSE [r \in Ranks |-> [cross |-> 0, local |-> r]]
        /\ server = IF Fits(hosts) THEN "open" ELSE "none"
        /\ store = [s \in Scopes(plan) |-> {}]
        /\ finished = [s \in Scopes(plan) \cup SizedScopes(plan) |-> <<>>]
        /\ scope = [r \in Ranks |-> 1]
        /\ doing = [r \in Ranks |-> Create(plan, r, 1)]
        /\ tries = [r \in Ranks |-> 0]
        /\ lost = 0

Failures == {"bad rank", "too many tries", "wait timeout"}

HasAll(r) == scope[r] = 4
Lost(r) == doing[r] \in Failures
Here(r) == ScopesOf(plan, r)[scope[r]]
HereKey(r) == Key(plan, r, Here(r))

\* should_continue
ShouldContinue(list) == \E s \in SizedScopes(plan) : ScopeSize(plan, s) > Len(list[s])

\* listen_loop after a request has been handled.
ServerAfter(list) == IF ShouldContinue(list) THEN "open" ELSE "closed"

\* What the server does with a request: do_PUT, do_GET, do_DELETE.
Handle(r) ==
    /\ server = "open"
    /\ store' = IF doing[r] = "put"
                THEN [store EXCEPT ![Here(r)] = @ \cup {HereKey(r)}] ELSE store
    /\ finished' = IF doing[r] = "delete"
                   THEN [finished EXCEPT ![Here(r)] = Append(@, HereKey(r))] ELSE finished
    /\ server' = ServerAfter(finished')

\* Mutant of AddressesKnown: one address too many.
AddressesKnown_OffByOne(r) == 0..ScopeSize(plan, Here(r)) \subseteq store[Here(r)]

AddressesKnown(r) == 0..(ScopeSize(plan, Here(r)) - 1) \subseteq store[Here(r)]

\* A request is handled and its answer arrives.
Exchange(r) ==
    /\ ~HasAll(r) /\ doing[r] \in {"put", "get", "delete"}
    /\ doing[r] = "get" => AddressesKnown(r)
    /\ Handle(r)
    /\ doing' = [doing EXCEPT ![r] = CASE @ = "put" -> "get"
                                       [] @ = "get" -> "delete"
                                       [] @ = "delete" ->
                                            IF scope[r] < 3 THEN Create(plan, r, scope[r] + 1)
                                            ELSE "none"]
    /\ scope' = IF doing[r] = "delete" THEN [scope EXCEPT ![r] = @ + 1] ELSE scope
    /\ tries' = [tries EXCEPT ![r] = 0]
    /\ UNCHANGED <<plan, lost>>

\* PerformHTTP after a failed attempt: another one, or an exception.
FailedAttempt(r) ==
    /\ tries' = [tries EXCEPT ![r] = @ + 1]
    /\ doing' = IF tries[r] + 1 = MaxTries
                THEN [doing EXCEPT ![r] = "too many tries"] ELSE doing

\* The request or, after it has been handled, its answer does not arrive.
Lose(r) ==
    /\ ~HasAll(r) /\ doing[r] \in {"put", "get", "delete"} /\ lost < MaxLost
    /\ lost' = lost + 1
    /\ FailedAttempt(r)
    /\ \/ Handle(r)
       \/ server = "open" /\ UNCHANGED <<store, finished, server>>
    /\ UNCHANGED <<plan, scope>>

\* An address is not there yet (404): the worker sleeps and asks again.
AskAgain(r) ==
    /\ ~HasAll(r) /\ doing[r] = "get" /\ ~AddressesKnown(r) /\ server = "open"
    /\ UNCHANGED rendezvousVars

\* HTTPStore::wait gives up.  The timeout is taken to be longer than the others
\* need, so this happens when a worker of the scope has failed before its PUT.
WaitTimesOut(r) ==
    /\ ~HasAll(r) /\ doing[r] = "get" /\ ~AddressesKnown(r) /\ server = "open"
    /\ \E q \in Members(plan, Here(r)) : Lost(q)
    /\ doing' = [doing EXCEPT ![r] = "wait timeout"]
    /\ UNCHANGED <<plan, server, store, finished, scope, tries, lost>>

RendezvousOver ==
    /\ server = "none" \/ \A r \in Ranks : HasAll(r) \/ Lost(r)
    /\ UNCHANGED rendezvousVars

WorkerStep(r) == Exchange(r) \/ WaitTimesOut(r)

RendezvousNext ==
    \/ \E r \in Ranks : Exchange(r) \/ Lose(r) \/ AskAgain(r) \/ WaitTimesOut(r)
    \/ RendezvousOver

RendezvousSpec == RendezvousInit /\ [][RendezvousNext]_rendezvousVars

\* The workers run; requests are lost no more than MaxLost times.
FairRendezvous == RendezvousSpec /\ \A r \in Ranks : WF_rendezvousVars(WorkerStep(r))

-----------------------------------------------------------------------------
(* Properties *)

RendezvousTypeOK ==
    /\ server \in {"none", "open", "closed"}
    /\ DOMAIN store = Scopes(plan) /\ DOMAIN finished = Scopes(plan) \cup SizedScopes(plan)
    /\ \A s \in Scopes(plan) : store[s] \subseteq {Key(plan, r, s) : r \in Members(plan, s)}
    /\ \A s \in DOMAIN finished : finished[s] \in Seq({Key(plan, r, s) : r \in Members(plan, s)})
    /\ scope \in [Ranks -> 1..4]
    /\ doing \in [Ranks -> {"none", "put", "get", "delete"} \cup Failures]
    /\ tries \in [Ranks -> 0..MaxTries]
    /\ lost \in 0..MaxLost

\* A worker says that it has finished with a scope only when the store has the
\* addresses of all its members, those who wait and ask again included.
FinishedWhenKnown ==
    \A s \in Scopes(plan) :
        finished[s] # <<>> => 0..(ScopeSize(plan, s) - 1) \subseteq store[s]

\* The state is of its type.  No worker is turned away, however many DELETEs are
\* repeated: the server never closes, since it counts those of "global" and gets
\* those of "global_".
RendezvousInv == RendezvousTypeOK /\ FinishedWhenKnown /\ server # "closed"

\* Hosts are filled from the first on, and those that are used for a local rank
\* have no gap between them.
Even(p) ==
    \A r \in Ranks : \A h \in 0..p[r].cross :
        \E q \in Ranks : p[q].cross = h /\ p[q].local = p[r].local

\* No two members of a context store their address under the same key.  On even
\* hosts their keys are 0 to size - 1, those that the others wait for, and no worker
\* finds that its rank is not one of its context: that happens only on hosts with
\* unequal numbers of slots, where the place of the host in the list is not its rank
\* among those that have this many slots.
RanksFitScopes ==
    /\ \A s \in Scopes(plan) :
           /\ \A q, r \in Members(plan, s) : Key(plan, q, s) = Key(plan, r, s) => q = r
           /\ Even(plan) =>
                  {Key(plan, r, s) : r \in Members(plan, s)} = 0..(ScopeSize(plan, s) - 1)
    /\ (\E r \in Ranks : doing[r] = "bad rank") => ~Even(plan)

\* A worker has all its contexts, or has failed, in the end; without losses, and
\* on even hosts, all have their contexts and have been counted once.
RendezvousEnds ==
    server = "open" ~>
        /\ \A r \in Ranks : HasAll(r) \/ Lost(r)
        /\ Even(plan) /\ lost = 0 =>
               /\ \A r \in Ranks : HasAll(r)
               /\ \A s \in Scopes(plan) : Len(finished[s]) = ScopeSize(plan, s)
=============================================================================

----------------------------- MODULE Collective -----------------------------
(***************************************************************************)
(* What Horovod's background threads promise to the programs of a job that *)
(* does not use join().                                                    *)
(*                                                                         *)
(* A program submits named requests.  The ranks agree on lists of          *)
(* responses; each rank delivers the lists response by response.  A        *)
(* response covers tensors that all ranks have submitted, and is an error  *)
(* exactly if their requests do not match.  The ranks agree once to close  *)
(* the job, and then agree on nothing more.                                *)
(***************************************************************************)
EXTENDS Integers, Sequences, FiniteSets, SequencesExt

CONSTANTS
    Rank,      \* the processes of the job
    Requests,  \* the requests they may submit
    Watchdog   \* may the job be closed although no program asked for it?

VARIABLES
    pending,   \* per rank, name -> request that has not been delivered
    agreed,    \* per rank, the responses that are still to be delivered
    asked,     \* ranks that accept no more requests
    closing,   \* the ranks have agreed to close the job
    closed     \* ranks that have given up their pending requests

vars == <<pending, agreed, asked, closing, closed>>

\* The requests of all ranks for `name`.
For(name) == {pending[r][name] : r \in Rank}

\* One operation can serve all of these requests.
Match(requests) ==
    \A p, q \in requests :
        /\ p.op = q.op
        /\ p.dtype = q.dtype
        /\ p.op \in {"ALLREDUCE", "ADASUM", "BROADCAST"} => p.shape = q.shape
        /\ p.op = "BROADCAST" => p.root = q.root
        /\ p.op = "ALLGATHER" =>
              /\ p.shape # <<>> /\ q.shape # <<>>
              /\ Tail(p.shape) = Tail(q.shape)

\* A response may be given to its tensors.
Justified(response) ==
    \A n \in ToSet(response.names) :
        /\ \A r \in Rank : n \in DOMAIN pending[r]
        /\ response.type = "ERROR" <=> ~Match(For(n))
        /\ response.type # "ERROR" => \A q \in For(n) : q.op = response.type

NamesOf(list) == FlattenSeq([i \in DOMAIN list |-> list[i].names])

Init ==
    /\ pending = [r \in Rank |-> <<>>]
    /\ agreed  = [r \in Rank |-> <<>>]
    /\ asked   = {}
    /\ closing = FALSE
    /\ closed  = {}

Submit(r, q) ==
    /\ r \notin asked
    /\ q.name \notin DOMAIN pending[r]
    /\ pending' = [pending EXCEPT ![r] =
            [n \in DOMAIN @ \cup {q.name} |-> IF n = q.name THEN q ELSE @[n]]]
    /\ UNCHANGED <<agreed, asked, closing, closed>>

Ask(r) ==
    /\ asked' = asked \cup {r}
    /\ UNCHANGED <<pending, agreed, closing, closed>>

\* All ranks take over the same list, and perhaps the decision to close.
Agree ==
    /\ ~closing
    /\ \A r \in Rank : agreed[r] = <<>>
    /\ \A q, r \in Rank : agreed'[q] = agreed'[r]
    /\ \A r \in Rank :
        /\ IsInjective(NamesOf(agreed'[r]))
        /\ \A i \in DOMAIN agreed'[r] : Justified(agreed'[r][i])
    /\ closing' \in BOOLEAN
    /\ closing' => Watchdog \/ asked # {}
    /\ UNCHANGED <<pending, asked, closed>>

\* The callbacks of the next response run.
Deliver(r) ==
    /\ agreed[r] # <<>>
    /\ agreed' = [agreed EXCEPT ![r] = Tail(@)]
    /\ LET done == ToSet(Head(agreed[r]).names)
       IN  pending' = [pending EXCEPT ![r] =
                            [n \in DOMAIN @ \ done |-> @[n]]]
    /\ UNCHANGED <<asked, closing, closed>>

\* The callbacks of all pending requests run with an error.
Close(r) ==
    /\ closing
    /\ agreed[r] = <<>>
    /\ pending' = [pending EXCEPT ![r] = <<>>]
    /\ asked'   = asked \cup {r}
    /\ closed'  = closed \cup {r}
    /\ UNCHANGED <<agreed, closing>>

Next ==
    \/ \E r \in Rank, q \in Requests : Submit(r, q)
    \/ \E r \in Rank : Ask(r) \/ Deliver(r) \/ Close(r)
    \/ Agree

Spec == Init /\ [][Next]_vars

=============================================================================

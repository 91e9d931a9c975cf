------------------------------- MODULE Fusion -------------------------------
(***************************************************************************)
(* Tensor fusion: the pure part of Controller::FuseResponses.              *)
(*                                                                         *)
(* The coordinator (or, on the cached fast path, every rank for itself)    *)
(* turns the list of single-tensor responses that are ready into a shorter *)
(* list of fused ones.  An item is a response together with what the local *)
(* tensor table says of its tensor:                                        *)
(*   response  [type, names, devices, sizes], names a sequence             *)
(*   dtype     data type of the local tensor                               *)
(*   size      bytes of the local tensor                                   *)
(*   out       bytes of the output if the response is an allgather         *)
(***************************************************************************)
EXTENDS Integers, Sequences, SequencesExt

\* Response types that sum tensors of one shape; they share a fusion path.
Reductions == {"ALLREDUCE", "ADASUM"}

\* Only these start a fused response; the others are always sent alone.
FusableTypes == Reductions \cup {"ALLGATHER"}

\* Bytes an item counts for while items are collected behind `head`.
ItemBytes(head, item) ==
    IF head.response.type = "ALLGATHER" THEN item.out ELSE item.size

\* Mutant of SameClass: the data types are not compared.
SameClass_AnyType(head, item) ==
    /\ head.response.type = item.response.type
    /\ head.response.devices = item.response.devices

SameClass(head, item) ==
    /\ head.response.type = item.response.type
    /\ head.response.devices = item.response.devices
    /\ head.dtype = item.dtype

\* What fusing adds to a response: an allgather also takes over the sizes
\* (add_allgather_response), a reduction only the name (add_tensor_name).
AddResponse(response, added) ==
    [response EXCEPT
        !.names = @ \o added.names,
        !.sizes = IF response.type = "ALLGATHER" THEN @ \o added.sizes ELSE @]

\* Mutants of LookAt: a skipped item is not kept; skipped bytes do not count.
LookAt_Drops(threshold, head, scan, item) ==
    LET bytes == ItemBytes(head, item)
    IN  IF SameClass(head, item) /\ scan.bytes + bytes <= threshold
        THEN [scan EXCEPT !.fused = AddResponse(@, item.response),
                          !.bytes = @ + bytes]
        ELSE scan

LookAt_Uncounted(threshold, head, scan, item) ==
    LET bytes == ItemBytes(head, item)
    IN  IF scan.open /\ SameClass(head, item) /\ scan.bytes + bytes <= threshold
        THEN [scan EXCEPT !.fused = AddResponse(@, item.response),
                          !.bytes = @ + bytes]
        ELSE [scan EXCEPT !.rest = Append(@, item)]

\* One look at the next item behind the head: fuse it, skip it and look
\* further, or stop looking.  Skipped and unseen items keep their order.
LookAt(threshold, head, scan, item) ==
    LET bytes   == ItemBytes(head, item)
        skipped == scan.skipped + bytes
    IN  IF scan.open /\ SameClass(head, item) /\ scan.bytes + bytes <= threshold
        THEN [scan EXCEPT !.fused = AddResponse(@, item.response),
                          !.bytes = @ + bytes]
        ELSE [scan EXCEPT !.rest = Append(@, item),
                          !.skipped = IF scan.open THEN skipped ELSE @,
                          !.open = scan.open /\ scan.bytes + skipped <= threshold]

\* Before the look-ahead there is only the head.
HeadAlone(head) ==
    [fused |-> head.response, bytes |-> ItemBytes(head, head), skipped |-> 0,
     rest |-> <<>>, open |-> head.response.type \in FusableTypes]

\* The head of the items with everything fused into it, and what is left.
FuseHead(items, threshold) ==
    LET scan[i \in 1 .. Len(items)] ==
            IF i = 1 THEN HeadAlone(items[1])
            ELSE LookAt(threshold, items[1], scan[i - 1], items[i])
    IN  scan[Len(items)]

\* Take one more head, if there is one.
NextResponse(acc, threshold) ==
    IF acc.items = <<>> THEN acc
    ELSE LET scan == FuseHead(acc.items, threshold)
         IN  [list |-> Append(acc.list, scan.fused), items |-> scan.rest]

\* FuseResponses: take heads until no item is left.
FuseResponses(items, threshold) ==
    LET acc[k \in 0 .. Len(items)] ==
            IF k = 0 THEN [list |-> <<>>, items |-> items]
            ELSE NextResponse(acc[k - 1], threshold)
    IN  acc[Len(items)].list

=============================================================================

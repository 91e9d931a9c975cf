----------------------------- MODULE TorchProofs -----------------------------
(***************************************************************************)
(* Proofs about what a PyTorch program uses of Horovod, in two parts.      *)
(*                                                                         *)
(* Process, for any threads, names and number of calls: every entry of the *)
(* tensor table keeps exactly one request, and no callback is lost or runs *)
(* twice, shutdowns and restarts included.                                 *)
(*                                                                         *)
(* Optimizer, for any ranks, parameters, programs and iterations: CallsInv *)
(* follows the calls of an iteration and says that exceptions are just;    *)
(* ValuesInv, which holds unless step() is given a closure that it calls   *)
(* after the synchronisation, follows each backward pass from the gradient *)
(* through an operation to the parameters.                                 *)
(***************************************************************************)
EXTENDS Process, Optimizer, FusionProofs

-----------------------------------------------------------------------------
(* Part 1: Process.                                                        *)

\* A thread between AllocateHandle and the end of its submission.
Submitting(t) == pc[t] \in {"check", "enqueue"}

Queued == Waiting(tensorTable) \cup entries \cup callbacks

\* Entries are out only while the loop runs, callbacks only after it; there is
\* no background thread before the flag is set.
Places ==
    /\ ~initializeFlag => background = "none"
    /\ entries # {} => background = "loop"
    /\ callbacks # {} => background = "notify"

\* A handle belongs to one submission, then to one thread, and only a thread
\* that owns a handle waits for it.
Ownership ==
    /\ \A t \in Threads : Submitting(t) =>
        /\ job[t].handle \in DOMAIN results
        /\ results[job[t].handle] = "pending"
        /\ \A u \in Threads : job[t].handle \notin handleMap[u]
    /\ \A t, u \in Threads :
        Submitting(t) /\ Submitting(u) /\ job[t].handle = job[u].handle => t = u
    /\ \A t, u \in Threads : \A h \in handleMap[t] : h \in handleMap[u] => t = u
    /\ \A t \in Threads : pc[t] = "wait" => job[t].handle \in handleMap[t]

IInv == TypeOK /\ Places /\ RequestPerEntry /\ Ownership /\ CallbackOnce

-----------------------------------------------------------------------------
\* A thread's job is reset to a name and no handle.
LEMMA NoJobType == NoJob \in [name : Names, handle : Nat] /\ NoJob.name \in Names
BY NamesAssumption DEF NoJob

\* Nothing has been submitted at the start.
LEMMA InitIInv == Init => IInv
<1> SUFFICES ASSUME Init PROVE IInv
    OBVIOUS
<1> USE DEF Init
<1>1. TypeOK
  <2>1. FlagsOK BY DEF FlagsOK
  <2>2. QueueOK BY DEF QueueOK
  <2>3. HandlesOK BY DEF HandlesOK, Waiting
  <2>4. ProgramOK BY NoJobType DEF ProgramOK
  <2> QED BY <2>1, <2>2, <2>3, <2>4 DEF TypeOK
<1>2. Places BY DEF Places
<1>3. RequestPerEntry BY NoElements DEF RequestPerEntry, InNegotiation
<1>4. Ownership BY DEF Ownership, Submitting
<1>5. CallbackOnce BY DEF CallbackOnce, Waiting
<1> QED BY <1>1, <1>2, <1>3, <1>4, <1>5 DEF IInv

\* The steps of the main thread touch neither queue nor handles.
LEMMA MainStep == IInv /\ MainThread => IInv'
<1> SUFFICES ASSUME IInv, MainThread PROVE IInv'
    OBVIOUS
<1> USE MainAssumption DEF IInv
<1>1. /\ UNCHANGED <<tensorTable, messageQueue, requested, entries, callbacks,
                     results, lastHandle, job, handleMap>>
      /\ \E to \in {"idle", "init", "join", "reset"} : Goes(Main, to)
      /\ pc[Main] \in {"idle", "init", "join", "reset"}
  BY DEF MainThread, horovod_init, InitReturns, horovod_shutdown, JoinReturns,
         ResetShutDown, queueVars, threadVars, handleVars
<1>2. PICK to \in {"idle", "init", "join", "reset"} : Goes(Main, to)
  BY <1>1
<1>3. \/ background' = background
      \/ /\ background \in {"none", "ended"}
         /\ background' \in {"none", "start"}
  BY DEF MainThread, horovod_init, InitReturns, horovod_shutdown, JoinReturns,
         ResetShutDown, Places, globalVars
<1>4. TypeOK'
  <2>1. FlagsOK'
    <3> USE DEF TypeOK, FlagsOK, globalVars
    <3>1. CASE horovod_init
      <4>1. /\ initializeFlag' = TRUE /\ initializationDone' = FALSE
            /\ shutDown' = shutDown
        BY <3>1, Zenon DEF horovod_init
      <4>2. inits' \in Nat
        BY <3>1 DEF horovod_init
      <4> QED BY <4>1, <4>2, Zenon
    <3>2. CASE InitReturns
      <4>1. UNCHANGED globalVars /\ inits' = inits
        <5> HIDE DEF globalVars
        <5> QED BY <3>2 DEF InitReturns
      <4> QED BY <4>1, Zenon
    <3>3. CASE horovod_shutdown BY <3>3 DEF horovod_shutdown
    <3>4. CASE JoinReturns BY <3>4 DEF JoinReturns
    <3>5. CASE ResetShutDown BY <3>5 DEF ResetShutDown
    <3> QED BY <3>1, <3>2, <3>3, <3>4, <3>5 DEF MainThread
  <2>2. QueueOK'
    BY <1>1, <1>3 DEF TypeOK, QueueOK
  <2>3. HandlesOK'
    BY <1>1 DEF TypeOK, HandlesOK, Waiting
  <2>4. ProgramOK'
    BY <1>1, <1>2 DEF Goes, TypeOK, ProgramOK
  <2> QED BY <2>1, <2>2, <2>3, <2>4 DEF TypeOK
<1>5. Places'
  BY <1>1, <1>3 DEF Places, MainThread, horovod_init, InitReturns,
         horovod_shutdown, JoinReturns, ResetShutDown, globalVars
<1>6. RequestPerEntry'
  BY <1>1, <1>3 DEF RequestPerEntry, InNegotiation
<1>7. \A t \in Threads : /\ Submitting(t)' = Submitting(t)
                        /\ (pc[t] = "wait")' = (pc[t] = "wait")
  BY <1>1, <1>2 DEF Submitting, Goes, TypeOK, ProgramOK
<1>8. Ownership'
  BY <1>1, <1>7 DEF Ownership
<1>9. CallbackOnce'
  BY <1>1 DEF CallbackOnce, Waiting
<1> QED BY <1>4, <1>5, <1>6, <1>8, <1>9

\* The steps of a submission.
LEMMA SubmitStep ==
    ASSUME IInv, NEW t \in Threads, NEW n \in Names, Submit(t, n)
    PROVE  IInv'
<1> USE DEF IInv
<1> DEFINE new == lastHandle + 1
<1>1. /\ UNCHANGED <<initializeFlag, initializationDone, shutDown, background,
                     tensorTable, messageQueue, requested, entries, callbacks,
                     handleMap, inits>>
      /\ lastHandle' = new
      /\ new \in Nat /\ new \notin DOMAIN results
      /\ \A u \in Threads : new \notin handleMap[u]
      /\ DOMAIN results' = DOMAIN results \cup {new}
      /\ results'[new] = "pending"
      /\ \A h \in DOMAIN results : results'[h] = results[h]
      /\ pc[t] = "idle"
      /\ pc' = [pc EXCEPT ![t] = "check"]
      /\ job' = [job EXCEPT ![t] = [name |-> n, handle |-> new]]
  BY DEF Submit, TypeOK, HandlesOK, globalVars, queueVars, threadVars, Goes
<1> HIDE DEF new
<1>2. TypeOK'
  <2>1. FlagsOK' BY <1>1, Zenon DEF TypeOK, FlagsOK
  <2>2. QueueOK' BY <1>1 DEF TypeOK, QueueOK
  <2>3. HandlesOK'
    BY <1>1 DEF TypeOK, HandlesOK, Waiting, new
  <2>4. ProgramOK' BY <1>1 DEF TypeOK, ProgramOK
  <2> QED BY <2>1, <2>2, <2>3, <2>4 DEF TypeOK
<1>3. Places' /\ RequestPerEntry'
  BY <1>1 DEF Places, RequestPerEntry, InNegotiation
<1>4. Ownership'
  BY <1>1 DEF Ownership, Submitting, TypeOK, HandlesOK, ProgramOK
<1>5. CallbackOnce'
  BY <1>1 DEF CallbackOnce, Waiting, TypeOK, HandlesOK
<1> QED BY <1>2, <1>3, <1>4, <1>5

LEMMA EnqueueStep ==
    ASSUME IInv, NEW t \in Threads,
           ReadShutDown(t) \/ RefuseDuplicate(t) \/ AddToTensorQueue(t)
    PROVE  IInv'
<1> USE DEF IInv
<1>1. CASE ReadShutDown(t) \/ RefuseDuplicate(t)
  <2>1. /\ UNCHANGED <<background, tensorTable, messageQueue, requested,
                       entries, callbacks, results, lastHandle, handleMap, inits>>
        /\ UNCHANGED globalVars
        /\ Submitting(t)
        /\ \/ pc' = [pc EXCEPT ![t] = "idle"] /\ job' = [job EXCEPT ![t] = NoJob]
           \/ pc' = [pc EXCEPT ![t] = "enqueue"] /\ job' = job
    BY <1>1 DEF ReadShutDown, RefuseDuplicate, queueVars, threadVars, handleVars,
                Returns, Goes, Submitting
  <2>2. TypeOK'
    <3>1. FlagsOK' BY <2>1, Zenon DEF TypeOK, FlagsOK, globalVars
    <3>2. QueueOK' BY <2>1 DEF TypeOK, QueueOK
    <3>3. HandlesOK' BY <2>1 DEF TypeOK, HandlesOK, Waiting
    <3>4. ProgramOK' BY <2>1, NoJobType DEF TypeOK, ProgramOK
    <3> QED BY <3>1, <3>2, <3>3, <3>4 DEF TypeOK
  <2>3. Places' /\ RequestPerEntry'
    BY <2>1 DEF Places, RequestPerEntry, InNegotiation, globalVars
  <2>4. Ownership'
    BY <2>1 DEF Ownership, Submitting, TypeOK, ProgramOK
  <2>5. CallbackOnce'
    BY <2>1 DEF CallbackOnce, Waiting
  <2> QED BY <2>2, <2>3, <2>4, <2>5
<1>2. CASE AddToTensorQueue(t)
  <2> DEFINE name == job[t].name
             new == job[t].handle
  <2>1. /\ UNCHANGED <<background, requested, entries, callbacks, results,
                       lastHandle, inits>>
        /\ UNCHANGED globalVars
        /\ pc[t] = "enqueue"
        /\ name \notin DOMAIN tensorTable
        /\ DOMAIN tensorTable' = DOMAIN tensorTable \cup {name}
        /\ tensorTable'[name] = new
        /\ \A m \in DOMAIN tensorTable : tensorTable'[m] = tensorTable[m]
        /\ messageQueue' = Append(messageQueue, name)
        /\ handleMap' = [handleMap EXCEPT ![t] = handleMap[t] \cup {new}]
        /\ pc' = [pc EXCEPT ![t] = "idle"]
        /\ job' = [job EXCEPT ![t] = NoJob]
    BY <1>2 DEF AddToTensorQueue, threadVars, handleVars, Returns, Goes
  <2>2. /\ name \in Names
        /\ new \in DOMAIN results /\ results[new] = "pending"
        /\ \A u \in Threads : new \notin handleMap[u]
        /\ DOMAIN handleMap = Threads
    BY <2>1 DEF TypeOK, HandlesOK, ProgramOK, Ownership, Submitting
  <2> HIDE DEF name, new
  <2>3. Waiting(tensorTable)' = Waiting(tensorTable) \cup {new}
    BY <2>1 DEF Waiting
  <2>4. TypeOK'
    <3>1. FlagsOK' BY <2>1, Zenon DEF TypeOK, FlagsOK, globalVars
    <3>2. QueueOK' BY <2>1, <2>2 DEF TypeOK, QueueOK
    <3>3. HandlesOK' BY <2>1, <2>2, <2>3 DEF TypeOK, HandlesOK
    <3>4. ProgramOK' BY <2>1, NoJobType DEF TypeOK, ProgramOK
    <3> QED BY <3>1, <3>2, <3>3, <3>4 DEF TypeOK
  <2>5. Places'
    BY <2>1 DEF Places, globalVars
  <2>6. RequestPerEntry'
    <3>1. messageQueue \in Seq(Names) /\ name \notin ToSet(messageQueue)
      BY <2>1 DEF TypeOK, QueueOK, RequestPerEntry
    <3>2. /\ ToSet(messageQueue)' = ToSet(messageQueue) \cup {name}
          /\ IsInjective(messageQueue')
      BY <2>1, <2>2, <3>1, AppendSet DEF RequestPerEntry
    <3>3. InNegotiation' = InNegotiation /\ name \notin InNegotiation
      BY <2>1 DEF InNegotiation, RequestPerEntry
    <3> QED BY <2>1, <3>2, <3>3 DEF RequestPerEntry
  <2>7. Ownership'
    BY <2>1, <2>2 DEF Ownership, Submitting, TypeOK, HandlesOK, ProgramOK, new
  <2>8. CallbackOnce'
    BY <2>1, <2>2, <2>3 DEF CallbackOnce, Waiting
  <2> QED BY <2>4, <2>5, <2>6, <2>7, <2>8
<1> QED BY <1>1, <1>2

\* A thread waits for a handle that it owns, and gives it up when it is done.
LEMMA WaitStep ==
    ASSUME IInv, NEW t \in Threads,
           (\E h \in handleMap[t] : Synchronize(t, h)) \/ WaitAndClear(t)
           \/ PollThrows(t)
    PROVE  IInv'
<1> USE DEF IInv
<1>1. CASE \E h \in handleMap[t] : Synchronize(t, h)
  <2>1. PICK h \in handleMap[t] : Synchronize(t, h)
    BY <1>1
  <2>2. /\ UNCHANGED <<background, tensorTable, messageQueue, requested,
                       entries, callbacks, results, lastHandle, handleMap, inits>>
        /\ UNCHANGED globalVars
        /\ pc[t] = "idle"
        /\ pc' = [pc EXCEPT ![t] = "wait"]
        /\ job' = [job EXCEPT ![t] = [NoJob EXCEPT !.handle = h]]
    BY <2>1 DEF Synchronize, queueVars, threadVars, handleVars, Goes
  <2>3. /\ [NoJob EXCEPT !.handle = h] \in [name : Names, handle : Nat]
        /\ [NoJob EXCEPT !.handle = h].handle = h
    BY NoJobType DEF TypeOK, HandlesOK
  <2>4. TypeOK'
    <3>1. FlagsOK' BY <2>2, Zenon DEF TypeOK, FlagsOK, globalVars
    <3>2. QueueOK' BY <2>2 DEF TypeOK, QueueOK
    <3>3. HandlesOK' BY <2>2 DEF TypeOK, HandlesOK, Waiting
    <3>4. ProgramOK' BY <2>2, <2>3 DEF TypeOK, ProgramOK
    <3> QED BY <3>1, <3>2, <3>3, <3>4 DEF TypeOK
  <2>5. Places' /\ RequestPerEntry'
    BY <2>2 DEF Places, RequestPerEntry, InNegotiation, globalVars
  <2>6. Ownership'
    BY <2>2, <2>3 DEF Ownership, Submitting, TypeOK, HandlesOK, ProgramOK
  <2>7. CallbackOnce'
    BY <2>2 DEF CallbackOnce, Waiting
  <2> QED BY <2>4, <2>5, <2>6, <2>7
<1>2. CASE WaitAndClear(t)
  <2> DEFINE done == job[t].handle
  <2>1. /\ UNCHANGED <<background, tensorTable, messageQueue, requested,
                       entries, callbacks, lastHandle, inits>>
        /\ UNCHANGED globalVars
        /\ pc[t] = "wait"
        /\ done \in DOMAIN results /\ results[done] # "pending"
        /\ DOMAIN results' = DOMAIN results \ {done}
        /\ \A h \in DOMAIN results' : results'[h] = results[h]
        /\ handleMap' \in {handleMap, [handleMap EXCEPT ![t] = handleMap[t] \ {done}]}
        /\ pc' = [pc EXCEPT ![t] = "idle"]
        /\ job' = [job EXCEPT ![t] = NoJob]
    BY <1>2 DEF WaitAndClear, Without, queueVars, threadVars, Returns, Goes
  <2>2. /\ done \in handleMap[t]
        /\ \A u \in Threads : done \in handleMap[u] => u = t
        /\ done \notin Queued
    BY <2>1 DEF Ownership, CallbackOnce, Queued
  <2> HIDE DEF done
  <2>3. TypeOK'
    <3>1. FlagsOK' BY <2>1, Zenon DEF TypeOK, FlagsOK, globalVars
    <3>2. QueueOK' BY <2>1 DEF TypeOK, QueueOK
    <3>3. HandlesOK' BY <2>1, <2>2 DEF TypeOK, HandlesOK, Waiting, Queued
    <3>4. ProgramOK' BY <2>1, NoJobType DEF TypeOK, ProgramOK
    <3> QED BY <3>1, <3>2, <3>3, <3>4 DEF TypeOK
  <2>4. Places' /\ RequestPerEntry'
    BY <2>1 DEF Places, RequestPerEntry, InNegotiation, globalVars
  <2>5. Ownership'
    <3>1. \A u \in Threads : /\ u # t => pc'[u] = pc[u] /\ job'[u] = job[u]
                            /\ handleMap'[u] \subseteq handleMap[u]
      BY <2>1 DEF TypeOK, HandlesOK, ProgramOK
    <3>2. pc'[t] = "idle" BY <2>1 DEF TypeOK, ProgramOK
    <3>3. \A u \in Threads : Submitting(u)' => Submitting(u) /\ u # t /\ job'[u] = job[u]
      BY <3>1, <3>2 DEF Submitting
    <3>4. \A u \in Threads : Submitting(u) => job[u].handle # done
      BY <2>2 DEF Ownership
    <3>5. \A u \in Threads : pc'[u] = "wait" => u # t /\ pc[u] = "wait" /\ job'[u] = job[u]
      BY <3>1, <3>2
    <3>6. \A u \in Threads : u # t => handleMap'[u] = handleMap[u]
      BY <2>1 DEF TypeOK, HandlesOK
    <3>7. \A u \in Threads : Submitting(u)' =>
             /\ job'[u].handle \in DOMAIN results' /\ results'[job'[u].handle] = "pending"
             /\ \A v \in Threads : job'[u].handle \notin handleMap'[v]
      BY <2>1, <3>1, <3>3, <3>4 DEF Ownership
    <3>8. \A u, v \in Threads :
             Submitting(u)' /\ Submitting(v)' /\ job'[u].handle = job'[v].handle => u = v
      BY <3>3 DEF Ownership
    <3>9. \A u, v \in Threads : \A h \in handleMap'[u] : h \in handleMap'[v] => u = v
      BY <3>1 DEF Ownership
    <3>10. \A u \in Threads : pc'[u] = "wait" => job'[u].handle \in handleMap'[u]
      BY <3>5, <3>6 DEF Ownership
    <3> QED BY <3>7, <3>8, <3>9, <3>10 DEF Ownership
  <2>6. CallbackOnce'
    BY <2>1, <2>2 DEF CallbackOnce, Waiting, Queued, TypeOK, HandlesOK
  <2> QED BY <2>3, <2>4, <2>5, <2>6
<1>3. CASE PollThrows(t)
  <2>1. /\ UNCHANGED <<background, tensorTable, messageQueue, requested,
                       entries, callbacks, results, lastHandle, handleMap, inits>>
        /\ UNCHANGED globalVars
        /\ pc' = [pc EXCEPT ![t] = "idle"]
        /\ job' = [job EXCEPT ![t] = NoJob]
    BY <1>3 DEF PollThrows, queueVars, threadVars, handleVars, Returns, Goes
  <2>2. TypeOK'
    <3>1. FlagsOK' BY <2>1, Zenon DEF TypeOK, FlagsOK, globalVars
    <3>2. QueueOK' BY <2>1 DEF TypeOK, QueueOK
    <3>3. HandlesOK' BY <2>1 DEF TypeOK, HandlesOK, Waiting
    <3>4. ProgramOK' BY <2>1, NoJobType DEF TypeOK, ProgramOK
    <3> QED BY <3>1, <3>2, <3>3, <3>4 DEF TypeOK
  <2>3. Places' /\ RequestPerEntry'
    BY <2>1 DEF Places, RequestPerEntry, InNegotiation, globalVars
  <2>4. Ownership'
    BY <2>1 DEF Ownership, Submitting, TypeOK, ProgramOK
  <2>5. CallbackOnce'
    BY <2>1 DEF CallbackOnce, Waiting
  <2> QED BY <2>2, <2>3, <2>4, <2>5
<1> QED BY <1>1, <1>2, <1>3

\* A callback marks a waiting handle as done, and its owner sees it.
LEMMA CallbackStep ==
    ASSUME IInv, NEW h, NEW status \in {"ok", "error"}, MarkDone(h, status),
           \/ h \in entries /\ entries' = entries \ {h} /\ callbacks' = callbacks
           \/ h \in callbacks /\ callbacks' = callbacks \ {h} /\ entries' = entries,
           UNCHANGED <<globalVars, background, queueVars, requested, lastHandle,
                       programVars, inits>>
    PROVE  IInv'
<1> USE DEF IInv
<1>1. /\ UNCHANGED <<background, tensorTable, messageQueue, requested,
                     lastHandle, pc, job, handleMap, inits>>
      /\ UNCHANGED globalVars
  <2> HIDE DEF globalVars
  <2> QED BY DEF queueVars, programVars
<1>2. /\ DOMAIN results' = DOMAIN results
      /\ results'[h] = status
      /\ \A g \in DOMAIN results \ {h} : results'[g] = results[g]
      /\ h \in DOMAIN results /\ results[h] = "pending"
      /\ h \in Queued /\ Queued' = Queued \ {h}
  BY <1>1 DEF MarkDone, TypeOK, HandlesOK, CallbackOnce, Queued, Waiting
<1>3. entries' \subseteq entries /\ callbacks' \subseteq callbacks
  OBVIOUS
<1>4. TypeOK'
  <2>1. FlagsOK' BY <1>1, Zenon DEF TypeOK, FlagsOK, globalVars
  <2>2. QueueOK' BY <1>1 DEF TypeOK, QueueOK
  <2>3. HandlesOK' BY <1>1, <1>2, <1>3 DEF TypeOK, HandlesOK, Waiting
  <2>4. ProgramOK' BY <1>1 DEF TypeOK, ProgramOK
  <2> QED BY <2>1, <2>2, <2>3, <2>4 DEF TypeOK
<1>5. Places' /\ RequestPerEntry'
  BY <1>1, <1>3 DEF Places, RequestPerEntry, InNegotiation, globalVars
<1>6. \E u \in Threads : h \in handleMap[u]
  BY <1>2 DEF CallbackOnce, Queued
<1>7. Ownership'
  BY <1>1, <1>2, <1>6 DEF Ownership, Submitting
<1>8. CallbackOnce'
  BY <1>1, <1>2, <1>3 DEF CallbackOnce, Queued, Waiting, TypeOK, HandlesOK
<1> QED BY <1>4, <1>5, <1>7, <1>8

\* What the steps of the background thread that run no callback leave alone.
LEMMA QueueStep ==
    ASSUME IInv, UNCHANGED <<handleVars, programVars, inits>>,
           FlagsOK', QueueOK', Places', RequestPerEntry',
           Queued' = Queued, 
           /\ Waiting(tensorTable)' \cap entries' = {}
           /\ Waiting(tensorTable)' \cap callbacks' = {}
           /\ entries' \cap callbacks' = {},
           \A m, n \in DOMAIN tensorTable' : tensorTable'[m] = tensorTable'[n] => m = n
    PROVE  IInv'
<1> USE DEF IInv
<1>1. UNCHANGED <<results, lastHandle, pc, job, handleMap>>
  BY DEF handleVars, programVars
<1>2. HandlesOK' /\ ProgramOK'
  BY <1>1 DEF TypeOK, HandlesOK, ProgramOK, Queued
<1>3. Ownership'
  BY <1>1 DEF Ownership, Submitting
<1>4. CallbackOnce'
  BY <1>1 DEF CallbackOnce, Queued
<1> QED BY <1>2, <1>3, <1>4 DEF TypeOK

\* The loop starts, ends, and the thread goes on to the end.
LEMMA PhaseStep ==
    ASSUME IInv, BackgroundStarts \/ LoopEnds \/ SetShutDown \/ BackgroundEnds
    PROVE  IInv'
<1> USE DEF IInv
<1>1. /\ UNCHANGED <<tensorTable, messageQueue, entries, callbacks,
                     initializeFlag>>
      /\ UNCHANGED <<handleVars, programVars, inits>>
  BY DEF BackgroundStarts, LoopEnds, SetShutDown, BackgroundEnds, threadVars,
         queueVars, globalVars
<1>2. FlagsOK'
  <2> USE DEF TypeOK, FlagsOK, globalVars
  <2>1. CASE BackgroundStarts BY <2>1, Zenon DEF BackgroundStarts
  <2>2. CASE LoopEnds BY <2>2, Zenon DEF LoopEnds
  <2>3. CASE SetShutDown BY <2>3, Zenon DEF SetShutDown
  <2>4. CASE BackgroundEnds BY <2>4, Zenon DEF BackgroundEnds
  <2> QED BY <2>1, <2>2, <2>3, <2>4
<1>3. \/ background = "start" /\ background' = "loop" /\ requested' = {}
      \/ /\ \/ background = "loop" /\ background' = "end" /\ entries = {}
            \/ background = "end" /\ background' = "finalize"
            \/ background = "notify" /\ background' = "ended" /\ callbacks = {}
         /\ requested' = requested
  BY DEF BackgroundStarts, LoopEnds, SetShutDown, BackgroundEnds, InLoop, threadVars
<1>4. QueueOK' BY <1>1, <1>3 DEF TypeOK, QueueOK
<1>5. Places' BY <1>1, <1>3 DEF Places
<1>6. RequestPerEntry' BY <1>1, <1>3 DEF RequestPerEntry, InNegotiation
<1> QED BY <1>1, <1>2, <1>4, <1>5, <1>6, QueueStep DEF Queued, Waiting, CallbackOnce

\* Requests move between the queue and the negotiation.
LEMMA MessageStep ==
    ASSUME IInv, PopMessagesFromQueue \/ \E n \in requested : PushMessageToQueue(n)
    PROVE  IInv'
<1> USE DEF IInv
<1>1. /\ UNCHANGED <<background, tensorTable, entries, callbacks>>
      /\ UNCHANGED <<handleVars, programVars, inits>>
      /\ UNCHANGED globalVars
      /\ background = "loop"
  BY DEF PopMessagesFromQueue, PushMessageToQueue, InLoop
<1>2. FlagsOK' BY <1>1, Zenon DEF TypeOK, FlagsOK, globalVars
<1>3. Places' BY <1>1 DEF Places, globalVars
<1>4. QueueOK' /\ RequestPerEntry'
  <2>1. CASE PopMessagesFromQueue
    <3>1. /\ requested' = requested \cup ToSet(messageQueue)
          /\ messageQueue' = <<>>
      BY <2>1 DEF PopMessagesFromQueue
    <3>2. ToSet(messageQueue) \subseteq Names
      BY DEF TypeOK, QueueOK, RequestPerEntry
    <3> QED BY <1>1, <3>1, <3>2, NoElements DEF TypeOK, QueueOK, RequestPerEntry,
               InNegotiation
  <2>2. CASE \E n \in requested : PushMessageToQueue(n)
    <3>1. PICK n \in requested : PushMessageToQueue(n)
      BY <2>2
    <3>2. /\ requested' = requested \ {n}
          /\ messageQueue' = Append(messageQueue, n)
      BY <3>1 DEF PushMessageToQueue
    <3>3. n \in Names /\ messageQueue \in Seq(Names) /\ n \notin ToSet(messageQueue)
      BY <1>1 DEF TypeOK, QueueOK, RequestPerEntry, InNegotiation
    <3>4. /\ ToSet(messageQueue)' = ToSet(messageQueue) \cup {n}
          /\ IsInjective(messageQueue')
      BY <3>2, <3>3, AppendSet DEF RequestPerEntry
    <3> QED BY <1>1, <3>2, <3>3, <3>4 DEF TypeOK, QueueOK, RequestPerEntry,
               InNegotiation
  <2> QED BY <2>1, <2>2
<1> QED BY <1>1, <1>2, <1>3, <1>4, QueueStep DEF Queued, Waiting, CallbackOnce

\* The entries of a response leave the table with their requests.
LEMMA ResponseStep ==
    ASSUME IInv, NEW names \in SUBSET requested, GetTensorEntriesFromResponse(names)
    PROVE  IInv'
<1> USE DEF IInv
<1>1. /\ UNCHANGED <<background, messageQueue, callbacks>>
      /\ UNCHANGED <<handleVars, programVars, inits>>
      /\ UNCHANGED globalVars
      /\ background = "loop" /\ entries = {}
      /\ entries' = {tensorTable[n] : n \in names}
      /\ DOMAIN tensorTable' = DOMAIN tensorTable \ names
      /\ \A n \in DOMAIN tensorTable' : tensorTable'[n] = tensorTable[n]
      /\ requested' = requested \ names
  BY DEF GetTensorEntriesFromResponse, InLoop, Without
<1>2. names \subseteq DOMAIN tensorTable /\ callbacks = {}
  BY <1>1 DEF RequestPerEntry, InNegotiation, Places
<1>3. FlagsOK' BY <1>1, Zenon DEF TypeOK, FlagsOK, globalVars
<1>4. QueueOK' BY <1>1 DEF TypeOK, QueueOK
<1>5. Places' BY <1>1 DEF Places, globalVars
<1>6. RequestPerEntry'
  BY <1>1, <1>2 DEF RequestPerEntry, InNegotiation
<1>7. \A m, n \in DOMAIN tensorTable : tensorTable[m] = tensorTable[n] => m = n
  BY DEF CallbackOnce
<1>8. Queued' = Queued
  BY <1>1, <1>2 DEF Queued, Waiting
<1>9. /\ Waiting(tensorTable)' \cap entries' = {}
      /\ callbacks' = {}
  BY <1>1, <1>2, <1>7 DEF Waiting
<1> QED BY <1>1, <1>3, <1>4, <1>5, <1>6, <1>7, <1>8, <1>9, QueueStep

\* What is left in the table becomes a callback.
LEMMA FinalizeStep ==
    ASSUME IInv, FinalizeTensorQueue
    PROVE  IInv'
<1> USE DEF IInv
<1>1. /\ UNCHANGED <<requested, entries>>
      /\ UNCHANGED <<handleVars, programVars, inits>>
      /\ UNCHANGED globalVars
      /\ background = "finalize" /\ background' = "notify"
      /\ callbacks' = Waiting(tensorTable)
      /\ DOMAIN tensorTable' = {}
      /\ messageQueue' = <<>>
  BY DEF FinalizeTensorQueue, Without, TypeOK, QueueOK
<1>2. entries = {} /\ callbacks = {}
  BY <1>1 DEF Places
<1>3. FlagsOK' BY <1>1, Zenon DEF TypeOK, FlagsOK, globalVars
<1>4. QueueOK' BY <1>1 DEF TypeOK, QueueOK
<1>5. Places' BY <1>1, <1>2 DEF Places, globalVars
<1>6. RequestPerEntry' BY <1>1, NoElements DEF RequestPerEntry, InNegotiation
<1>7. Waiting(tensorTable)' = {}
  BY <1>1 DEF Waiting
<1>8. Queued' = Queued
  BY <1>1, <1>2, <1>7 DEF Queued
<1> QED BY <1>1, <1>2, <1>3, <1>4, <1>5, <1>6, <1>7, <1>8, QueueStep

\* No step breaks the invariant.
LEMMA NextIInv == IInv /\ [Next]_vars => IInv'
<1> SUFFICES ASSUME IInv, [Next]_vars PROVE IInv'
    OBVIOUS
<1>1. CASE MainThread BY <1>1, MainStep
<1>2. ASSUME NEW t \in Threads, NEW n \in Names, Submit(t, n) PROVE IInv'
  BY <1>2, SubmitStep
<1>3. ASSUME NEW t \in Threads,
             ReadShutDown(t) \/ RefuseDuplicate(t) \/ AddToTensorQueue(t)
      PROVE  IInv'
  BY <1>3, EnqueueStep
<1>4. ASSUME NEW t \in Threads,
             (\E h \in handleMap[t] : Synchronize(t, h)) \/ WaitAndClear(t)
             \/ PollThrows(t)
      PROVE  IInv'
  BY <1>4, WaitStep
<1>5. ASSUME NEW h \in entries, NEW status \in {"ok", "error"}, Callback(h, status)
      PROVE  IInv'
  BY <1>5, CallbackStep DEF Callback
<1>6. ASSUME NEW h \in callbacks, Notify(h) PROVE IInv'
  BY <1>6, CallbackStep DEF Notify
<1>7. CASE BackgroundStarts \/ LoopEnds \/ SetShutDown \/ BackgroundEnds
  BY <1>7, PhaseStep
<1>8. CASE PopMessagesFromQueue \/ \E n \in requested : PushMessageToQueue(n)
  BY <1>8, MessageStep
<1>9. ASSUME NEW names \in SUBSET requested, GetTensorEntriesFromResponse(names)
      PROVE  IInv'
  BY <1>9, ResponseStep
<1>10. CASE FinalizeTensorQueue
  BY <1>10, FinalizeStep
<1>11. CASE UNCHANGED vars
  <2> USE DEF IInv
  <2>1. /\ UNCHANGED <<background, tensorTable, messageQueue, requested, entries,
                       callbacks>>
        /\ UNCHANGED <<handleVars, programVars, inits>>
        /\ UNCHANGED globalVars
    BY <1>11 DEF vars, queueVars, threadVars
  <2>2. FlagsOK' BY <2>1, Zenon DEF TypeOK, FlagsOK, globalVars
  <2>3. QueueOK' BY <2>1 DEF TypeOK, QueueOK
  <2>4. Places' BY <2>1 DEF Places, globalVars
  <2>5. RequestPerEntry' BY <2>1 DEF RequestPerEntry, InNegotiation
  <2> QED BY <2>1, <2>2, <2>3, <2>4, <2>5, QueueStep
             DEF Queued, Waiting, CallbackOnce
<1> QED
  BY <1>1, <1>2, <1>3, <1>4, <1>5, <1>6, <1>7, <1>8, <1>9, <1>10, <1>11
     DEF Next, BackgroundThreadLoop

LEMMA Invariant == Spec => []IInv
BY InitIInv, NextIInv, PTL DEF Spec

\* Every handle that a program holds is waiting in exactly one place until its
\* callback has run, through FinalizeTensorQueue and new starts: no callback of
\* tensor_queue.cc is lost or run twice.
THEOREM CalledBackOnce == Spec => []CallbackOnce
<1>1. IInv => CallbackOnce
  BY DEF IInv
<1> QED BY <1>1, Invariant, PTL

\* The assertion in GetTensorEntriesFromResponse cannot fail for a response to
\* requests of this process, and no request is in the queue twice.
THEOREM RequestsHaveEntries == Spec => []RequestPerEntry
<1>1. IInv => RequestPerEntry
  BY DEF IInv
<1> QED BY <1>1, Invariant, PTL

\* The types, and the handles that are waited for are known.
THEOREM HandlesAreKnown == Spec => []TypeOK
<1>1. IInv => TypeOK
  BY DEF IInv
<1> QED BY <1>1, Invariant, PTL

-----------------------------------------------------------------------------
(* Part 2: Optimizer.                                                      *)

-----------------------------------------------------------------------------
(* Where a rank is in an iteration.                                        *)

\* step(closure) of the average optimizer calls the closure after the synchronisation.
ClosureLate == program.style = "closure" /\ ~IsAdasum

\* Backward passes in iteration k.
PassesIn(k) == LET n == program.passes[k] + program.extra IN IF n > 0 THEN n ELSE 0

\* What is called before and after the gradients are computed, by names that
\* tell the calls apart.
Ahead ==
    IF ClosureLate THEN <<"first_submit", "first_wait">>
    ELSE IF program.style = "schedule" THEN <<"set_passes">> ELSE <<>>

Behind ==
    IF ClosureLate THEN <<"last_apply">>
    ELSE IF IsAdasum
         THEN IF program.style = "skip" THEN <<"skip">> ELSE <<"missing", "finish">>
    ELSE IF program.style = "both" THEN <<"submit", "wait", "submit_again", "wait_again", "apply">>
    ELSE <<"submit", "wait", "apply">>

Zeroing == Len(Ahead) + 1
LastPass(k) == Zeroing + PassesIn(k)
LastCall(k) == LastPass(k) + Len(Behind)

\* What is called at place i of iteration k, and what rank r has called.
StageAt(k, i) ==
    IF i < Zeroing THEN Ahead[i]
    ELSE IF i = Zeroing THEN "zero_grad"
    ELSE IF i <= LastPass(k) THEN "backward" ELSE Behind[i - LastPass(k)]

Stage(r) ==
    IF steps[r] < MaxSteps THEN StageAt(steps[r] + 1, at[r])
    ELSE IF ClosureLate THEN "over_late" ELSE "over"

\* Passes that are still to be made, including the one that is being made.
Remaining(r) == LastPass(steps[r] + 1) - at[r] + 1

Waits == {"first_wait", "wait", "wait_again"}
Looping == Waits \cup {"finish"}

-----------------------------------------------------------------------------
(* The inductive invariant.                                                *)

Announced(r) == program.passes[steps[r] + 1]

\* The place of a rank; a backward pass has been begun only where one is made.
InPlace(r) ==
    /\ steps[r] \in 0 .. MaxSteps
    /\ steps[r] < MaxSteps => at[r] \in 1 .. LastCall(steps[r] + 1)
    /\ steps[r] = MaxSteps => at[r] = 1

PlaceOK(r) == InPlace(r) /\ (hooks[r] # {} => Stage(r) = "backward")

\* The list of handles is the dictionary of the code: a key per operation that was
\* submitted, empty between the synchronisations; those behind the loop's place are done.
KeysOK(r) ==
    /\ IsInjective(order[r]) /\ ToSet(order[r]) = {p \in Params : handle[r][p] # "absent"}
    /\ Stage(r) \in {"set_passes", "zero_grad", "apply", "over"} => order[r] = <<>>
    /\ Stage(r) \in Looping =>
          /\ ToSet(order[r]) = Params
          /\ next[r] \in 1 .. Len(order[r])
          /\ \A i \in 1 .. next[r] - 1 : handle[r][order[r][i]] = "done"
    /\ Stage(r) \notin Looping => next[r] = 1

\* Delays are as announced where gradients are zeroed or applied, and are set again by the
\* loop that waits; during the passes they are those still to come, or more.
DelaysOK(r) ==
    /\ Stage(r) \in {"zero_grad", "submit_again", "wait_again", "apply"} =>
          \A p \in Params : delay[r][p] = Announced(r)
    /\ Stage(r) \in Looping => \A i \in 1 .. next[r] - 1 : delay[r][order[r][i]] = Announced(r)
    /\ Stage(r) = "backward" =>
          /\ \A p \in InFlight(r) : delay[r][p] = 0
          /\ program.extra <= 0 => \A p \in Params :
                delay[r][p] >= IF hooks[r] = {} \/ p \in hooks[r] THEN Remaining(r)
                               ELSE Remaining(r) - 1

\* An exception has the misuse, or the mixture of types, that explains it.
FaultsOK(r) ==
    /\ failed[r] = "too_many_passes" => Stage(r) = "backward" /\ program.extra > 0
    /\ failed[r] = "dtype" => \E p, q \in Params : DType[p] # DType[q]
    /\ failed[r] = "skip" => IsAdasum /\ program.style = "skip"
    /\ failed[r] # "zero_grad"

\* Data that an operation has in hand is touched only by the pass that will be told of it.
TouchesOK(r) ==
    ClosureLate \/ failed[r] = "too_many_passes" \/ touched[r] \subseteq hooks[r] \cap InFlight(r)

\* An operation that is in flight on all ranks would have been performed.
OperationOK(p) ==
    /\ \A r \in Ranks : submitted[p][r] # NoValue <=> handle[r][p] = "flying"
    /\ \E r \in Ranks : handle[r][p] # "flying"

RankOK(r) == PlaceOK(r) /\ KeysOK(r) /\ DelaysOK(r) /\ FaultsOK(r) /\ TouchesOK(r)

CallsInv ==
    /\ OptimizerTypeOK
    /\ \A r \in Ranks : RankOK(r)
    /\ \A p \in Params : OperationOK(p)

-----------------------------------------------------------------------------
(* The values.                                                             *)

Unit == IF program.op = "Average" THEN Size ELSE 1

\* Synchronisations of an iteration, and those that are past.
Rounds == IF program.style = "both" /\ ~IsAdasum THEN 2 ELSE 1
Past(r) ==
    IF Stage(r) \in {"submit_again", "wait_again"} THEN 1
    ELSE IF Stage(r) = "apply" THEN Rounds ELSE 0

\* Operations on p that have been performed.
Count(r, p) == Rounds * steps[r] + Past(r) + (IF handle[r][p] = "done" THEN 1 ELSE 0)

\* Adasum has added the output to the parameter.
Added(r, p) == IsAdasum /\ \E i \in 1 .. next[r] - 1 : order[r][i] = p

\* What is still to be added to the parameter, as far as it is known.
Pending(r, p, x) ==
    IF handle[r][p] = "done" THEN IF Added(r, p) THEN 0 ELSE output[r][p][x]
    ELSE IF Past(r) > 0 THEN grad[r][p][x] ELSE 0

Eventual(r, p, x) == param[r][p][x] + Pending(r, p, x)

\* The gradient is that of the passes since the last reduction.
OpenStages == {"backward", "submit", "wait", "missing", "finish", "skip"}
Open(r, p) == Stage(r) \in OpenStages /\ handle[r][p] # "done"

\* The gradient of a rank has nothing of others, and what it has submitted is its gradient.
OwnGradient(r, p) ==
    /\ Open(r, p) => \A x \in Ranks \ {r} : grad[r][p][x] = 0
    /\ Open(r, p) /\ handle[r][p] = "flying" => \A x \in Ranks \ {r} : submitted[p][r][x] = 0
    /\ handle[r][p] = "flying" /\ failed[r] # "too_many_passes" => submitted[p][r] = grad[r][p]

\* The passes of a rank are in its parameter, in what is to be added to it, or
\* in its gradient.
Accounted(r, p) ==
    ~(program.style = "both" /\ program.op = "Sum") /\ failed[r] = "no" =>
        IF Open(r, p) THEN Unit * computed[r][p] = Unit * Eventual(r, p, r) + grad[r][p][r]
        ELSE Eventual(r, p, r) = computed[r][p]

\* The results that have been waited for are the gradients.
WrittenBack(r) ==
    Stage(r) \in Waits =>
        \A i \in 1 .. next[r] - 1 : grad[r][order[r][i]] = output[r][order[r][i]]

\* All ranks have performed equally many operations on a parameter; they agree on its
\* eventual value; those that have ended the same iterations agree on the parameter.
InRounds == \A p \in Params : \A q, r \in Ranks : Count(q, p) = Count(r, p)
AllAlike == \A p \in Params : \A q, r \in Ranks : \A x \in Ranks : Eventual(q, p, x) = Eventual(r, p, x)
AppliedAlike ==
    ~IsAdasum => \A q, r \in Ranks : steps[q] = steps[r] => param[q] = param[r]

ValuesInv ==
    /\ InRounds /\ AllAlike /\ AppliedAlike
    /\ \A r \in Ranks : WrittenBack(r)
    /\ \A r \in Ranks : \A p \in Params : OwnGradient(r, p) /\ Accounted(r, p)

-----------------------------------------------------------------------------
(* The calls of an iteration.                                              *)

\* What the optimizer is asked to do.
CallOf(stage) ==
    IF stage \in {"first_submit", "submit_again"} THEN "submit"
    ELSE IF stage \in Waits THEN "wait"
    ELSE IF stage = "last_apply" THEN "apply" ELSE stage

AheadCalls == [i \in DOMAIN Ahead |-> CallOf(Ahead[i])]
BehindCalls == [i \in DOMAIN Behind |-> CallOf(Behind[i])]

Kinds == {"set_passes", "zero_grad", "backward", "submit", "wait", "apply", "missing",
          "finish", "skip"}

LEMMA Associative ==
    ASSUME NEW S, NEW a \in Seq(S), NEW b \in Seq(S), NEW c \in Seq(S)
    PROVE  (a \o b) \o c = a \o (b \o c)
<1> DEFINE l == (a \o b) \o c
           m == a \o (b \o c)
<1>1. a \o b \in Seq(S) /\ Len(a \o b) = Len(a) + Len(b) OBVIOUS
<1>2. b \o c \in Seq(S) /\ Len(b \o c) = Len(b) + Len(c) OBVIOUS
<1>3. l \in Seq(S) /\ Len(l) = Len(a) + Len(b) + Len(c) BY <1>1
<1>4. m \in Seq(S) /\ Len(m) = Len(a) + Len(b) + Len(c) BY <1>2
<1>5. ASSUME NEW i \in 1 .. Len(a) + Len(b) + Len(c) PROVE l[i] = m[i]
  <2>1. l[i] = IF i <= Len(a) + Len(b) THEN (a \o b)[i] ELSE c[i - (Len(a) + Len(b))] BY <1>1
  <2>2. m[i] = IF i <= Len(a) THEN a[i] ELSE (b \o c)[i - Len(a)] BY <1>2
  <2>3. CASE i <= Len(a) BY <2>1, <2>2, <2>3
  <2>4. CASE i > Len(a) /\ i <= Len(a) + Len(b) BY <2>1, <2>2, <2>4
  <2>5. CASE i > Len(a) + Len(b) BY <2>1, <2>2, <2>5
  <2> QED BY <2>3, <2>4, <2>5
<1> HIDE DEF l, m
<1>6. l = m BY <1>3, <1>4, <1>5
<1> QED BY <1>6 DEF l, m

LEMMA NothingAdded ==
    ASSUME NEW S, NEW a \in Seq(S)
    PROVE  a \o <<>> = a /\ <<>> \o a = a
OBVIOUS

LEMMA Concatenated ==
    ASSUME NEW S, NEW x \in Seq(S), NEW y \in Seq(S)
    PROVE  /\ x \o y \in Seq(S) /\ Len(x \o y) = Len(x) + Len(y)
           /\ \A i \in 1 .. Len(x) : (x \o y)[i] = x[i]
           /\ \A i \in Len(x) + 1 .. Len(x) + Len(y) : (x \o y)[i] = y[i - Len(x)]
OBVIOUS

\* A concatenation is known by its elements.
LEMMA Joined ==
    ASSUME NEW S, NEW x \in Seq(S), NEW y \in Seq(S), NEW z \in Seq(S),
           Len(z) = Len(x) + Len(y), \A i \in 1 .. Len(x) : z[i] = x[i],
           \A i \in 1 .. Len(y) : z[Len(x) + i] = y[i]
    PROVE  x \o y = z
<1>1. x \o y \in Seq(S) /\ Len(x \o y) = Len(x) + Len(y) OBVIOUS
<1>2. \A i \in 1 .. Len(x) + Len(y) : (x \o y)[i] = z[i] OBVIOUS
<1>3. PICK w : w = x \o y OBVIOUS
<1>4. w \in Seq(S) /\ Len(w) = Len(z) /\ \A i \in 1 .. Len(z) : w[i] = z[i] BY <1>1, <1>2, <1>3
<1>5. w = z BY <1>4
<1> QED BY <1>3, <1>5

LEMMA JoinedTuples ==
    ASSUME NEW S, NEW a \in S, NEW b \in S, NEW c \in S
    PROVE  /\ <<a, b>> \o <<c>> = <<a, b, c>>
           /\ <<a, b>> \o <<a, b, c>> = <<a, b, a, b, c>>
<1>1. PICK x : x = <<a, b>> OBVIOUS
<1>2. x \in Seq(S) /\ Len(x) = 2 /\ x[1] = a /\ x[2] = b BY <1>1
<1>3. \A i \in 1 .. Len(x) : i = 1 \/ i = 2 BY <1>2
<1>4. <<a, b>> \o <<c>> = <<a, b, c>>
  <2>1. PICK y : y = <<c>> OBVIOUS
  <2>2. PICK z : z = <<a, b, c>> OBVIOUS
  <2>3. y \in Seq(S) /\ Len(y) = 1 /\ y[1] = c BY <2>1
  <2>4. z \in Seq(S) /\ Len(z) = 3 /\ z[1] = a /\ z[2] = b /\ z[3] = c BY <2>2
  <2>5. Len(z) = Len(x) + Len(y) BY <1>2, <2>3, <2>4
  <2>6. \A i \in 1 .. Len(x) : z[i] = x[i] BY <1>2, <1>3, <2>4
  <2>7. \A i \in 1 .. Len(y) : i = 1 /\ Len(x) + i = 3 BY <1>2, <2>3
  <2>8. \A i \in 1 .. Len(y) : z[Len(x) + i] = y[i] BY <2>3, <2>4, <2>7
  <2>9. x \o y = z BY <1>2, <2>3, <2>4, <2>5, <2>6, <2>8, Joined
  <2> QED BY <1>1, <2>1, <2>2, <2>9
<1>5. <<a, b>> \o <<a, b, c>> = <<a, b, a, b, c>>
  <2>1. PICK y : y = <<a, b, c>> OBVIOUS
  <2>2. PICK z : z = <<a, b, a, b, c>> OBVIOUS
  <2>3. y \in Seq(S) /\ Len(y) = 3 /\ y[1] = a /\ y[2] = b /\ y[3] = c BY <2>1
  <2>4. z \in Seq(S) /\ Len(z) = 5 /\ z[1] = a /\ z[2] = b /\ z[3] = a /\ z[4] = b /\ z[5] = c
    BY <2>2
  <2>5. Len(z) = Len(x) + Len(y) BY <1>2, <2>3, <2>4
  <2>6. \A i \in 1 .. Len(x) : z[i] = x[i] BY <1>2, <1>3, <2>4
  <2>7. \A i \in 1 .. Len(y) : \/ i = 1 /\ Len(x) + i = 3
                               \/ i = 2 /\ Len(x) + i = 4
                               \/ i = 3 /\ Len(x) + i = 5
    BY <1>2, <2>3
  <2>8. \A i \in 1 .. Len(y) : z[Len(x) + i] = y[i] BY <2>3, <2>4, <2>7
  <2>9. x \o y = z BY <1>2, <2>3, <2>4, <2>5, <2>6, <2>8, Joined
  <2> QED BY <1>1, <2>1, <2>2, <2>9
<1> QED BY <1>4, <1>5

LEMMA GradientsAre ==
    ASSUME program \in Programs, NEW k \in 1 .. MaxSteps
    PROVE  /\ PassesIn(k) \in Nat
           /\ Gradients(k) \in Seq(Kinds) /\ Len(Gradients(k)) = 1 + PassesIn(k)
           /\ Gradients(k)[1] = "zero_grad"
           /\ \A i \in 2 .. 1 + PassesIn(k) : Gradients(k)[i] = "backward"
<1>0. PICK m : m = program.passes[k] + program.extra OBVIOUS
<1>1. m \in Int
  <2>1. program.passes \in Seq(Nat \ {0}) /\ Len(program.passes) = MaxSteps /\ program.extra \in Int
    BY ProgramsAssumption DEF ProgramType
  <2> QED BY <1>0, <2>1
<1>2. PassesIn(k) = IF m > 0 THEN m ELSE 0 BY <1>0 DEF PassesIn
<1>3. PICK n : n = PassesIn(k) OBVIOUS
<1>4. n \in Nat BY <1>1, <1>2, <1>3
<1>5. [i \in 1 .. m |-> "backward"] = [i \in 1 .. n |-> "backward"]
  <2>1. 1 .. m = 1 .. n BY <1>1, <1>2, <1>3
  <2> QED BY <2>1
<1>6. PICK b : b = [i \in 1 .. n |-> "backward"] OBVIOUS
<1>7. b \in Seq(Kinds) /\ Len(b) = n /\ \A i \in 1 .. n : b[i] = "backward"
  BY <1>4, <1>6 DEF Kinds
<1>8. Gradients(k) = <<"zero_grad">> \o b BY <1>0, <1>5, <1>6 DEF Gradients
<1>9. PICK z : z = <<"zero_grad">> OBVIOUS
<1>10. z \in Seq(Kinds) /\ Len(z) = 1 /\ z[1] = "zero_grad" BY <1>9 DEF Kinds
<1>11. PICK G : G = z \o b OBVIOUS
<1>12. /\ G \in Seq(Kinds) /\ Len(G) = 1 + n /\ G[1] = z[1]
       /\ \A i \in 2 .. 1 + n : G[i] = b[i - 1]
  <2>1. /\ G \in Seq(Kinds) /\ Len(G) = Len(z) + Len(b)
        /\ \A i \in 1 .. Len(z) : G[i] = z[i]
        /\ \A i \in 1 .. Len(b) : G[Len(z) + i] = b[i]
    <3>1. z \in Seq(Kinds) /\ b \in Seq(Kinds) BY <1>7, <1>10
    <3> QED BY <1>11, <3>1, ConcatElements
  <2>2. \A i \in 2 .. 1 + n : i - 1 \in 1 .. n /\ 1 + (i - 1) = i BY <1>4
  <2>3. \A i \in 1 .. n : G[1 + i] = b[i] BY <1>7, <1>10, <2>1
  <2>4. Len(G) = 1 + n BY <1>7, <1>10, <2>1
  <2>5. 1 \in 1 .. Len(z) BY <1>10
  <2> QED BY <2>1, <2>2, <2>3, <2>4, <2>5
<1>13. \A i \in 2 .. 1 + n : i - 1 \in 1 .. n BY <1>4
<1> QED BY <1>3, <1>4, <1>7, <1>8, <1>9, <1>10, <1>11, <1>12, <1>13

\* The calls before and after the gradients, whatever the style.
LEMMA EndsAre ==
    ASSUME program \in Programs
    PROVE  /\ AheadCalls = IF ClosureLate THEN <<"submit", "wait">>
                           ELSE IF program.style = "schedule" THEN <<"set_passes">> ELSE <<>>
           /\ BehindCalls = IF ClosureLate THEN <<"apply">>
                            ELSE IF IsAdasum
                                 THEN IF program.style = "skip" THEN <<"skip">>
                                      ELSE <<"missing", "finish">>
                            ELSE IF program.style = "both"
                                 THEN <<"submit", "wait", "submit", "wait", "apply">>
                            ELSE <<"submit", "wait", "apply">>
<1>1. /\ CallOf("set_passes") = "set_passes" /\ CallOf("skip") = "skip"
      /\ CallOf("missing") = "missing" /\ CallOf("finish") = "finish"
      /\ CallOf("first_submit") = "submit" /\ CallOf("submit") = "submit"
      /\ CallOf("submit_again") = "submit"
      /\ CallOf("first_wait") = "wait" /\ CallOf("wait") = "wait" /\ CallOf("wait_again") = "wait"
      /\ CallOf("apply") = "apply" /\ CallOf("last_apply") = "apply"
  BY DEF CallOf, Waits
<1>2. CASE ClosureLate
  <2>1. AheadCalls = <<CallOf("first_submit"), CallOf("first_wait")>>
    <3>1. Ahead = <<"first_submit", "first_wait">> BY <1>2 DEF Ahead
    <3> QED BY <3>1 DEF AheadCalls
  <2>2. BehindCalls = <<CallOf("last_apply")>>
    <3>1. Behind = <<"last_apply">> BY <1>2 DEF Behind
    <3> QED BY <3>1 DEF BehindCalls
  <2> QED BY <1>1, <1>2, <2>1, <2>2
<1>3. CASE ~ClosureLate
  <2>1. AheadCalls = IF program.style = "schedule" THEN <<"set_passes">> ELSE <<>>
    <3>1. CASE program.style = "schedule"
      <4>1. Ahead = <<"set_passes">> BY <1>3, <3>1 DEF Ahead
      <4>2. AheadCalls = <<CallOf("set_passes")>> BY <4>1 DEF AheadCalls
      <4> QED BY <1>1, <3>1, <4>2
    <3>2. CASE program.style # "schedule"
      <4>1. Ahead = <<>> BY <1>3, <3>2 DEF Ahead
      <4> QED BY <3>2, <4>1 DEF AheadCalls
    <3> QED BY <3>1, <3>2
  <2>2. CASE IsAdasum /\ program.style = "skip"
    <3>1. Behind = <<"skip">> BY <1>3, <2>2 DEF Behind
    <3>2. BehindCalls = <<CallOf("skip")>> BY <3>1 DEF BehindCalls
    <3> QED BY <1>1, <1>3, <2>1, <2>2, <3>2
  <2>3. CASE IsAdasum /\ program.style # "skip"
    <3>1. Behind = <<"missing", "finish">> BY <1>3, <2>3 DEF Behind
    <3>2. BehindCalls = <<CallOf("missing"), CallOf("finish")>> BY <3>1 DEF BehindCalls
    <3> QED BY <1>1, <1>3, <2>1, <2>3, <3>2
  <2>4. CASE ~IsAdasum /\ program.style = "both"
    <3>1. Behind = <<"submit", "wait", "submit_again", "wait_again", "apply">> BY <1>3, <2>4 DEF Behind
    <3>2. BehindCalls = <<CallOf("submit"), CallOf("wait"), CallOf("submit_again"),
                          CallOf("wait_again"), CallOf("apply")>>
      BY <3>1 DEF BehindCalls
    <3> QED BY <1>1, <1>3, <2>1, <2>4, <3>2
  <2>5. CASE ~IsAdasum /\ program.style # "both"
    <3>1. Behind = <<"submit", "wait", "apply">> BY <1>3, <2>5 DEF Behind
    <3>2. BehindCalls = <<CallOf("submit"), CallOf("wait"), CallOf("apply")>>
      BY <3>1 DEF BehindCalls
    <3> QED BY <1>1, <1>3, <2>1, <2>5, <3>2
  <2> QED BY <2>2, <2>3, <2>4, <2>5
<1> QED BY <1>2, <1>3

LEMMA CallsAre ==
    ASSUME program \in Programs, NEW k \in 1 .. MaxSteps
    PROVE  Calls(k) = (AheadCalls \o Gradients(k)) \o BehindCalls
<1>1. program.style \in {"step", "skip", "both", "closure", "schedule"}
  BY ProgramsAssumption DEF ProgramType
<1>2. PICK G : G = Gradients(k) OBVIOUS
<1>3. G \in Seq(Kinds) BY <1>2, GradientsAre
<1>4. PICK sync : sync = <<"submit", "wait">> OBVIOUS
<1>5. PICK apply : apply = <<"apply">> OBVIOUS
<1>6. PICK full : full = <<"submit", "wait", "apply">> OBVIOUS
<1>7. PICK adasum : adasum = <<"missing", "finish">> OBVIOUS
<1>8. PICK none : none = <<>> OBVIOUS
<1>9. PICK skip : skip = <<"skip">> OBVIOUS
<1>10. PICK set : set = <<"set_passes">> OBVIOUS
<1>11. /\ sync \in Seq(Kinds) /\ apply \in Seq(Kinds) /\ full \in Seq(Kinds)
       /\ adasum \in Seq(Kinds) /\ none \in Seq(Kinds) /\ skip \in Seq(Kinds) /\ set \in Seq(Kinds)
  BY <1>4, <1>5, <1>6, <1>7, <1>8, <1>9, <1>10 DEF Kinds
<1>12. "submit" \in Kinds /\ "wait" \in Kinds /\ "apply" \in Kinds BY DEF Kinds
<1>13. sync \o apply = full BY <1>4, <1>5, <1>6, <1>12, JoinedTuples
<1>14. sync \o full = <<"submit", "wait", "submit", "wait", "apply">>
  <2>1. <<"submit", "wait">> \o <<"submit", "wait", "apply">>
          = <<"submit", "wait", "submit", "wait", "apply">>
    BY <1>12, JoinedTuples
  <2> QED BY <1>4, <1>6, <2>1
<1>15. \A s \in Seq(Kinds) : none \o s = s /\ s \o none = s BY <1>8, NothingAdded
<1>16. AheadCalls = IF ClosureLate THEN sync ELSE IF program.style = "schedule" THEN set ELSE none
  BY <1>4, <1>8, <1>10, EndsAre
<1>17. BehindCalls = IF ClosureLate THEN apply
                     ELSE IF IsAdasum THEN IF program.style = "skip" THEN skip ELSE adasum
                     ELSE IF program.style = "both" THEN sync \o full ELSE full
  BY <1>5, <1>6, <1>7, <1>9, <1>14, EndsAre
<1>18. CASE IsAdasum
  <2>1. SynchronizeCalls = none /\ Step = adasum /\ SkippedStep = skip
        /\ StepWith(G) = G \o adasum /\ ~ClosureLate
    BY <1>7, <1>8, <1>9, <1>18 DEF SynchronizeCalls, Step, SkippedStep, StepWith, ClosureLate
  <2>2. CASE program.style = "step"
    <3>1. Calls(k) = G \o adasum BY <1>2, <2>1, <2>2 DEF Calls
    <3> QED BY <1>2, <1>3, <1>15, <1>16, <1>17, <1>18, <2>1, <2>2, <3>1
  <2>3. CASE program.style = "skip"
    <3>1. Calls(k) = G \o none \o skip BY <1>2, <2>1, <2>3 DEF Calls
    <3> QED BY <1>2, <1>3, <1>15, <1>16, <1>17, <1>18, <2>1, <2>3, <3>1
  <2>4. CASE program.style = "both"
    <3>1. Calls(k) = G \o none \o adasum BY <1>2, <2>1, <2>4 DEF Calls
    <3> QED BY <1>2, <1>3, <1>15, <1>16, <1>17, <1>18, <2>1, <2>4, <3>1
  <2>5. CASE program.style = "closure"
    <3>1. Calls(k) = G \o adasum BY <1>2, <2>1, <2>5 DEF Calls
    <3> QED BY <1>2, <1>3, <1>15, <1>16, <1>17, <1>18, <2>1, <2>5, <3>1
  <2>6. CASE program.style = "schedule"
    <3>1. Calls(k) = set \o G \o adasum BY <1>2, <1>10, <2>1, <2>6 DEF Calls
    <3> QED BY <1>2, <1>16, <1>17, <1>18, <2>1, <2>6, <3>1
  <2> QED BY <1>1, <2>2, <2>3, <2>4, <2>5, <2>6
<1>19. CASE ~IsAdasum
  <2>1. SynchronizeCalls = sync /\ Step = full /\ SkippedStep = apply
        /\ StepWith(G) = sync \o G \o apply
        /\ (ClosureLate <=> program.style = "closure")
    BY <1>4, <1>5, <1>13, <1>19 DEF SynchronizeCalls, Step, SkippedStep, StepWith, ClosureLate
  <2>2. CASE program.style = "step"
    <3>1. Calls(k) = G \o full BY <1>2, <2>1, <2>2 DEF Calls
    <3> QED BY <1>2, <1>3, <1>15, <1>16, <1>17, <1>19, <2>1, <2>2, <3>1
  <2>3. CASE program.style = "skip"
    <3>1. Calls(k) = (G \o sync) \o apply BY <1>2, <2>1, <2>3 DEF Calls
    <3>2. (G \o sync) \o apply = G \o (sync \o apply)
      <4>1. G \in Seq(Kinds) /\ sync \in Seq(Kinds) /\ apply \in Seq(Kinds) BY <1>3, <1>11
      <4> QED BY <4>1, Associative, SMT
    <3> QED BY <1>2, <1>3, <1>15, <1>16, <1>17, <1>13, <1>19, <2>1, <2>3, <3>1, <3>2
  <2>4. CASE program.style = "both"
    <3>1. Calls(k) = (G \o sync) \o full BY <1>2, <2>1, <2>4 DEF Calls
    <3>2. (G \o sync) \o full = G \o (sync \o full)
      <4>1. G \in Seq(Kinds) /\ sync \in Seq(Kinds) /\ full \in Seq(Kinds) BY <1>3, <1>11
      <4> QED BY <4>1, Associative, SMT
    <3> QED BY <1>2, <1>3, <1>15, <1>16, <1>17, <1>19, <2>1, <2>4, <3>1, <3>2
  <2>5. CASE program.style = "closure"
    <3>1. Calls(k) = sync \o G \o apply BY <1>2, <2>1, <2>5 DEF Calls
    <3> QED BY <1>2, <1>16, <1>17, <2>1, <2>5, <3>1
  <2>6. CASE program.style = "schedule"
    <3>1. Calls(k) = set \o G \o full BY <1>2, <1>10, <2>1, <2>6 DEF Calls
    <3> QED BY <1>2, <1>16, <1>17, <1>19, <2>1, <2>6, <3>1
  <2> QED BY <1>1, <2>2, <2>3, <2>4, <2>5, <2>6
<1> QED BY <1>18, <1>19

\* How the calls are named.
LEMMA EndStages ==
    ASSUME program \in Programs
    PROVE  /\ \/ ClosureLate /\ Zeroing = 3 /\ Ahead[1] = "first_submit" /\ Ahead[2] = "first_wait"
              \/ ~ClosureLate /\ program.style = "schedule" /\ Zeroing = 2 /\ Ahead[1] = "set_passes"
              \/ ~ClosureLate /\ program.style # "schedule" /\ Zeroing = 1
           /\ \/ ClosureLate /\ Len(Behind) = 1 /\ Behind[1] = "last_apply"
              \/ ~ClosureLate /\ IsAdasum /\ program.style = "skip" /\ Len(Behind) = 1
                    /\ Behind[1] = "skip"
              \/ ~ClosureLate /\ IsAdasum /\ program.style # "skip" /\ Len(Behind) = 2
                    /\ Behind[1] = "missing" /\ Behind[2] = "finish"
              \/ ~ClosureLate /\ ~IsAdasum /\ program.style = "both" /\ Len(Behind) = 5
                    /\ Behind[1] = "submit" /\ Behind[2] = "wait" /\ Behind[3] = "submit_again"
                    /\ Behind[4] = "wait_again" /\ Behind[5] = "apply"
              \/ ~ClosureLate /\ ~IsAdasum /\ program.style # "both" /\ Len(Behind) = 3
                    /\ Behind[1] = "submit" /\ Behind[2] = "wait" /\ Behind[3] = "apply"
<1>1. CASE ClosureLate
  <2>1. Ahead = <<"first_submit", "first_wait">> /\ Behind = <<"last_apply">>
    BY <1>1 DEF Ahead, Behind
  <2>2. Zeroing = 3 BY <2>1 DEF Zeroing
  <2> QED BY <1>1, <2>1, <2>2
<1>2. CASE ~ClosureLate
  <2>1. \/ program.style = "schedule" /\ Zeroing = 2 /\ Ahead[1] = "set_passes"
        \/ program.style # "schedule" /\ Zeroing = 1
    <3>1. CASE program.style = "schedule"
      <4>1. Ahead = <<"set_passes">> BY <1>2, <3>1 DEF Ahead
      <4> QED BY <3>1, <4>1 DEF Zeroing
    <3>2. CASE program.style # "schedule"
      <4>1. Ahead = <<>> BY <1>2, <3>2 DEF Ahead
      <4> QED BY <3>2, <4>1 DEF Zeroing
    <3> QED BY <3>1, <3>2
  <2>2. CASE IsAdasum /\ program.style = "skip"
    <3>1. Behind = <<"skip">> BY <1>2, <2>2 DEF Behind
    <3> QED BY <1>2, <2>1, <2>2, <3>1
  <2>3. CASE IsAdasum /\ program.style # "skip"
    <3>1. Behind = <<"missing", "finish">> BY <1>2, <2>3 DEF Behind
    <3> QED BY <1>2, <2>1, <2>3, <3>1
  <2>4. CASE ~IsAdasum /\ program.style = "both"
    <3>1. Behind = <<"submit", "wait", "submit_again", "wait_again", "apply">>
      BY <1>2, <2>4 DEF Behind
    <3> QED BY <1>2, <2>1, <2>4, <3>1
  <2>5. CASE ~IsAdasum /\ program.style # "both"
    <3>1. Behind = <<"submit", "wait", "apply">> BY <1>2, <2>5 DEF Behind
    <3> QED BY <1>2, <2>1, <2>5, <3>1
  <2> QED BY <2>2, <2>3, <2>4, <2>5
<1> QED BY <1>1, <1>2

\* The stages that a style has, and which of them are the last ones.
Ends == {"apply", "finish", "skip", "last_apply"}
Possible(stage) ==
    /\ ClosureLate => stage \in {"first_submit", "first_wait", "zero_grad", "backward", "last_apply"}
    /\ ~ClosureLate => stage \notin {"first_submit", "first_wait", "last_apply"}
    /\ ~ClosureLate /\ IsAdasum =>
          stage \in {"set_passes", "zero_grad", "backward", "missing", "finish", "skip"}
    /\ ~ClosureLate /\ ~IsAdasum =>
          stage \in {"set_passes", "zero_grad", "backward", "submit", "wait", "submit_again",
                     "wait_again", "apply"}
    /\ stage = "set_passes" => program.style = "schedule"
    /\ stage \in {"submit_again", "wait_again"} => program.style = "both"
    /\ stage = "skip" => program.style = "skip"

\* The first stages of an iteration, and those after the passes.
FirstStage ==
    IF ClosureLate THEN "first_submit"
    ELSE IF program.style = "schedule" THEN "set_passes" ELSE "zero_grad"
AfterPasses ==
    IF ClosureLate THEN "last_apply"
    ELSE IF IsAdasum THEN IF program.style = "skip" THEN "skip" ELSE "missing" ELSE "submit"

\* Stage t comes after stage s, where LastPass is n - 1 places ahead.
Follow(s, t, n) ==
    \/ s = "first_submit" /\ t = "first_wait"
    \/ s \in {"first_wait", "set_passes"} /\ t = "zero_grad"
    \/ s = "zero_grad" /\ t = IF n > 1 THEN "backward" ELSE AfterPasses
    \/ s = "backward" /\ t = IF n > 1 THEN "backward" ELSE AfterPasses
    \/ s = "submit" /\ t = "wait"
    \/ s = "wait" /\ t = IF program.style = "both" THEN "submit_again" ELSE "apply"
    \/ s = "submit_again" /\ t = "wait_again"
    \/ s = "wait_again" /\ t = "apply"
    \/ s = "missing" /\ t = "finish"

LEMMA StagesFollow ==
    ASSUME program \in Programs, NEW k \in 1 .. MaxSteps, NEW i \in 1 .. LastCall(k)
    PROVE  /\ Possible(StageAt(k, i))
           /\ StageAt(k, 1) = FirstStage /\ 1 <= LastCall(k) /\ LastCall(k) \in Nat
           /\ i = LastCall(k) <=> StageAt(k, i) \in Ends
           /\ i < LastCall(k) => Follow(StageAt(k, i), StageAt(k, i + 1), LastPass(k) - i + 1)
           /\ StageAt(k, i) = "zero_grad" => LastPass(k) - i = PassesIn(k)
           /\ StageAt(k, i) = "backward" => LastPass(k) - i + 1 \in 1 .. PassesIn(k)
<1>1. PassesIn(k) \in Nat BY GradientsAre
<1>2. PICK n : n = PassesIn(k) OBVIOUS
<1>3. n \in Nat /\ LastPass(k) = Zeroing + n /\ LastCall(k) = Zeroing + n + Len(Behind)
  BY <1>1, <1>2 DEF LastPass, LastCall
<1>4. PICK z : z = Zeroing OBVIOUS
<1>5. PICK m : m = Len(Behind) OBVIOUS
<1>6. PICK f : f = [j \in 1 .. z + n + m |-> StageAt(k, j)] OBVIOUS
<1>7. /\ \/ ClosureLate /\ z = 3 /\ Ahead[1] = "first_submit" /\ Ahead[2] = "first_wait"
         \/ ~ClosureLate /\ program.style = "schedule" /\ z = 2 /\ Ahead[1] = "set_passes"
         \/ ~ClosureLate /\ program.style # "schedule" /\ z = 1
      /\ \/ ClosureLate /\ m = 1 /\ Behind[1] = "last_apply"
         \/ ~ClosureLate /\ IsAdasum /\ program.style = "skip" /\ m = 1
               /\ Behind[1] = "skip"
         \/ ~ClosureLate /\ IsAdasum /\ program.style # "skip" /\ m = 2
               /\ Behind[1] = "missing" /\ Behind[2] = "finish"
         \/ ~ClosureLate /\ ~IsAdasum /\ program.style = "both" /\ m = 5
               /\ Behind[1] = "submit" /\ Behind[2] = "wait" /\ Behind[3] = "submit_again"
               /\ Behind[4] = "wait_again" /\ Behind[5] = "apply"
         \/ ~ClosureLate /\ ~IsAdasum /\ program.style # "both" /\ m = 3
               /\ Behind[1] = "submit" /\ Behind[2] = "wait" /\ Behind[3] = "apply"
  BY <1>4, <1>5, EndStages
<1>8. z \in {1, 2, 3} /\ m \in {1, 2, 3, 5} BY <1>7
<1>9. \A j \in 1 .. z + n + m :
        /\ f[j] = StageAt(k, j)
        /\ j < z => f[j] = Ahead[j]
        /\ j = z => f[j] = "zero_grad"
        /\ j > z /\ j <= z + n => f[j] = "backward"
        /\ j > z + n => f[j] = Behind[j - (z + n)]
  BY <1>3, <1>4, <1>6, <1>8 DEF StageAt
<1>10. /\ i \in 1 .. z + n + m /\ LastPass(k) = z + n /\ LastCall(k) = z + n + m
       /\ (i < z + n + m => i + 1 \in 1 .. z + n + m) /\ 1 \in 1 .. z + n + m
  BY <1>3, <1>4, <1>5, <1>8
<1>11. /\ \/ i < z /\ (i = 1 \/ i = 2) /\ z > 1 /\ (i = 2 => z = 3)
          \/ i = z
          \/ i > z /\ i <= z + n
          \/ i = z + n + 1 \/ i = z + n + 2 \/ i = z + n + 3 \/ i = z + n + 4 \/ i = z + n + 5
       /\ i \in Int
  BY <1>3, <1>8, <1>10
<1>12. f[1] = FirstStage
  BY <1>7, <1>8, <1>9, <1>10 DEF FirstStage
<1>13. ASSUME i < z
       PROVE  Possible(f[i]) /\ f[i] \notin Ends /\ i < z + n + m /\ f[i] \notin {"zero_grad", "backward"}
              /\ Follow(f[i], f[i + 1], z + n - i + 1)
  <2>1. f[i] = Ahead[i] /\ (i + 1 < z => f[i + 1] = Ahead[i + 1]) /\ (i + 1 = z => f[i + 1] = "zero_grad")
    BY <1>3, <1>8, <1>9, <1>10, <1>13
  <2>2. i < z + n + m BY <1>3, <1>8, <1>13, <1>10
  <2>3. \/ i = 1 /\ z = 3 /\ i + 1 < z /\ i + 1 = 2
        \/ i = 2 /\ z = 3 /\ i + 1 = z
        \/ i = 1 /\ z = 2 /\ i + 1 = z
    BY <1>8, <1>11, <1>13
  <2> QED BY <1>7, <2>1, <2>2, <2>3 DEF Possible, Ends, Follow
<1>14. ASSUME i > z + n
       PROVE  Possible(f[i]) /\ (i = z + n + m <=> f[i] \in Ends) /\ f[i] \notin {"zero_grad", "backward"}
              /\ (i < z + n + m => Follow(f[i], f[i + 1], z + n - i + 1))
  <2>1. PICK d : d = i - (z + n) OBVIOUS
  <2>2. /\ d \in 1 .. m /\ f[i] = Behind[d] /\ (i = z + n + m <=> d = m)
        /\ d < m => f[i + 1] = Behind[d + 1]
    BY <1>3, <1>8, <1>9, <1>10, <1>14, <2>1
  <2>3. d \in {1, 2, 3, 4, 5} BY <1>8, <2>2
  <2>4. i < z + n + m => d < m BY <1>3, <1>8, <1>10, <2>1
  <2> QED BY <1>7, <2>2, <2>3, <2>4 DEF Possible, Ends, Follow
<1>15. f[z + n + 1] = AfterPasses
  BY <1>3, <1>7, <1>8, <1>9 DEF AfterPasses
<1>16. ASSUME i = z \/ (i > z /\ i <= z + n)
       PROVE  Possible(f[i]) /\ f[i] \notin Ends /\ i < z + n + m
              /\ Follow(f[i], f[i + 1], z + n - i + 1)
              /\ (f[i] = "zero_grad" => z + n - i = n)
              /\ (f[i] = "backward" => z + n - i + 1 \in 1 .. n)
  <2>1. i < z + n + m /\ i + 1 \in 1 .. z + n + m BY <1>3, <1>8, <1>10, <1>16
  <2>2. \/ i = z /\ f[i] = "zero_grad"
        \/ i > z /\ i <= z + n /\ f[i] = "backward"
    BY <1>9, <1>10, <1>16
  <2>3. Possible(f[i]) /\ f[i] \notin Ends BY <2>2, <1>7 DEF Possible, Ends
  <2>4. \/ i + 1 > z /\ i + 1 <= z + n /\ f[i + 1] = "backward" /\ z + n - i + 1 > 1
        \/ i = z + n /\ f[i + 1] = AfterPasses /\ z + n - i + 1 = 1
    BY <1>3, <1>8, <1>9, <1>15, <1>16, <2>1
  <2>5. f[i] = "zero_grad" => i = z BY <2>2
  <2>6. Follow(f[i], f[i + 1], z + n - i + 1) BY <2>2, <2>4 DEF Follow
  <2> QED BY <1>3, <1>8, <1>10, <2>1, <2>2, <2>3, <2>5, <2>6
<1>17. StageAt(k, i) = f[i] /\ (i < z + n + m => StageAt(k, i + 1) = f[i + 1]) /\ StageAt(k, 1) = f[1]
  BY <1>9, <1>10
<1>18. 1 <= z + n + m /\ z + n + m \in Nat BY <1>3, <1>8
<1>19. i < z \/ i > z + n \/ i = z \/ (i > z /\ i <= z + n) BY <1>3, <1>8, <1>11
<1>20. /\ Possible(f[i])
       /\ i = z + n + m <=> f[i] \in Ends
       /\ i < z + n + m => Follow(f[i], f[i + 1], z + n - i + 1)
       /\ f[i] = "zero_grad" => z + n - i = n
       /\ f[i] = "backward" => z + n - i + 1 \in 1 .. n
  <2>1. CASE i < z
    <3>1. ~(i = z + n + m) BY <1>13, <2>1, <1>18
    <3> QED BY <1>13, <2>1, <3>1
  <2>2. CASE i > z + n BY <1>14, <2>2
  <2>3. CASE i = z \/ (i > z /\ i <= z + n)
    <3>1. ~(i = z + n + m) BY <1>16, <2>3, <1>18
    <3> QED BY <1>16, <2>3, <3>1
  <2> QED BY <1>19, <2>1, <2>2, <2>3
<1>21. LastCall(k) = z + n + m /\ LastPass(k) = z + n BY <1>3, <1>4, <1>5
<1>22. LastPass(k) - i = z + n - i /\ LastPass(k) - i + 1 = z + n - i + 1 /\ PassesIn(k) = n
  <2>1. PICK x : x = LastPass(k) OBVIOUS
  <2>2. x = z + n BY <1>21, <2>1
  <2>3. x - i = z + n - i /\ x - i + 1 = z + n - i + 1 BY <1>3, <1>8, <1>11, <2>2
  <2> QED BY <1>2, <2>1, <2>3
<1>23. Possible(StageAt(k, i)) BY <1>17, <1>20
<1>24. StageAt(k, 1) = FirstStage /\ 1 <= LastCall(k) /\ LastCall(k) \in Nat
  BY <1>12, <1>17, <1>18, <1>21
<1>25. i = LastCall(k) <=> StageAt(k, i) \in Ends BY <1>17, <1>20, <1>21
<1>26. ASSUME i < LastCall(k)
       PROVE  Follow(StageAt(k, i), StageAt(k, i + 1), LastPass(k) - i + 1)
  <2>1. i < z + n + m BY <1>21, <1>26
  <2>2. StageAt(k, i) = f[i] /\ StageAt(k, i + 1) = f[i + 1] BY <1>17, <2>1
  <2>3. Follow(f[i], f[i + 1], z + n - i + 1) BY <1>20, <2>1
  <2> QED BY <1>22, <2>2, <2>3
<1>27. StageAt(k, i) = "zero_grad" => LastPass(k) - i = PassesIn(k)
  <2>1. f[i] = "zero_grad" => z + n - i = n BY <1>20
  <2>2. StageAt(k, i) = f[i] BY <1>17
  <2> QED BY <1>22, <2>1, <2>2
<1>28. StageAt(k, i) = "backward" => LastPass(k) - i + 1 \in 1 .. PassesIn(k)
  <2>1. f[i] = "backward" => z + n - i + 1 \in 1 .. n BY <1>20
  <2>2. StageAt(k, i) = f[i] BY <1>17
  <2> QED BY <1>22, <2>1, <2>2
<1> QED BY <1>23, <1>24, <1>25, <1>26, <1>27, <1>28

\* What the program does at a stage.
LEMMA StagesAreCalls ==
    ASSUME program \in Programs, NEW k \in 1 .. MaxSteps
    PROVE  /\ Len(Calls(k)) = LastCall(k)
           /\ \A i \in 1 .. LastCall(k) : Calls(k)[i] = CallOf(StageAt(k, i))
<1>1. PICK A : A = AheadCalls OBVIOUS
<1>2. PICK G : G = Gradients(k) OBVIOUS
<1>3. PICK B : B = BehindCalls OBVIOUS
<1>4. PICK n : n = PassesIn(k) OBVIOUS
<1>5. /\ G \in Seq(Kinds) /\ n \in Nat /\ Len(G) = 1 + n /\ G[1] = "zero_grad"
      /\ \A i \in 2 .. 1 + n : G[i] = "backward"
  BY <1>2, <1>4, GradientsAre
<1>6. A \in Seq(Kinds) /\ B \in Seq(Kinds)
  <2>1. A = <<"submit", "wait">> \/ A = <<"set_passes">> \/ A = <<>> BY <1>1, EndsAre
  <2>2. \/ B = <<"apply">> \/ B = <<"skip">> \/ B = <<"missing", "finish">>
        \/ B = <<"submit", "wait", "submit", "wait", "apply">>
        \/ B = <<"submit", "wait", "apply">>
    BY <1>3, EndsAre
  <2>3. <<"submit", "wait">> \in Seq(Kinds) /\ <<"set_passes">> \in Seq(Kinds) /\ <<>> \in Seq(Kinds)
    BY DEF Kinds
  <2>4. <<"apply">> \in Seq(Kinds) /\ <<"skip">> \in Seq(Kinds) /\ <<"missing", "finish">> \in Seq(Kinds)
    BY DEF Kinds
  <2>5. <<"submit", "wait", "submit", "wait", "apply">> \in Seq(Kinds)
        /\ <<"submit", "wait", "apply">> \in Seq(Kinds)
    BY DEF Kinds
  <2> QED BY <2>1, <2>2, <2>3, <2>4, <2>5
<1>7. /\ Len(A) = Zeroing - 1 /\ \A i \in 1 .. Len(A) : A[i] = CallOf(Ahead[i])
      /\ Len(B) = Len(Behind) /\ \A i \in 1 .. Len(B) : B[i] = CallOf(Behind[i])
  <2>1. PICK ahead, behind : ahead = Ahead /\ behind = Behind OBVIOUS
  <2>2. ahead = <<"first_submit", "first_wait">> \/ ahead = <<"set_passes">> \/ ahead = <<>>
    BY <2>1 DEF Ahead
  <2>3. \/ behind = <<"last_apply">> \/ behind = <<"skip">> \/ behind = <<"missing", "finish">>
        \/ behind = <<"submit", "wait", "submit_again", "wait_again", "apply">>
        \/ behind = <<"submit", "wait", "apply">>
    BY <2>1 DEF Behind
  <2>4. DOMAIN ahead = 1 .. Len(ahead) /\ Len(ahead) \in Nat BY <2>2
  <2>5. DOMAIN behind = 1 .. Len(behind) /\ Len(behind) \in Nat BY <2>3
  <2>6. A = [i \in DOMAIN ahead |-> CallOf(ahead[i])] BY <1>1, <2>1 DEF AheadCalls
  <2>7. B = [i \in DOMAIN behind |-> CallOf(behind[i])] BY <1>3, <2>1 DEF BehindCalls
  <2>8. Len(A) = Len(ahead) /\ \A i \in 1 .. Len(A) : A[i] = CallOf(ahead[i])
    BY <2>4, <2>6
  <2>9. Len(B) = Len(behind) /\ \A i \in 1 .. Len(B) : B[i] = CallOf(behind[i])
    BY <2>5, <2>7
  <2>10. Zeroing = Len(ahead) + 1 BY <2>1 DEF Zeroing
  <2> QED BY <2>1, <2>4, <2>8, <2>9, <2>10
<1>8. PICK z : z = Zeroing OBVIOUS
<1>9. PICK m : m = Len(Behind) OBVIOUS
<1>10. z \in Nat /\ z >= 1 /\ m \in Nat BY <1>8, <1>9, EndStages
<1>11. /\ A \o G \in Seq(Kinds) /\ Len(A \o G) = z + n
       /\ \A i \in 1 .. z - 1 : (A \o G)[i] = A[i]
       /\ \A i \in z .. z + n : (A \o G)[i] = G[i - z + 1]
  <2>1. Len(A) = z - 1 /\ Len(G) = 1 + n /\ n \in Nat BY <1>5, <1>7, <1>8
  <2>2. /\ A \o G \in Seq(Kinds) /\ Len(A \o G) = Len(A) + Len(G)
        /\ \A i \in 1 .. Len(A) + Len(G) :
              (A \o G)[i] = IF i <= Len(A) THEN A[i] ELSE G[i - Len(A)]
    BY <1>5, <1>6
  <2>3. Len(A \o G) = z + n BY <1>10, <2>1, <2>2
  <2>4. \A i \in 1 .. z + n : (A \o G)[i] = IF i <= z - 1 THEN A[i] ELSE G[i - (z - 1)]
    BY <1>10, <2>1, <2>2
  <2>5. \A i \in 1 .. z - 1 : i \in 1 .. z + n /\ i <= z - 1 BY <1>10, <2>1
  <2>6. \A i \in z .. z + n : i \in 1 .. z + n /\ ~(i <= z - 1) /\ i - (z - 1) = i - z + 1
    BY <1>10, <2>1
  <2> QED BY <2>2, <2>3, <2>4, <2>5, <2>6
<1>12. PICK AG : AG = A \o G OBVIOUS
<1>13. PICK C : C = AG \o B OBVIOUS
<1>14. /\ Len(C) = z + n + m
       /\ \A i \in 1 .. z + n : C[i] = AG[i]
       /\ \A i \in z + n + 1 .. z + n + m : C[i] = B[i - (z + n)]
  <2>1. AG \in Seq(Kinds) /\ Len(AG) = z + n BY <1>11, <1>12
  <2>2. /\ Len(C) = Len(AG) + Len(B)
        /\ \A i \in 1 .. Len(AG) : C[i] = AG[i]
        /\ \A i \in Len(AG) + 1 .. Len(AG) + Len(B) : C[i] = B[i - Len(AG)]
    <3>1. B \in Seq(Kinds) BY <1>6
    <3>2. /\ Len(AG \o B) = Len(AG) + Len(B)
          /\ \A i \in 1 .. Len(AG) : (AG \o B)[i] = AG[i]
          /\ \A i \in Len(AG) + 1 .. Len(AG) + Len(B) : (AG \o B)[i] = B[i - Len(AG)]
      BY <2>1, <3>1, Concatenated
    <3> QED BY <1>13, <3>2
  <2> QED BY <1>7, <1>9, <2>1, <2>2
<1>15. C = Calls(k) BY <1>1, <1>2, <1>3, <1>12, <1>13, CallsAre
<1>16. LastPass(k) = z + n /\ LastCall(k) = z + n + m
  BY <1>4, <1>8, <1>9 DEF LastPass, LastCall
<1>17. ASSUME NEW i \in 1 .. z + n + m PROVE C[i] = CallOf(StageAt(k, i))
  <2>1. CASE i < z
    <3>1. i \in 1 .. z - 1 /\ i \in 1 .. z + n BY <1>5, <1>10, <2>1
    <3>2. C[i] = A[i] BY <1>11, <1>12, <1>14, <3>1
    <3>3. StageAt(k, i) = Ahead[i] BY <1>8, <2>1 DEF StageAt
    <3>4. i \in 1 .. Len(A) BY <1>7, <1>8, <3>1
    <3> QED BY <1>7, <3>2, <3>3, <3>4
  <2>2. CASE i >= z /\ i <= z + n
    <3>1. i \in z .. z + n /\ i \in 1 .. z + n BY <1>5, <1>10, <2>2
    <3>2. C[i] = G[i - z + 1] BY <1>11, <1>12, <1>14, <3>1
    <3>3. StageAt(k, i) = IF i = z THEN "zero_grad" ELSE "backward"
      BY <1>8, <1>10, <1>16, <2>2 DEF StageAt
    <3>4. i - z + 1 = 1 \/ i - z + 1 \in 2 .. 1 + n BY <1>5, <1>10, <2>2
    <3>5. i - z + 1 = 1 <=> i = z BY <1>10, <2>2
    <3> QED BY <1>5, <3>2, <3>3, <3>4, <3>5 DEF CallOf, Waits
  <2>3. CASE i > z + n
    <3>1. i \in z + n + 1 .. z + n + m BY <1>5, <1>10, <2>3
    <3>2. C[i] = B[i - (z + n)] BY <1>14, <3>1
    <3>3. StageAt(k, i) = Behind[i - (z + n)]
      <4>1. ~(i < z) /\ i # z /\ ~(i <= z + n) BY <1>5, <1>10, <2>3
      <4> QED BY <1>8, <1>16, <4>1 DEF StageAt
    <3>4. i - (z + n) \in 1 .. Len(B) BY <1>5, <1>7, <1>9, <1>10, <3>1
    <3> QED BY <1>7, <3>2, <3>3, <3>4
  <2> QED BY <1>5, <1>10, <2>1, <2>2, <2>3
<1> QED BY <1>14, <1>15, <1>16, <1>17
-----------------------------------------------------------------------------
(* What an operation computes.                                             *)

LEMMA SumIsNat ==
    ASSUME NEW s \in Seq(Nat)
    PROVE  SumOf(s) \in Nat
<1> DEFINE n == Len(s)
           F == [i \in 1 .. n |-> [v \in Nat |-> v + s[i]]]
<1>1. n \in Nat /\ \A i \in 1 .. n : s[i] \in Nat OBVIOUS
<1>2. F \in [1 .. n -> [Nat -> Nat]] BY <1>1
<1>3. \A i \in 1 .. n : \A v \in Nat : F[i][v] = v + s[i] OBVIOUS
<1> HIDE DEF F, n
<1>4. Recursive(Nat, 0, n, F) BY <1>1, <1>2, Recursion
<1>5. PICK g \in [0 .. n -> Nat] : Follows(g, 0, n, F) BY <1>4 DEF Recursive
<1>6. g[0] = 0 /\ \A i \in 1 .. n : g[i] = F[i][g[i - 1]] BY <1>5 DEF Follows
<1>7. \A i \in 1 .. n : i - 1 \in 0 .. n BY <1>1
<1>8. \A i \in 1 .. n : g[i] = g[i - 1] + s[i] BY <1>3, <1>6, <1>7
<1>9. n \in 0 .. n BY <1>1
<1> USE DEF n
<1>10. SumOf(s) = g[n] BY <1>6, <1>8, SumIs
<1> QED BY <1>9, <1>10

\* A sum with one number, and one of equal numbers.
LEMMA SumOfOne ==
    ASSUME NEW s \in Seq(Nat), NEW j \in 1 .. Len(s),
           \A i \in 1 .. Len(s) : i # j => s[i] = 0
    PROVE  SumOf(s) = s[j]
<1> DEFINE w == [i \in 0 .. Len(s) |-> IF i < j THEN 0 ELSE s[j]]
<1>1. Len(s) \in Nat /\ s[j] \in Nat OBVIOUS
<1>2. w \in [0 .. Len(s) -> Nat] BY <1>1
<1>3. w[0] = 0 /\ w[Len(s)] = s[j] BY <1>1
<1>4. ASSUME NEW x \in 1 .. Len(s) PROVE w[x] = w[x - 1] + s[x]
  <2>1. x \in 0 .. Len(s) /\ x - 1 \in 0 .. Len(s) BY <1>1
  <2>2. CASE x < j
    <3>1. w[x] = 0 /\ w[x - 1] = 0 /\ s[x] = 0 BY <2>1, <2>2
    <3> QED BY <3>1
  <2>3. CASE x = j
    <3>1. w[x] = s[j] /\ w[x - 1] = 0 BY <2>1, <2>3
    <3> QED BY <1>1, <2>3, <3>1
  <2>4. CASE x > j
    <3>1. w[x] = s[j] /\ w[x - 1] = s[j] /\ s[x] = 0 BY <2>1, <2>4
    <3> QED BY <1>1, <3>1
  <2> QED BY <2>2, <2>3, <2>4
<1> HIDE DEF w
<1> QED BY <1>2, <1>3, <1>4, SumIs

LEMMA SumOfEqual ==
    ASSUME NEW s \in Seq(Nat), NEW v \in Nat, \A i \in 1 .. Len(s) : s[i] = v
    PROVE  SumOf(s) = Len(s) * v
<1> DEFINE w == [i \in 0 .. Len(s) |-> i * v]
<1>1. Len(s) \in Nat OBVIOUS
<1>2. \A i \in Nat : i * v \in Nat OBVIOUS
<1>3. w \in [0 .. Len(s) -> Nat] BY <1>1, <1>2
<1>4. w[0] = 0 /\ w[Len(s)] = Len(s) * v BY <1>1
<1>5. ASSUME NEW x \in 1 .. Len(s) PROVE w[x] = w[x - 1] + s[x]
  <2>1. x \in 0 .. Len(s) /\ x - 1 \in 0 .. Len(s) BY <1>1
  <2>2. w[x] = x * v /\ w[x - 1] = (x - 1) * v BY <2>1
  <2>3. x * v = (x - 1) * v + v BY <2>1
  <2> QED BY <2>2, <2>3
<1> HIDE DEF w
<1> QED BY <1>3, <1>4, <1>5, SumIs

\* The result of an operation: the values that the ranks have submitted are vectors.
LEMMA ReducedIs ==
    ASSUME NEW values \in [Ranks -> [Ranks -> Nat]], NEW x \in Ranks
    PROVE  /\ Reduced(values) \in [Ranks -> Nat]
           /\ (\A q \in Ranks \ {x} : values[q][x] = 0) =>
                 Reduced(values)[x] = IF program.op = "Average" THEN values[x][x] \div Size
                                      ELSE values[x][x]
           /\ (\A q \in Ranks : values[q][x] = values[x][x]) =>
                 Reduced(values)[x] = IF program.op = "Average" THEN values[x][x]
                                      ELSE Size * values[x][x]
<1> DEFINE col(y) == [i \in 1 .. Size |-> values[i - 1][y]]
<1>1. Size \in Nat /\ Size > 0 BY SizeAssumption
<1>2. \A i \in 1 .. Size : i - 1 \in Ranks BY <1>1 DEF Ranks
<1>3. \A y \in Ranks : col(y) \in Seq(Nat) /\ Len(col(y)) = Size BY <1>1, <1>2
<1>4. \A y \in Ranks : \A i \in 1 .. Size : col(y)[i] = values[i - 1][y] OBVIOUS
<1>5. \A y \in Ranks : y + 1 \in 1 .. Size /\ y + 1 - 1 = y /\ y \in Nat BY <1>1 DEF Ranks
<1>6. \A y \in Ranks :
        Reduced(values)[y] = IF program.op = "Average" THEN SumOf(col(y)) \div Size ELSE SumOf(col(y))
  BY DEF Reduced
<1>7. Reduced(values) = [y \in Ranks |-> Reduced(values)[y]] BY DEF Reduced
<1>8. \A y \in Ranks : SumOf(col(y)) \in Nat
  <2> TAKE y \in Ranks
  <2> HIDE DEF col
  <2> QED BY <1>3, SumIsNat
<1>9. \A n \in Nat : n \div Size \in Nat BY <1>1
<1>10. \A y \in Ranks : Reduced(values)[y] \in Nat BY <1>6, <1>8, <1>9
<1>11. Reduced(values) \in [Ranks -> Nat] BY <1>7, <1>10
<1>12. ASSUME \A q \in Ranks \ {x} : values[q][x] = 0
       PROVE  SumOf(col(x)) = values[x][x]
  <2>1. \A i \in 1 .. Size : i # x + 1 => col(x)[i] = 0
    <3> TAKE i \in 1 .. Size
    <3>1. i # x + 1 => i - 1 \in Ranks \ {x} BY <1>2, <1>5
    <3> QED BY <1>4, <1>12, <3>1
  <2>2. col(x)[x + 1] = values[x][x] BY <1>4, <1>5
  <2> HIDE DEF col
  <2> QED BY <1>3, <1>5, <2>1, <2>2, SumOfOne
<1>13. ASSUME \A q \in Ranks : values[q][x] = values[x][x]
       PROVE  SumOf(col(x)) = Size * values[x][x]
  <2>1. \A i \in 1 .. Size : col(x)[i] = values[x][x] BY <1>2, <1>4, <1>13
  <2>2. values[x][x] \in Nat OBVIOUS
  <2> HIDE DEF col
  <2> QED BY <1>3, <2>1, <2>2, SumOfEqual
<1>14. (Size * values[x][x]) \div Size = values[x][x]
  <2>1. \A v \in Nat : (Size * v) \div Size = v BY <1>1
  <2> QED BY <2>1
<1> HIDE DEF col
<1> QED BY <1>6, <1>11, <1>12, <1>13, <1>14
-----------------------------------------------------------------------------
(* Steps.                                                                  *)

\* What AllreduceAsync does, element by element: the operation waits for other
\* ranks, or is done on all of them.
Awaits(r, p, g) ==
    /\ submitted'[p][r] = g /\ handle'[r][p] = "flying"
    /\ \A q \in Ranks \ {r} : submitted'[p][q] = submitted[p][q] /\ handle'[q][p] = handle[q][p]
    /\ \E q \in Ranks \ {r} : submitted[p][q] = NoValue
    /\ \A q \in Ranks : output'[q][p] = output[q][p]

Performed(r, p, g) ==
    /\ \A q \in Ranks : submitted'[p][q] = NoValue /\ handle'[q][p] = "done"
    /\ \A q \in Ranks \ {r} : submitted[p][q] # NoValue
    /\ \A q \in Ranks : output'[q][p] = Reduced([submitted[p] EXCEPT ![r] = g])

Async(r, p, g) ==
    /\ Awaits(r, p, g) \/ Performed(r, p, g)
    /\ \A x \in Params \ {p} :
          /\ submitted'[x] = submitted[x]
          /\ \A q \in Ranks : handle'[q][x] = handle[q][x] /\ output'[q][x] = output[q][x]
    /\ order'[r] = IF handle[r][p] = "absent" THEN Append(order[r], p) ELSE order[r]
    /\ \A q \in Ranks \ {r} : order'[q] = order[q]

HandleType == {"absent", "none", "flying", "done"}

LEMMA NoValueIsNone == \A g \in [Ranks -> Nat] : g # NoValue
<1>1. 0 \in Ranks BY SizeAssumption DEF Ranks
<1>2. ASSUME NEW g \in [Ranks -> Nat], g = <<>> PROVE FALSE
  <2>1. DOMAIN g = Ranks /\ DOMAIN g = {} BY <1>2
  <2> QED BY <1>1, <2>1
<1> QED BY <1>2 DEF NoValue

LEMMA AsyncIs ==
    ASSUME OptimizerTypeOK, NEW r \in Ranks, NEW p \in Params, NEW g \in [Ranks -> Nat],
           AllreduceAsync(r, p, g)
    PROVE  /\ Async(r, p, g)
           /\ submitted' \in [Params -> [Ranks -> {NoValue} \cup [Ranks -> Nat]]]
           /\ handle' \in [Ranks -> [Params -> HandleType]]
           /\ output' \in [Ranks -> [Params -> [Ranks -> Nat]]]
           /\ order' \in [Ranks -> Seq(Params)]
<1> DEFINE values == [submitted[p] EXCEPT ![r] = g]
           complete == \A q \in Ranks : values[q] # NoValue
           reduced == Reduced(values)
<1>1. /\ submitted \in [Params -> [Ranks -> {NoValue} \cup [Ranks -> Nat]]]
      /\ handle \in [Ranks -> [Params -> HandleType]]
      /\ output \in [Ranks -> [Params -> [Ranks -> Nat]]]
      /\ order \in [Ranks -> Seq(Params)]
  BY DEF OptimizerTypeOK, HandleType
<1>2. values \in [Ranks -> {NoValue} \cup [Ranks -> Nat]] /\ values[r] = g
      /\ \A q \in Ranks \ {r} : values[q] = submitted[p][q]
  BY <1>1
<1>3. g # NoValue BY NoValueIsNone
<1>4. complete <=> \A q \in Ranks \ {r} : submitted[p][q] # NoValue BY <1>2, <1>3
<1>5. /\ submitted' = [submitted EXCEPT ![p] =
                 IF complete THEN [q \in Ranks |-> NoValue] ELSE values]
      /\ handle' = IF complete
                   THEN [q \in Ranks |-> [handle[q] EXCEPT ![p] = "done"]]
                   ELSE [handle EXCEPT ![r][p] = "flying"]
      /\ output' = IF complete
                   THEN [q \in Ranks |-> [output[q] EXCEPT ![p] = reduced]]
                   ELSE output
      /\ order' = [order EXCEPT ![r] = IF handle[r][p] = "absent" THEN Append(@, p) ELSE @]
  BY DEF AllreduceAsync
<1>6. complete => reduced \in [Ranks -> Nat]
  <2> SUFFICES ASSUME complete PROVE reduced \in [Ranks -> Nat] OBVIOUS
  <2>1. values \in [Ranks -> [Ranks -> Nat]] BY <1>2
  <2>2. 0 \in Ranks BY SizeAssumption DEF Ranks
  <2> HIDE DEF values
  <2> QED BY <2>1, <2>2, ReducedIs
<1>7. reduced = Reduced([submitted[p] EXCEPT ![r] = g]) OBVIOUS
<1> HIDE DEF values, complete, reduced
<1>8. submitted' \in [Params -> [Ranks -> {NoValue} \cup [Ranks -> Nat]]]
  BY <1>1, <1>2, <1>5
<1>9. handle' \in [Ranks -> [Params -> HandleType]]
  BY <1>1, <1>5 DEF HandleType
<1>10. output' \in [Ranks -> [Params -> [Ranks -> Nat]]]
  BY <1>1, <1>5, <1>6
<1>11. order' \in [Ranks -> Seq(Params)]
  <2>1. \A s \in Seq(Params) : Append(s, p) \in Seq(Params) OBVIOUS
  <2> QED BY <1>1, <1>5, <2>1
<1>12. /\ order'[r] = IF handle[r][p] = "absent" THEN Append(order[r], p) ELSE order[r]
       /\ \A q \in Ranks \ {r} : order'[q] = order[q]
  BY <1>1, <1>5
<1>13. \A x \in Params \ {p} :
          /\ submitted'[x] = submitted[x]
          /\ \A q \in Ranks : handle'[q][x] = handle[q][x] /\ output'[q][x] = output[q][x]
  BY <1>1, <1>5
<1>14. CASE complete
  <2>1. \A q \in Ranks : submitted'[p][q] = NoValue /\ handle'[q][p] = "done"
    BY <1>1, <1>5, <1>14
  <2>2. \A q \in Ranks : output'[q][p] = reduced BY <1>1, <1>5, <1>14
  <2>3. Performed(r, p, g) BY <1>4, <1>7, <1>14, <2>1, <2>2 DEF Performed
  <2> QED BY <1>8, <1>9, <1>10, <1>11, <1>12, <1>13, <2>3 DEF Async
<1>15. CASE ~complete
  <2>1. submitted'[p] = values BY <1>1, <1>5, <1>15
  <2>2. /\ handle'[r][p] = "flying"
        /\ \A q \in Ranks \ {r} : handle'[q][p] = handle[q][p]
        /\ \A q \in Ranks : output'[q][p] = output[q][p]
    BY <1>1, <1>5, <1>15
  <2>3. \E q \in Ranks \ {r} : submitted[p][q] = NoValue BY <1>4, <1>15
  <2>4. Awaits(r, p, g) BY <1>2, <2>1, <2>2, <2>3 DEF Awaits
  <2> QED BY <1>8, <1>9, <1>10, <1>11, <1>12, <1>13, <2>4 DEF Async
<1> QED BY <1>14, <1>15

\* With the program the places of its calls stay.
LEMMA SameProgram ==
    ASSUME program' = program
    PROVE  /\ IsAdasum' = IsAdasum /\ ClosureLate' = ClosureLate /\ Zeroing' = Zeroing
           /\ \A k : LastPass(k)' = LastPass(k) /\ LastCall(k)' = LastCall(k)
                     /\ PassesIn(k)' = PassesIn(k) /\ Calls(k)' = Calls(k)
           /\ \A k, i : StageAt(k, i)' = StageAt(k, i)
           /\ FirstStage' = FirstStage /\ Rounds' = Rounds /\ Unit' = Unit
BY DEF IsAdasum, ClosureLate, Zeroing, Ahead, Behind, LastPass, LastCall, PassesIn, StageAt,
       FirstStage, Rounds, Unit, Calls, Gradients, SynchronizeCalls, Step, StepWith, SkippedStep

\* A rank that stays where it is.
Stays(q) == steps'[q] = steps[q] /\ at'[q] = at[q]

LEMMA StageStays ==
    ASSUME program' = program, NEW q, Stays(q)
    PROVE  /\ Stage(q)' = Stage(q) /\ Remaining(q)' = Remaining(q)
           /\ Announced(q)' = Announced(q) /\ Past(q)' = Past(q)
BY SameProgram DEF Stays, Stage, Remaining, Announced, Past

\* A rank that goes on to the next call, or to the next iteration.
Proceeds(r) ==
    /\ Stage(r) \notin Ends =>
          /\ steps'[r] = steps[r] /\ Announced(r)' = Announced(r)
          /\ Follow(Stage(r), Stage(r)', Remaining(r)) /\ Remaining(r)' = Remaining(r) - 1
    /\ Stage(r) \in Ends =>
          /\ steps'[r] = steps[r] + 1
          /\ Stage(r)' = IF steps[r] + 1 < MaxSteps THEN FirstStage
                         ELSE IF ClosureLate THEN "over_late" ELSE "over"

LEMMA Returned ==
    ASSUME OptimizerTypeOK, program' = program, NEW r \in Ranks, InPlace(r), steps[r] < MaxSteps,
           Return(r)
    PROVE  /\ Proceeds(r) /\ InPlace(r)'
           /\ at' \in [Ranks -> Nat] /\ steps' \in [Ranks -> 0 .. MaxSteps]
           /\ \A q \in Ranks \ {r} : Stays(q)
<1> DEFINE k == steps[r] + 1
           i == at[r]
<1>1. /\ program \in Programs /\ at \in [Ranks -> Nat] /\ steps \in [Ranks -> 0 .. MaxSteps]
      /\ MaxSteps \in Nat
  BY ProgramsAssumption DEF OptimizerTypeOK
<1>2. k \in 1 .. MaxSteps /\ i \in 1 .. LastCall(k) /\ k \in Nat /\ steps[r] = k - 1
  BY <1>1 DEF InPlace
<1>3. Len(Calls(k)) = LastCall(k) BY <1>1, <1>2, StagesAreCalls
<1> HIDE DEF k, i
<1>4. /\ StageAt(k, 1) = FirstStage /\ 1 <= LastCall(k) /\ LastCall(k) \in Nat
      /\ i = LastCall(k) <=> StageAt(k, i) \in Ends
      /\ i < LastCall(k) => Follow(StageAt(k, i), StageAt(k, i + 1), LastPass(k) - i + 1)
  BY <1>1, <1>2, StagesFollow
<1>5. i \in Nat BY <1>2, <1>4
<1>6. Stage(r) = StageAt(k, i) BY DEF Stage, k, i
<1>7. CASE i < LastCall(k)
  <2>1. at' = [at EXCEPT ![r] = @ + 1] /\ steps' = steps
    BY <1>3, <1>7 DEF Return, k, i
  <2>2. at'[r] = i + 1 /\ steps'[r] = steps[r] BY <1>1, <2>1 DEF i
  <2>3. Stage(r)' = StageAt(k, i + 1) BY <2>2, SameProgram DEF Stage, k
  <2>4. Remaining(r) = LastPass(k) - i + 1 /\ Remaining(r)' = LastPass(k) - (i + 1) + 1
    BY <2>2, SameProgram DEF Remaining, k, i
  <2>5. LastPass(k) \in Int
    <3>1. PassesIn(k) \in Nat BY <1>1, <1>2, GradientsAre
    <3>2. Zeroing \in Nat BY <1>1, EndStages
    <3> QED BY <3>1, <3>2 DEF LastPass
  <2>6. Remaining(r)' = Remaining(r) - 1 BY <1>5, <2>4, <2>5
  <2>7. StageAt(k, i) \notin Ends BY <1>4, <1>5, <1>7
  <2>8. Announced(r)' = Announced(r) BY <2>2 DEF Announced
  <2>9. Proceeds(r) BY <1>4, <1>6, <1>7, <2>2, <2>3, <2>4, <2>6, <2>7, <2>8 DEF Proceeds
  <2>10. i + 1 \in 1 .. LastCall(k) BY <1>4, <1>5, <1>7
  <2>11. InPlace(r)' BY <1>1, <2>2, <2>10, SameProgram DEF InPlace, k
  <2>12. at' \in [Ranks -> Nat] /\ \A q \in Ranks \ {r} : at'[q] = at[q] BY <1>1, <2>1
  <2> QED BY <1>1, <2>1, <2>9, <2>11, <2>12 DEF Stays
<1>8. CASE i = LastCall(k)
  <2>1. at' = [at EXCEPT ![r] = 1] /\ steps' = [steps EXCEPT ![r] = @ + 1]
    BY <1>3, <1>5, <1>8 DEF Return, k, i
  <2>2. at'[r] = 1 /\ steps'[r] = k BY <1>1, <2>1 DEF k
  <2>3. Stage(r)' = IF k < MaxSteps THEN FirstStage
                    ELSE IF ClosureLate THEN "over_late" ELSE "over"
    <3>1. CASE k < MaxSteps
      <4>1. k + 1 \in 1 .. MaxSteps BY <1>1, <1>2, <3>1
      <4>2. 1 \in 1 .. LastCall(k + 1) /\ StageAt(k + 1, 1) = FirstStage
        <5>1. PassesIn(k + 1) \in Nat BY <1>1, <4>1, GradientsAre
        <5>2. Zeroing \in Nat /\ Zeroing >= 1 /\ Len(Behind) \in Nat BY <1>1, EndStages
        <5>3. 1 \in 1 .. LastCall(k + 1) BY <5>1, <5>2 DEF LastCall, LastPass
        <5> QED BY <1>1, <4>1, <5>3, StagesFollow
      <4> QED BY <2>2, <3>1, <4>2, SameProgram DEF Stage
    <3>2. CASE ~(k < MaxSteps) BY <2>2, <3>2, SameProgram DEF Stage
    <3> QED BY <3>1, <3>2
  <2>4. Proceeds(r) BY <1>4, <1>6, <1>8, <2>2, <2>3 DEF Proceeds, k
  <2>5. InPlace(r)'
    <3>1. k \in 0 .. MaxSteps BY <1>1, <1>2
    <3>2. k < MaxSteps => 1 \in 1 .. LastCall(k + 1)
      <4> SUFFICES ASSUME k < MaxSteps PROVE 1 \in 1 .. LastCall(k + 1) OBVIOUS
      <4>1. k + 1 \in 1 .. MaxSteps BY <1>1, <1>2
      <4>2. PassesIn(k + 1) \in Nat BY <1>1, <4>1, GradientsAre
      <4>3. Zeroing \in Nat /\ Zeroing >= 1 /\ Len(Behind) \in Nat BY <1>1, EndStages
      <4> QED BY <4>2, <4>3 DEF LastCall, LastPass
    <3> QED BY <2>2, <3>1, <3>2, SameProgram DEF InPlace
  <2>6. at' \in [Ranks -> Nat] /\ steps' \in [Ranks -> 0 .. MaxSteps]
        /\ \A q \in Ranks \ {r} : at'[q] = at[q] /\ steps'[q] = steps[q]
    BY <1>1, <1>2, <2>1 DEF k
  <2> QED BY <2>4, <2>5, <2>6 DEF Stays
<1>9. i < LastCall(k) \/ i = LastCall(k) BY <1>2, <1>4, <1>5
<1> QED BY <1>7, <1>8, <1>9

\* What a rank is asked to do tells at which stage it is.
LEMMA DoingIs ==
    ASSUME OptimizerTypeOK, NEW r \in Ranks, InPlace(r), NEW c, Doing(r, c)
    PROVE  /\ steps[r] < MaxSteps /\ failed[r] = "no" /\ Possible(Stage(r)) /\ CallOf(Stage(r)) = c
           /\ Stage(r) = "zero_grad" => Remaining(r) = PassesIn(steps[r] + 1) + 1
           /\ Stage(r) = "backward" => Remaining(r) \in 1 .. PassesIn(steps[r] + 1)
           /\ PassesIn(steps[r] + 1) \in Nat
<1>1. program \in Programs /\ MaxSteps \in Nat BY ProgramsAssumption DEF OptimizerTypeOK
<1>2. steps[r] < MaxSteps /\ failed[r] = "no" /\ Call(r) = c BY DEF Doing, Running
<1>3. steps[r] + 1 \in 1 .. MaxSteps /\ at[r] \in 1 .. LastCall(steps[r] + 1)
  BY <1>1, <1>2 DEF InPlace
<1>4. Stage(r) = StageAt(steps[r] + 1, at[r]) BY <1>2 DEF Stage
<1>5. Call(r) = CallOf(Stage(r)) BY <1>1, <1>3, <1>4, StagesAreCalls DEF Call
<1>6. PassesIn(steps[r] + 1) \in Nat BY <1>1, <1>3, GradientsAre
<1>7. Zeroing \in Nat BY <1>1, EndStages
<1>8. LastPass(steps[r] + 1) \in Nat BY <1>6, <1>7 DEF LastPass
<1>9. Len(Behind) \in Nat BY <1>1, EndStages
<1>10. at[r] \in Int BY <1>3, <1>8, <1>9 DEF LastCall
<1>11. /\ Possible(Stage(r))
       /\ Stage(r) = "zero_grad" => LastPass(steps[r] + 1) - at[r] = PassesIn(steps[r] + 1)
       /\ Stage(r) = "backward" => LastPass(steps[r] + 1) - at[r] + 1 \in 1 .. PassesIn(steps[r] + 1)
  BY <1>1, <1>3, <1>4, StagesFollow
<1> QED BY <1>2, <1>5, <1>6, <1>8, <1>10, <1>11 DEF Remaining

Submits == {"first_submit", "submit", "submit_again"}

LEMMA StageOf ==
    ASSUME OptimizerTypeOK, NEW r \in Ranks, InPlace(r), NEW c \in Kinds, Doing(r, c)
    PROVE  /\ c = "submit" => Stage(r) \in Submits
           /\ c = "wait" => Stage(r) \in Waits
           /\ c = "apply" => Stage(r) \in {"apply", "last_apply"}
           /\ c \in {"set_passes", "zero_grad", "backward", "missing", "finish", "skip"} => Stage(r) = c
<1>1. Possible(Stage(r)) /\ CallOf(Stage(r)) = c BY DoingIs
<1>2. Stage(r) \in {"first_submit", "first_wait", "set_passes", "zero_grad", "backward", "submit",
                    "wait", "submit_again", "wait_again", "missing", "finish", "skip", "apply",
                    "last_apply"}
  BY <1>1 DEF Possible
<1> QED BY <1>1, <1>2 DEF CallOf, Waits, Submits, Kinds

\* A rank while another one acts: an operation of its own may become done.
Alone(q) ==
    /\ Stays(q) /\ hooks'[q] = hooks[q] /\ delay'[q] = delay[q] /\ order'[q] = order[q]
    /\ next'[q] = next[q] /\ grad'[q] = grad[q] /\ param'[q] = param[q]
    /\ touched'[q] = touched[q] /\ computed'[q] = computed[q] /\ failed'[q] = failed[q]
    /\ \A p \in Params : \/ handle'[q][p] = handle[q][p]
                         \/ handle[q][p] = "flying" /\ handle'[q][p] = "done"

LEMMA AloneKeeps ==
    ASSUME OptimizerTypeOK, program' = program, NEW q \in Ranks, Alone(q), RankOK(q)
    PROVE  RankOK(q)'
<1>1. /\ Stage(q)' = Stage(q) /\ Remaining(q)' = Remaining(q)
      /\ Announced(q)' = Announced(q)
  BY StageStays DEF Alone
<1>2. IsAdasum' = IsAdasum /\ ClosureLate' = ClosureLate /\ \A k : LastCall(k)' = LastCall(k)
  BY SameProgram
<1>3. InFlight(q)' = InFlight(q) BY DEF Alone, InFlight
<1>4. {p \in Params : handle[q][p] # "absent"}' = {p \in Params : handle[q][p] # "absent"}
  BY DEF Alone
<1>5. PlaceOK(q)' BY <1>1, <1>2 DEF PlaceOK, InPlace, RankOK, Alone, Stays
<1>6. KeysOK(q)'
  <2>1. KeysOK(q) /\ order'[q] = order[q] /\ next'[q] = next[q] BY DEF RankOK, Alone
  <2>2. order[q] \in Seq(Params) BY DEF OptimizerTypeOK
  <2>3. \A p \in Params : handle[q][p] = "done" => handle'[q][p] = "done" BY DEF Alone
  <2>4. Stage(q) \in Looping => \A i \in 1 .. next[q] - 1 : handle'[q][order[q][i]] = "done"
    <3> SUFFICES ASSUME Stage(q) \in Looping, NEW i \in 1 .. next[q] - 1
                 PROVE  handle'[q][order[q][i]] = "done"
      OBVIOUS
    <3>1. next[q] \in 1 .. Len(order[q]) /\ handle[q][order[q][i]] = "done" BY <2>1 DEF KeysOK
    <3>2. order[q][i] \in Params BY <2>2, <3>1
    <3> QED BY <2>3, <3>1, <3>2
  <2>5. ToSet(order[q]) = {p \in Params : handle[q][p] # "absent"}' BY <1>4, <2>1 DEF KeysOK
  <2> QED BY <1>1, <2>1, <2>4, <2>5 DEF KeysOK
<1>7. DelaysOK(q)'
  <2>1. DelaysOK(q) /\ order'[q] = order[q] /\ next'[q] = next[q] /\ delay'[q] = delay[q]
        /\ hooks'[q] = hooks[q]
    BY DEF RankOK, Alone
  <2> QED BY <1>1, <1>3, <2>1 DEF DelaysOK
<1>8. FaultsOK(q)'
  <2>1. FaultsOK(q) /\ failed'[q] = failed[q] BY DEF RankOK, Alone
  <2> QED BY <1>1, <1>2, <2>1 DEF FaultsOK
<1>9. TouchesOK(q)'
  <2>1. TouchesOK(q) /\ failed'[q] = failed[q] /\ touched'[q] = touched[q] /\ hooks'[q] = hooks[q]
    BY DEF RankOK, Alone
  <2> QED BY <1>2, <1>3, <2>1 DEF TouchesOK
<1> QED BY <1>5, <1>6, <1>7, <1>8, <1>9 DEF RankOK

\* What is left to show when rank r acts.
LEMMA OneActs ==
    ASSUME CallsInv, program' = program, NEW r \in Ranks, OptimizerTypeOK',
           \A q \in Ranks \ {r} : Alone(q), RankOK(r)', \A p \in Params : OperationOK(p)'
    PROVE  CallsInv'
<1>1. \A q \in Ranks : RankOK(q)'
  <2> TAKE q \in Ranks
  <2>1. CASE q = r BY <2>1
  <2>2. CASE q # r BY <2>2, AloneKeeps DEF CallsInv
  <2> QED BY <2>1, <2>2
<1> QED BY <1>1 DEF CallsInv

\* Operations while a handle is neither begun nor waited for.
LEMMA NothingStarts ==
    ASSUME \A p \in Params : OperationOK(p), submitted' = submitted,
           \A q \in Ranks : \A p \in Params : \/ handle'[q][p] = handle[q][p]
                                              \/ handle[q][p] # "flying" /\ handle'[q][p] # "flying"
    PROVE  \A p \in Params : OperationOK(p)'
BY DEF OperationOK

LEMMA AsyncOperations ==
    ASSUME OptimizerTypeOK, \A p \in Params : OperationOK(p),
           NEW r \in Ranks, NEW p \in Params, NEW g \in [Ranks -> Nat], Async(r, p, g)
    PROVE  /\ \A x \in Params : OperationOK(x)'
           /\ \A q \in Ranks \ {r} : \A x \in Params :
                 \/ handle'[q][x] = handle[q][x]
                 \/ handle[q][x] = "flying" /\ handle'[q][x] = "done"
           /\ handle'[r][p] \in {"flying", "done"}
           /\ \A x \in Params \ {p} : handle'[r][x] = handle[r][x]
<1>1. g # NoValue BY NoValueIsNone
<1>2. \A x \in Params \ {p} : OperationOK(x)' BY DEF Async, OperationOK
<1>3. CASE Awaits(r, p, g) BY <1>1, <1>2, <1>3 DEF Awaits, OperationOK, Async
<1>4. CASE Performed(r, p, g)
  <2>1. OperationOK(p)' BY <1>4, SizeAssumption DEF Performed, OperationOK
  <2>2. \A q \in Ranks \ {r} : handle[q][p] = "flying" BY <1>4 DEF Performed, OperationOK
  <2> QED BY <1>2, <1>4, <2>1, <2>2 DEF Performed, Async
<1> QED BY <1>3, <1>4 DEF Async

\* The keys of the handles after a hook or a submission.
LEMMA OneMoreKey ==
    ASSUME OptimizerTypeOK, NEW r \in Ranks, NEW p \in Params, KeysOK(r),
           order'[r] = IF handle[r][p] = "absent" THEN Append(order[r], p) ELSE order[r],
           handle'[r][p] # "absent", \A x \in Params \ {p} : handle'[r][x] = handle[r][x]
    PROVE  IsInjective(order'[r]) /\ ToSet(order'[r]) = {x \in Params : handle'[r][x] # "absent"}
<1>1. order[r] \in Seq(Params) /\ IsInjective(order[r])
      /\ ToSet(order[r]) = {x \in Params : handle[r][x] # "absent"}
  BY DEF OptimizerTypeOK, KeysOK
<1>2. CASE handle[r][p] = "absent"
  <2>1. p \notin ToSet(order[r]) BY <1>1, <1>2
  <2>2. ToSet(Append(order[r], p)) = ToSet(order[r]) \cup {p}
        /\ IsInjective(Append(order[r], p))
    BY <1>1, <2>1, AppendSet
  <2> QED BY <1>1, <1>2, <2>2
<1>3. CASE handle[r][p] # "absent" BY <1>1, <1>3
<1> QED BY <1>2, <1>3

-----------------------------------------------------------------------------
(* The steps of a rank keep the invariant of the calls.                    *)

LEMMA ForwardCalls ==
    ASSUME CallsInv, NEW r \in Ranks, Forward(r)
    PROVE  CallsInv'
<1>0. OptimizerTypeOK /\ RankOK(r) /\ InPlace(r) /\ Doing(r, "backward") /\ hooks[r] = {}
  BY DEF CallsInv, RankOK, PlaceOK, Forward
<1>1. PICK used \in Uses :
        /\ hooks' = [hooks EXCEPT ![r] = used]
        /\ touched' = IF IsAdasum THEN [touched EXCEPT ![r] = @ \cup (used \cap InFlight(r))]
                      ELSE touched
  BY DEF Forward
<1>2. /\ program' = program /\ steps' = steps /\ at' = at /\ delay' = delay /\ handle' = handle
      /\ order' = order /\ next' = next /\ grad' = grad /\ submitted' = submitted
      /\ output' = output /\ param' = param /\ computed' = computed /\ failed' = failed
  BY DEF Forward
<1>3. used \in SUBSET Params /\ used # {} BY UsesAssumption
<1>4. Stage(r) = "backward" /\ failed[r] = "no" BY <1>0, DoingIs, StageOf DEF Kinds
<1>5. hooks \in [Ranks -> SUBSET Params] /\ touched \in [Ranks -> SUBSET Params]
  BY <1>0 DEF OptimizerTypeOK
<1>6. hooks' \in [Ranks -> SUBSET Params] /\ hooks'[r] = used
      /\ \A q \in Ranks \ {r} : hooks'[q] = hooks[q]
  BY <1>1, <1>3, <1>5
<1>7. /\ touched' \in [Ranks -> SUBSET Params]
      /\ touched'[r] \subseteq touched[r] \cup (used \cap InFlight(r))
      /\ \A q \in Ranks \ {r} : touched'[q] = touched[q]
  BY <1>1, <1>3, <1>5
<1>8. OptimizerTypeOK' BY <1>0, <1>2, <1>6, <1>7 DEF OptimizerTypeOK
<1>9. \A q \in Ranks \ {r} : Alone(q) BY <1>2, <1>6, <1>7 DEF Alone, Stays
<1>10. \A p \in Params : OperationOK(p)' BY <1>2, NothingStarts DEF CallsInv
<1>11. /\ Stage(r)' = Stage(r) /\ Remaining(r)' = Remaining(r) /\ Announced(r)' = Announced(r)
       /\ IsAdasum' = IsAdasum /\ ClosureLate' = ClosureLate /\ \A k : LastCall(k)' = LastCall(k)
       /\ InFlight(r)' = InFlight(r)
  BY <1>2, StageStays, SameProgram DEF Stays, InFlight
<1>12. PlaceOK(r)' BY <1>0, <1>2, <1>4, <1>11 DEF PlaceOK, InPlace
<1>13. KeysOK(r)' BY <1>0, <1>2, <1>11 DEF KeysOK, RankOK
<1>14. DelaysOK(r)'
  <2>1. DelaysOK(r) BY <1>0 DEF RankOK
  <2>2. delay \in [Ranks -> [Params -> Nat]] /\ Remaining(r) \in Nat
    <3>1. Remaining(r) \in 1 .. PassesIn(steps[r] + 1) /\ PassesIn(steps[r] + 1) \in Nat
      BY <1>0, <1>4, DoingIs
    <3> QED BY <1>0, <3>1 DEF OptimizerTypeOK
  <2>3. program.extra <= 0 => \A p \in Params : delay[r][p] >= Remaining(r)
    BY <1>0, <1>4, <2>1 DEF DelaysOK
  <2>4. program.extra <= 0 => \A p \in Params : delay[r][p] >= Remaining(r) - 1
    BY <2>2, <2>3
  <2>5. \A p \in InFlight(r) : delay[r][p] = 0 BY <1>4, <2>1 DEF DelaysOK
  <2> QED BY <1>2, <1>4, <1>11, <2>3, <2>4, <2>5 DEF DelaysOK, Looping, Waits
<1>15. FaultsOK(r)' BY <1>2, <1>4 DEF FaultsOK
<1>16. TouchesOK(r)'
  <2>1. ClosureLate \/ touched[r] = {} BY <1>0, <1>4 DEF TouchesOK, RankOK
  <2>2. ClosureLate \/ touched'[r] \subseteq used \cap InFlight(r) BY <1>7, <2>1
  <2> QED BY <1>6, <1>11, <2>2 DEF TouchesOK
<1> QED BY <1>2, <1>8, <1>9, <1>10, <1>12, <1>13, <1>14, <1>15, <1>16, OneActs DEF RankOK

\* A rank that is ended by an exception in its place.
LEMMA Ended ==
    ASSUME OptimizerTypeOK, NEW r \in Ranks, RankOK(r), program' = program, Stays(r),
           delay'[r] = delay[r], handle'[r] = handle[r], order'[r] = order[r], next'[r] = next[r],
           hooks'[r] \subseteq hooks[r], hooks'[r] = hooks[r] \/ program.extra > 0,
           FaultsOK(r)', TouchesOK(r)'
    PROVE  RankOK(r)'
<1>1. /\ Stage(r)' = Stage(r) /\ Remaining(r)' = Remaining(r) /\ Announced(r)' = Announced(r)
      /\ \A k : LastCall(k)' = LastCall(k)
  BY StageStays, SameProgram
<1>2. InFlight(r)' = InFlight(r) BY DEF InFlight
<1>3. PlaceOK(r)' BY <1>1 DEF PlaceOK, InPlace, RankOK, Stays
<1>4. KeysOK(r)' BY <1>1 DEF KeysOK, RankOK
<1>5. DelaysOK(r)'
  <2>1. DelaysOK(r) BY DEF RankOK
  <2>2. program.extra \in Int BY ProgramsAssumption DEF OptimizerTypeOK, ProgramType
  <2>3. CASE hooks'[r] = hooks[r] BY <1>1, <1>2, <2>1, <2>3 DEF DelaysOK
  <2>4. CASE program.extra > 0
    <3>1. ~(program.extra <= 0) BY <2>2, <2>4
    <3> QED BY <1>1, <1>2, <2>1, <3>1 DEF DelaysOK
  <2> QED BY <2>3, <2>4
<1> QED BY <1>3, <1>4, <1>5 DEF RankOK

-----------------------------------------------------------------------------
(* Hooks.                                                                  *)

LEMMA AddsPass ==
    ASSUME OptimizerTypeOK, NEW r \in Ranks, NEW p \in Params
    PROVE  /\ Plus(grad[r][p], Pass(r)) \in [Ranks -> Nat]
           /\ [grad EXCEPT ![r][p] = Plus(grad[r][p], Pass(r))] \in [Ranks -> [Params -> [Ranks -> Nat]]]
           /\ \A q \in Ranks : Plus(grad[r][p], Pass(r))[q]
                                 = IF q = r THEN grad[r][p][q] + Unit ELSE grad[r][p][q]
<1>1. grad \in [Ranks -> [Params -> [Ranks -> Nat]]] BY DEF OptimizerTypeOK
<1>2. Unit \in Nat BY SizeAssumption DEF Unit
<1>3. \A q \in Ranks : Pass(r)[q] = IF q = r THEN Unit ELSE 0 BY DEF Pass, Unit
<1>4. \A q \in Ranks : Plus(grad[r][p], Pass(r))[q] = grad[r][p][q] + Pass(r)[q] BY DEF Plus
<1>5. Plus(grad[r][p], Pass(r)) = [q \in Ranks |-> Plus(grad[r][p], Pass(r))[q]] BY DEF Plus
<1>6. \A q \in Ranks : grad[r][p][q] \in Nat BY <1>1
<1>7. \A q \in Ranks : Plus(grad[r][p], Pass(r))[q]
                          = IF q = r THEN grad[r][p][q] + Unit ELSE grad[r][p][q]
  BY <1>3, <1>4, <1>6
<1>8. \A q \in Ranks : Plus(grad[r][p], Pass(r))[q] \in Nat BY <1>2, <1>6, <1>7
<1>9. Plus(grad[r][p], Pass(r)) \in [Ranks -> Nat] BY <1>5, <1>8
<1> QED BY <1>1, <1>7, <1>9

\* A hook that finds no delay left.
LEMMA HookFailsCalls ==
    ASSUME CallsInv, NEW r \in Ranks, NEW p \in Params, Hook(r, p), delay[r][p] <= 0
    PROVE  CallsInv'
<1>0. OptimizerTypeOK /\ RankOK(r) /\ InPlace(r) /\ Doing(r, "backward") /\ p \in hooks[r]
  BY DEF CallsInv, RankOK, PlaceOK, Hook
<1>1. /\ grad' = [grad EXCEPT ![r][p] = Plus(grad[r][p], Pass(r))]
      /\ computed' = [computed EXCEPT ![r][p] = @ + 1]
      /\ touched' = IF p \in InFlight(r) THEN [touched EXCEPT ![r] = @ \cup {p}] ELSE touched
      /\ hooks' = [hooks EXCEPT ![r] = @ \ {p}]
      /\ failed' = [failed EXCEPT ![r] = "too_many_passes"]
      /\ program' = program /\ steps' = steps /\ at' = at /\ delay' = delay /\ handle' = handle
      /\ order' = order /\ next' = next /\ submitted' = submitted
      /\ output' = output /\ param' = param
  BY DEF Hook, Raise
<1>2. Stage(r) = "backward" BY <1>0, StageOf DEF Kinds
<1>3. OptimizerTypeOK'
  <2>1. grad' \in [Ranks -> [Params -> [Ranks -> Nat]]] BY <1>0, <1>1, AddsPass
  <2>2. computed' \in [Ranks -> [Params -> Nat]] BY <1>0, <1>1 DEF OptimizerTypeOK
  <2>3. touched' \in [Ranks -> SUBSET Params] /\ hooks' \in [Ranks -> SUBSET Params]
    BY <1>0, <1>1 DEF OptimizerTypeOK
  <2>4. failed' \in [Ranks -> {"no", "too_many_passes", "dtype", "zero_grad", "skip"}]
    BY <1>0, <1>1 DEF OptimizerTypeOK
  <2> QED BY <1>0, <1>1, <2>1, <2>2, <2>3, <2>4 DEF OptimizerTypeOK
<1>4. \A q \in Ranks \ {r} : Alone(q) BY <1>0, <1>1 DEF Alone, Stays, OptimizerTypeOK
<1>5. \A x \in Params : OperationOK(x)' BY <1>1, NothingStarts DEF CallsInv
<1>6. /\ Stage(r)' = Stage(r) /\ hooks'[r] \subseteq hooks[r] /\ failed'[r] = "too_many_passes"
  BY <1>0, <1>1, StageStays DEF Stays, OptimizerTypeOK
<1>7. program.extra > 0
  <2>1. Remaining(r) \in 1 .. PassesIn(steps[r] + 1) /\ PassesIn(steps[r] + 1) \in Nat
    BY <1>0, <1>2, DoingIs
  <2>2. program.extra \in Int BY <1>0, ProgramsAssumption DEF OptimizerTypeOK, ProgramType
  <2>3. program.extra <= 0 => delay[r][p] >= Remaining(r) BY <1>0, <1>2 DEF RankOK, DelaysOK
  <2>4. delay[r][p] \in Nat BY <1>0 DEF OptimizerTypeOK
  <2> QED BY <2>1, <2>2, <2>3, <2>4
<1>8. FaultsOK(r)' BY <1>1, <1>2, <1>6, <1>7 DEF FaultsOK
<1>9. TouchesOK(r)' BY <1>6 DEF TouchesOK
<1>10. RankOK(r)' BY <1>0, <1>1, <1>6, <1>7, <1>8, <1>9, Ended DEF Stays
<1> QED BY <1>1, <1>3, <1>4, <1>5, <1>10, OneActs

\* What a hook does that finds some delay left.
Counted(r, p) ==
    /\ p \notin InFlight(r) /\ touched' = touched /\ failed[r] = "no" /\ failed' = failed
    /\ hooks'[r] = hooks[r] \ {p} /\ delay[r][p] \in Nat \ {0} /\ delay'[r][p] = delay[r][p] - 1
    /\ \A x \in Params \ {p} : delay'[r][x] = delay[r][x] /\ handle'[r][x] = handle[r][x]
    /\ handle'[r][p] \in IF delay[r][p] = 1 THEN {"flying", "done"} ELSE {"none"}
    /\ order'[r] = IF handle[r][p] = "absent" THEN Append(order[r], p) ELSE order[r]
    /\ next' = next /\ program' = program

LEMMA CountedRank ==
    ASSUME CallsInv, NEW r \in Ranks, NEW p \in Params, p \in hooks[r], Doing(r, "backward"),
           Counted(r, p), next' \in [Ranks -> Nat],
           IF hooks[r] = {p} THEN Return(r) ELSE at' = at /\ steps' = steps
    PROVE  RankOK(r)' /\ InPlace(r)'
<1>0. OptimizerTypeOK /\ RankOK(r) /\ InPlace(r) BY DEF CallsInv, RankOK, PlaceOK
<1>1. /\ Stage(r) = "backward" /\ steps[r] < MaxSteps
      /\ Remaining(r) \in 1 .. PassesIn(steps[r] + 1) /\ PassesIn(steps[r] + 1) \in Nat
      /\ Possible(Stage(r))
  BY <1>0, StageOf, DoingIs DEF Kinds
<1>2. program' = program /\ Remaining(r) \in Nat \ {0} BY <1>1 DEF Counted
<1>3. /\ hooks[r] = {p} => Proceeds(r)
      /\ hooks[r] # {p} => Stage(r)' = Stage(r) /\ Remaining(r)' = Remaining(r)
      /\ InPlace(r)'
  <2>1. CASE hooks[r] = {p} BY <1>0, <1>1, <1>2, <2>1, Returned
  <2>2. CASE hooks[r] # {p}
    <3>1. Stays(r) /\ at' = at /\ steps' = steps BY <2>2 DEF Stays
    <3> QED BY <1>0, <1>2, <2>2, <3>1, StageStays, SameProgram DEF InPlace
  <2> QED BY <2>1, <2>2
<1>4. /\ hooks[r] = {p} => hooks'[r] = {}
      /\ hooks[r] # {p} => hooks'[r] # {}
  BY DEF Counted
<1>5. /\ Stage(r)' \in {"backward", "last_apply", "skip", "missing", "submit"}
      /\ Stage(r)' = "backward" => Remaining(r)' = IF hooks[r] = {p} THEN Remaining(r) - 1
                                                   ELSE Remaining(r)
      /\ hooks[r] # {p} => Stage(r)' = "backward"
  <2>1. CASE hooks[r] = {p}
    <3>1. Follow("backward", Stage(r)', Remaining(r)) /\ Remaining(r)' = Remaining(r) - 1
      BY <1>1, <1>3, <2>1 DEF Proceeds, Ends
    <3>2. Stage(r)' = IF Remaining(r) > 1 THEN "backward" ELSE AfterPasses
      BY <3>1 DEF Follow
    <3> QED BY <2>1, <3>1, <3>2 DEF AfterPasses
  <2>2. CASE hooks[r] # {p} BY <1>1, <1>3, <2>2
  <2> QED BY <2>1, <2>2
<1>6. PlaceOK(r)' BY <1>3, <1>4, <1>5 DEF PlaceOK
<1>7. KeysOK(r)'
  <2>1. KeysOK(r) /\ next[r] = 1 BY <1>0, <1>1 DEF RankOK, KeysOK, Looping, Waits
  <2>2. handle'[r][p] # "absent" BY DEF Counted
  <2>3. IsInjective(order'[r]) /\ ToSet(order'[r]) = {x \in Params : handle'[r][x] # "absent"}
    BY <1>0, <2>1, <2>2, OneMoreKey DEF Counted
  <2>4. next'[r] = 1 BY <2>1 DEF Counted
  <2> QED BY <1>5, <2>3, <2>4 DEF KeysOK, Looping, Waits
<1>8. DelaysOK(r)'
  <2>1. DelaysOK(r) /\ delay \in [Ranks -> [Params -> Nat]] BY <1>0 DEF RankOK, OptimizerTypeOK
  <2>2. \A x \in InFlight(r)' : delay'[r][x] = 0
    <3> TAKE x \in InFlight(r)'
    <3>1. x \in Params /\ handle'[r][x] \in {"flying", "done"} BY DEF InFlight
    <3>2. CASE x = p
      <4>1. delay[r][p] = 1 BY <3>1, <3>2 DEF Counted
      <4> QED BY <3>2, <4>1 DEF Counted
    <3>3. CASE x # p
      <4>1. x \in InFlight(r) BY <3>1, <3>3 DEF InFlight, Counted
      <4>2. delay[r][x] = 0 BY <1>1, <2>1, <4>1 DEF DelaysOK
      <4> QED BY <3>1, <3>3, <4>2 DEF Counted
    <3> QED BY <3>2, <3>3
  <2>3. ASSUME program.extra <= 0, NEW x \in Params, Stage(r)' = "backward"
        PROVE  delay'[r][x] >= IF hooks'[r] = {} \/ x \in hooks'[r] THEN Remaining(r)'
                               ELSE Remaining(r)' - 1
    <3>1. delay[r][x] >= IF hooks[r] = {} \/ x \in hooks[r] THEN Remaining(r) ELSE Remaining(r) - 1
      BY <1>1, <2>1, <2>3 DEF DelaysOK
    <3>2. delay[r][x] \in Nat BY <2>1
    <3>3. delay'[r][x] = IF x = p THEN delay[r][x] - 1 ELSE delay[r][x] BY <2>3 DEF Counted
    <3>4. hooks'[r] = hooks[r] \ {p} BY DEF Counted
    <3>5. CASE hooks[r] = {p}
      <4>1. Remaining(r)' = Remaining(r) - 1 BY <1>5, <2>3, <3>5
      <4>2. x = p \/ x \notin hooks[r] BY <3>5
      <4>3. delay'[r][x] >= Remaining(r) - 1 BY <1>2, <3>1, <3>2, <3>3, <3>5, <4>2
      <4> QED BY <1>2, <3>2, <3>3, <4>1, <4>3
    <3>6. CASE hooks[r] # {p}
      <4>1. Remaining(r)' = Remaining(r) BY <1>5, <2>3, <3>6
      <4>2. hooks[r] # {} /\ hooks'[r] # {} BY <1>4, <3>6
      <4>3. x \in hooks'[r] <=> x \in hooks[r] /\ x # p BY <3>4
      <4> QED BY <1>2, <3>1, <3>2, <3>3, <4>1, <4>2, <4>3
    <3> QED BY <3>5, <3>6
  <2>4. program'.extra = program.extra BY <1>2
  <2> QED BY <1>5, <2>2, <2>3, <2>4 DEF DelaysOK, Looping, Waits
<1>9. FaultsOK(r)' BY <1>2 DEF FaultsOK, Counted
<1>10. TouchesOK(r)'
  <2>1. ClosureLate \/ touched[r] \subseteq hooks[r] \cap InFlight(r)
    BY <1>0 DEF RankOK, TouchesOK, Counted
  <2>2. InFlight(r) \subseteq InFlight(r)' BY DEF InFlight, Counted
  <2>3. ClosureLate' = ClosureLate BY <1>2, SameProgram
  <2>4. touched'[r] = touched[r] /\ hooks'[r] = hooks[r] \ {p} /\ p \notin InFlight(r)
    BY DEF Counted
  <2> QED BY <2>1, <2>2, <2>3, <2>4 DEF TouchesOK
<1> QED BY <1>3, <1>6, <1>7, <1>8, <1>9, <1>10 DEF RankOK

LEMMA HookCalls ==
    ASSUME CallsInv, NEW r \in Ranks, NEW p \in Params, Hook(r, p), ~(delay[r][p] <= 0)
    PROVE  CallsInv' /\ Counted(r, p) /\ (delay[r][p] = 1 => Async(r, p, Plus(grad[r][p], Pass(r))))
<1> DEFINE g == Plus(grad[r][p], Pass(r))
<1>0. OptimizerTypeOK /\ RankOK(r) /\ InPlace(r) /\ Doing(r, "backward") /\ p \in hooks[r]
  BY DEF CallsInv, RankOK, PlaceOK, Hook
<1>1. /\ grad' = [grad EXCEPT ![r][p] = g]
      /\ computed' = [computed EXCEPT ![r][p] = @ + 1]
      /\ touched' = IF p \in InFlight(r) THEN [touched EXCEPT ![r] = @ \cup {p}] ELSE touched
      /\ hooks' = [hooks EXCEPT ![r] = @ \ {p}]
      /\ delay' = [delay EXCEPT ![r][p] = @ - 1]
      /\ program' = program /\ next' = next /\ param' = param /\ failed' = failed
      /\ IF hooks[r] = {p} THEN Return(r) ELSE at' = at /\ steps' = steps
  BY DEF Hook
<1>2. /\ delay[r][p] = 1 => AllreduceAsync(r, p, g)
      /\ delay[r][p] # 1 =>
            /\ handle' = [handle EXCEPT ![r][p] = "none"]
            /\ order' = [order EXCEPT ![r] = IF handle[r][p] = "absent" THEN Append(@, p) ELSE @]
            /\ submitted' = submitted /\ output' = output
  BY DEF Hook
<1>3. g \in [Ranks -> Nat] /\ grad' \in [Ranks -> [Params -> [Ranks -> Nat]]]
  BY <1>0, <1>1, AddsPass
<1> HIDE DEF g
<1>4. /\ Stage(r) = "backward" /\ failed[r] = "no" /\ steps[r] < MaxSteps
  BY <1>0, StageOf, DoingIs DEF Kinds
<1>5. delay[r][p] \in Nat \ {0}
  <2>1. delay[r][p] \in Nat BY <1>0 DEF OptimizerTypeOK
  <2> QED BY <2>1
<1>6. p \notin InFlight(r) BY <1>0, <1>4, <1>5 DEF RankOK, DelaysOK
<1>7. \A x \in Params : OperationOK(x) BY DEF CallsInv
<1>8. /\ handle \in [Ranks -> [Params -> HandleType]] /\ order \in [Ranks -> Seq(Params)]
      /\ delay \in [Ranks -> [Params -> Nat]]
  BY <1>0 DEF OptimizerTypeOK, HandleType
<1>9. /\ order' \in [Ranks -> Seq(Params)] /\ handle' \in [Ranks -> [Params -> HandleType]]
      /\ submitted' \in [Params -> [Ranks -> {NoValue} \cup [Ranks -> Nat]]]
      /\ output' \in [Ranks -> [Params -> [Ranks -> Nat]]]
      /\ \A q \in Ranks \ {r} : order'[q] = order[q]
      /\ order'[r] = IF handle[r][p] = "absent" THEN Append(order[r], p) ELSE order[r]
      /\ \A x \in Params : OperationOK(x)'
      /\ \A q \in Ranks \ {r} : \A x \in Params :
            handle'[q][x] = handle[q][x] \/ (handle[q][x] = "flying" /\ handle'[q][x] = "done")
      /\ handle'[r][p] \in IF delay[r][p] = 1 THEN {"flying", "done"} ELSE {"none"}
      /\ \A x \in Params \ {p} : handle'[r][x] = handle[r][x]
      /\ delay[r][p] = 1 => Async(r, p, g)
  <2>1. CASE delay[r][p] = 1
    <3>1. /\ Async(r, p, g)
          /\ submitted' \in [Params -> [Ranks -> {NoValue} \cup [Ranks -> Nat]]]
          /\ handle' \in [Ranks -> [Params -> HandleType]]
          /\ output' \in [Ranks -> [Params -> [Ranks -> Nat]]]
          /\ order' \in [Ranks -> Seq(Params)]
      BY <1>0, <1>2, <1>3, <2>1, AsyncIs
    <3>2. /\ \A x \in Params : OperationOK(x)'
          /\ \A q \in Ranks \ {r} : \A x \in Params :
                 \/ handle'[q][x] = handle[q][x]
                 \/ handle[q][x] = "flying" /\ handle'[q][x] = "done"
          /\ handle'[r][p] \in {"flying", "done"}
          /\ \A x \in Params \ {p} : handle'[r][x] = handle[r][x]
      BY <1>0, <1>3, <1>7, <3>1, AsyncOperations
    <3>3. /\ order'[r] = IF handle[r][p] = "absent" THEN Append(order[r], p) ELSE order[r]
          /\ \A q \in Ranks \ {r} : order'[q] = order[q]
      BY <3>1 DEF Async
    <3> QED BY <2>1, <3>1, <3>2, <3>3
  <2>2. CASE delay[r][p] # 1
    <3>1. /\ handle' = [handle EXCEPT ![r][p] = "none"]
          /\ order' = [order EXCEPT ![r] = IF handle[r][p] = "absent" THEN Append(@, p) ELSE @]
          /\ submitted' = submitted /\ output' = output
      BY <1>2, <2>2
    <3>2. /\ handle' \in [Ranks -> [Params -> HandleType]] /\ handle'[r][p] = "none"
          /\ \A x \in Params \ {p} : handle'[r][x] = handle[r][x]
          /\ \A q \in Ranks \ {r} : handle'[q] = handle[q]
      BY <1>8, <3>1 DEF HandleType
    <3>3. /\ order' \in [Ranks -> Seq(Params)]
          /\ \A q \in Ranks \ {r} : order'[q] = order[q]
          /\ order'[r] = IF handle[r][p] = "absent" THEN Append(order[r], p) ELSE order[r]
      <4>1. Append(order[r], p) \in Seq(Params) BY <1>8
      <4> QED BY <1>8, <3>1, <4>1
    <3>4. handle[r][p] # "flying" BY <1>6 DEF InFlight
    <3>5. \A q \in Ranks : \A x \in Params :
            handle'[q][x] = handle[q][x] \/ (handle[q][x] # "flying" /\ handle'[q][x] # "flying")
      <4> TAKE q \in Ranks
      <4> TAKE x \in Params
      <4>1. CASE q # r BY <3>2, <4>1
      <4>2. CASE q = r /\ x # p BY <3>2, <4>2
      <4>3. CASE q = r /\ x = p BY <3>2, <3>4, <4>3
      <4> QED BY <4>1, <4>2, <4>3
    <3>6. \A x \in Params : OperationOK(x)' BY <1>7, <3>1, <3>5, NothingStarts
    <3> QED BY <1>0, <2>2, <3>1, <3>2, <3>3, <3>6 DEF OptimizerTypeOK
  <2> QED BY <2>1, <2>2
<1>10. /\ hooks'[r] = hooks[r] \ {p} /\ \A q \in Ranks \ {r} : hooks'[q] = hooks[q]
       /\ hooks' \in [Ranks -> SUBSET Params]
  BY <1>0, <1>1 DEF OptimizerTypeOK
<1>11. /\ delay' \in [Ranks -> [Params -> Nat]] /\ delay'[r][p] = delay[r][p] - 1
       /\ \A x \in Params \ {p} : delay'[r][x] = delay[r][x]
       /\ \A q \in Ranks \ {r} : delay'[q] = delay[q]
  <2>1. delay[r][p] - 1 \in Nat BY <1>5
  <2> QED BY <1>1, <1>8, <2>1
<1>12. Counted(r, p) BY <1>1, <1>4, <1>5, <1>6, <1>9, <1>10, <1>11 DEF Counted
<1>13. next' \in [Ranks -> Nat] BY <1>0, <1>1 DEF OptimizerTypeOK
<1>14. RankOK(r)' BY <1>0, <1>1, <1>12, <1>13, CountedRank
<1>15. /\ at' \in [Ranks -> Nat] /\ steps' \in [Ranks -> 0 .. MaxSteps]
       /\ \A q \in Ranks \ {r} : Stays(q)
  <2>1. CASE hooks[r] = {p} BY <1>0, <1>1, <1>4, <2>1, Returned
  <2>2. CASE hooks[r] # {p} BY <1>0, <1>1, <2>2 DEF Stays, OptimizerTypeOK
  <2> QED BY <2>1, <2>2
<1>16. /\ computed' \in [Ranks -> [Params -> Nat]] /\ \A q \in Ranks \ {r} : computed'[q] = computed[q]
       /\ \A q \in Ranks \ {r} : grad'[q] = grad[q]
  <2>1. computed \in [Ranks -> [Params -> Nat]] /\ grad \in [Ranks -> [Params -> [Ranks -> Nat]]]
    BY <1>0 DEF OptimizerTypeOK
  <2>2. computed[r][p] + 1 \in Nat BY <2>1
  <2>3. computed' = [computed EXCEPT ![r][p] = @ + 1] /\ grad' = [grad EXCEPT ![r][p] = g] BY <1>1
  <2>4. computed' \in [Ranks -> [Params -> Nat]] BY <2>1, <2>2, <2>3
  <2>5. \A q \in Ranks \ {r} : computed'[q] = computed[q] /\ grad'[q] = grad[q] BY <2>1, <2>3
  <2> QED BY <2>4, <2>5
<1>17. OptimizerTypeOK'
  <2>1. touched' = touched /\ failed' = failed /\ program' = program /\ param' = param
    BY <1>1, <1>12 DEF Counted
  <2>2. /\ program' \in Programs /\ touched' \in [Ranks -> SUBSET Params]
        /\ param' \in [Ranks -> [Params -> [Ranks -> Nat]]]
        /\ failed' \in [Ranks -> {"no", "too_many_passes", "dtype", "zero_grad", "skip"}]
    BY <1>0, <2>1 DEF OptimizerTypeOK
  <2> QED BY <1>3, <1>9, <1>10, <1>11, <1>13, <1>15, <1>16, <2>2 DEF OptimizerTypeOK, HandleType
<1>18. \A q \in Ranks \ {r} : Alone(q)
  <2>1. touched' = touched BY <1>12 DEF Counted
  <2> QED BY <1>1, <1>9, <1>10, <1>11, <1>15, <1>16, <2>1 DEF Alone
<1>19. CallsInv' BY <1>1, <1>9, <1>14, <1>17, <1>18, OneActs
<1> QED BY <1>9, <1>12, <1>19 DEF g

-----------------------------------------------------------------------------
(* Submissions.                                                            *)

\* A rank that submits p in its place.
LEMMA SubmitsCalls ==
    ASSUME CallsInv, NEW r \in Ranks, NEW p \in Params, NEW g \in [Ranks -> Nat],
           AllreduceAsync(r, p, g), handle[r][p] \in {"absent", "none"},
           Stage(r) \in Submits \cup {"missing"} \/ (Stage(r) = "finish" /\ handle[r][p] = "none"),
           program' = program, steps' = steps, at' = at, hooks' = hooks, delay' = delay,
           next' = next, grad' = grad, param' = param, touched' = touched, computed' = computed,
           failed' = failed
    PROVE  CallsInv' /\ Async(r, p, g)
<1>0. OptimizerTypeOK /\ RankOK(r) /\ \A x \in Params : OperationOK(x) BY DEF CallsInv
<1>1. /\ Async(r, p, g)
      /\ submitted' \in [Params -> [Ranks -> {NoValue} \cup [Ranks -> Nat]]]
      /\ handle' \in [Ranks -> [Params -> HandleType]]
      /\ output' \in [Ranks -> [Params -> [Ranks -> Nat]]]
      /\ order' \in [Ranks -> Seq(Params)]
  BY <1>0, AsyncIs
<1>2. /\ \A x \in Params : OperationOK(x)'
      /\ \A q \in Ranks \ {r} : \A x \in Params :
             \/ handle'[q][x] = handle[q][x]
             \/ handle[q][x] = "flying" /\ handle'[q][x] = "done"
      /\ handle'[r][p] \in {"flying", "done"}
      /\ \A x \in Params \ {p} : handle'[r][x] = handle[r][x]
  BY <1>0, <1>1, AsyncOperations
<1>3. /\ order'[r] = IF handle[r][p] = "absent" THEN Append(order[r], p) ELSE order[r]
      /\ \A q \in Ranks \ {r} : order'[q] = order[q]
  BY <1>1 DEF Async
<1>4. OptimizerTypeOK' BY <1>0, <1>1 DEF OptimizerTypeOK, HandleType
<1>5. \A q \in Ranks \ {r} : Alone(q) BY <1>2, <1>3 DEF Alone, Stays
<1>6. /\ Stage(r)' = Stage(r) /\ Remaining(r)' = Remaining(r) /\ Announced(r)' = Announced(r)
      /\ IsAdasum' = IsAdasum /\ ClosureLate' = ClosureLate /\ \A k : LastCall(k)' = LastCall(k)
  BY StageStays, SameProgram DEF Stays
<1>7. InFlight(r) \subseteq InFlight(r)' BY <1>2 DEF InFlight
<1>8. PlaceOK(r)' BY <1>0, <1>6 DEF RankOK, PlaceOK, InPlace
<1>9. KeysOK(r)'
  <2>1. KeysOK(r) BY <1>0 DEF RankOK
  <2>2. IsInjective(order'[r]) /\ ToSet(order'[r]) = {x \in Params : handle'[r][x] # "absent"}
    BY <1>0, <1>2, <1>3, <2>1, OneMoreKey
  <2>3. CASE Stage(r) \in Submits \cup {"missing"}
    BY <1>6, <2>1, <2>2, <2>3 DEF KeysOK, Looping, Waits, Submits
  <2>4. CASE Stage(r) = "finish" /\ handle[r][p] = "none"
    <3>1. order'[r] = order[r] BY <1>3, <2>4
    <3>2. order[r] \in Seq(Params) BY <1>0 DEF OptimizerTypeOK
    <3>3. /\ ToSet(order[r]) = Params /\ next[r] \in 1 .. Len(order[r])
          /\ \A i \in 1 .. next[r] - 1 : handle[r][order[r][i]] = "done"
      BY <2>1, <2>4 DEF KeysOK, Looping
    <3>4. \A i \in 1 .. next[r] - 1 : order[r][i] \in Params BY <3>2, <3>3
    <3>5. \A i \in 1 .. next[r] - 1 : handle'[r][order[r][i]] = "done"
      BY <1>2, <2>4, <3>3, <3>4
    <3> QED BY <1>6, <2>2, <2>4, <3>1, <3>3, <3>5 DEF KeysOK, Looping, Waits
  <2> QED BY <2>3, <2>4
<1>10. DelaysOK(r)'
  <2>1. DelaysOK(r) BY <1>0 DEF RankOK
  <2>2. CASE Stage(r) \in Submits \cup {"missing"}
    BY <1>6, <2>1, <2>2 DEF DelaysOK, Looping, Waits, Submits
  <2>3. CASE Stage(r) = "finish" /\ handle[r][p] = "none"
    <3>1. order'[r] = order[r] BY <1>3, <2>3
    <3> QED BY <1>6, <2>1, <2>3, <3>1 DEF DelaysOK, Looping, Waits
  <2> QED BY <2>2, <2>3
<1>11. FaultsOK(r)' BY <1>0, <1>6 DEF RankOK, FaultsOK
<1>12. TouchesOK(r)' BY <1>0, <1>6, <1>7 DEF RankOK, TouchesOK
<1>13. RankOK(r)' BY <1>8, <1>9, <1>10, <1>11, <1>12 DEF RankOK
<1> QED BY <1>1, <1>2, <1>4, <1>5, <1>13, OneActs

LEMMA SubmitRestCalls ==
    ASSUME CallsInv, NEW r \in Ranks, NEW p \in Params, SubmitRest(r, p)
    PROVE  CallsInv' /\ Async(r, p, grad[r][p]) /\ Stage(r) \in Submits \cup {"missing"}
<1>1. OptimizerTypeOK /\ InPlace(r) BY DEF CallsInv, RankOK, PlaceOK
<1>2. Doing(r, "submit") \/ Doing(r, "missing") BY DEF SubmitRest
<1>3. Stage(r) \in Submits \cup {"missing"} BY <1>1, <1>2, StageOf DEF Kinds
<1>4. handle[r][p] \in {"absent", "none"} BY DEF SubmitRest
<1>5. grad[r][p] \in [Ranks -> Nat] BY <1>1 DEF OptimizerTypeOK
<1>6. AllreduceAsync(r, p, grad[r][p]) BY DEF SubmitRest
<1> QED BY <1>3, <1>4, <1>5, <1>6, SubmitsCalls DEF SubmitRest

\* The rank waits for the handle that is next.
LEMMA NextKey ==
    ASSUME CallsInv, NEW r \in Ranks, Stage(r) \in Looping
    PROVE  /\ order[r] \in Seq(Params) /\ Len(order[r]) \in Nat /\ next[r] \in 1 .. Len(order[r])
           /\ order[r][next[r]] \in Params /\ Last(order[r]) \in Params
           /\ \A p \in Params : \E i \in 1 .. Len(order[r]) : order[r][i] = p
<1>1. order[r] \in Seq(Params) BY DEF CallsInv, OptimizerTypeOK
<1>2. next[r] \in 1 .. Len(order[r]) /\ ToSet(order[r]) = Params
  BY DEF CallsInv, RankOK, KeysOK
<1>3. Len(order[r]) \in Nat /\ DOMAIN order[r] = 1 .. Len(order[r]) BY <1>1
<1>4. Len(order[r]) \in 1 .. Len(order[r]) BY <1>2, <1>3
<1>5. Last(order[r]) = order[r][Len(order[r])] BY DEF Last
<1>6. \A i \in 1 .. Len(order[r]) : order[r][i] \in Params BY <1>1
<1> QED BY <1>1, <1>2, <1>3, <1>4, <1>5, <1>6 DEF ToSet

LEMMA FinishSubmitCalls ==
    ASSUME CallsInv, NEW r \in Ranks, FinishSubmit(r)
    PROVE  /\ CallsInv' /\ Async(r, order[r][next[r]], grad[r][order[r][next[r]]])
           /\ Stage(r) = "finish" /\ order[r][next[r]] \in Params
<1>1. OptimizerTypeOK /\ InPlace(r) BY DEF CallsInv, RankOK, PlaceOK
<1>2. Stage(r) = "finish" BY <1>1, StageOf DEF Kinds, FinishSubmit
<1>3. PICK p \in Params : p = order[r][next[r]] BY <1>2, NextKey DEF Looping
<1>4. handle[r][p] = "none" /\ AllreduceAsync(r, p, grad[r][p]) BY <1>3 DEF FinishSubmit
<1>5. grad[r][p] \in [Ranks -> Nat] BY <1>1 DEF OptimizerTypeOK
<1>6. CallsInv' /\ Async(r, p, grad[r][p]) BY <1>2, <1>4, <1>5, SubmitsCalls DEF FinishSubmit
<1> QED BY <1>2, <1>3, <1>6

-----------------------------------------------------------------------------
(* The calls that return.                                                  *)

AfterGradients == {"last_apply", "skip", "missing", "submit"}

LEMMA NextStage ==
    ASSUME OptimizerTypeOK, program' = program, NEW r \in Ranks, steps[r] < MaxSteps,
           Possible(Stage(r)), Proceeds(r)
    PROVE  /\ Stage(r) = "last_apply" => Stage(r)' \in {"first_submit", "over_late"}
           /\ Stage(r) \in {"apply", "finish", "skip"} => Stage(r)' \in {"set_passes", "zero_grad", "over"}
           /\ Stage(r) = "first_submit" => Stage(r)' = "first_wait"
           /\ Stage(r) = "submit" => Stage(r)' = "wait"
           /\ Stage(r) = "submit_again" => Stage(r)' = "wait_again"
           /\ Stage(r) = "missing" => Stage(r)' = "finish"
           /\ Stage(r) \in {"first_wait", "set_passes"} => Stage(r)' = "zero_grad"
           /\ Stage(r) = "wait" =>
                 Stage(r)' = IF program.style = "both" THEN "submit_again" ELSE "apply"
           /\ Stage(r) = "wait_again" => Stage(r)' = "apply"
           /\ Stage(r) \in {"zero_grad", "backward"} =>
                 Stage(r)' \in {"backward"} \cup AfterGradients
           /\ Stage(r)' = "zero_grad" \/ Stage(r) \notin Ends => Announced(r)' = Announced(r)
           /\ Stage(r) \notin Ends => steps'[r] = steps[r] /\ Remaining(r)' = Remaining(r) - 1
           /\ Stage(r) \in Ends => steps'[r] = steps[r] + 1
<1>1. program \in Programs /\ steps[r] \in Nat /\ MaxSteps \in Nat
  BY ProgramsAssumption DEF OptimizerTypeOK
<1>2. CASE Stage(r) \in Ends
  <2>1. /\ steps'[r] = steps[r] + 1
        /\ Stage(r)' = IF steps[r] + 1 < MaxSteps THEN FirstStage
                       ELSE IF ClosureLate THEN "over_late" ELSE "over"
    BY <1>2 DEF Proceeds
  <2>2. Stage(r) = "last_apply" <=> ClosureLate BY <1>2 DEF Possible, Ends
  <2>3. Stage(r)' = "zero_grad" => Announced(r)' = Announced(r)
    <3> SUFFICES ASSUME Stage(r)' = "zero_grad" PROVE Announced(r)' = Announced(r) OBVIOUS
    <3>1. steps[r] + 1 < MaxSteps /\ FirstStage = "zero_grad" BY <2>1
    <3>2. program.style # "schedule" BY <3>1 DEF FirstStage
    <3>3. \A k \in 1 .. MaxSteps : program.passes[k] = program.passes[1]
      BY <1>1, <3>2, ProgramsAssumption
    <3>4. steps[r] + 1 \in 1 .. MaxSteps /\ steps'[r] + 1 \in 1 .. MaxSteps BY <1>1, <2>1, <3>1
    <3> QED BY <3>3, <3>4 DEF Announced
  <2>4. FirstStage \in IF ClosureLate THEN {"first_submit"} ELSE {"set_passes", "zero_grad"}
    BY DEF FirstStage
  <2> QED BY <1>2, <2>1, <2>2, <2>3, <2>4 DEF Ends
<1>3. CASE Stage(r) \notin Ends
  <2>1. /\ steps'[r] = steps[r] /\ Announced(r)' = Announced(r)
        /\ Follow(Stage(r), Stage(r)', Remaining(r)) /\ Remaining(r)' = Remaining(r) - 1
    BY <1>3 DEF Proceeds
  <2>2. AfterPasses \in AfterGradients BY DEF AfterPasses, AfterGradients
  <2> QED BY <1>3, <2>1, <2>2 DEF Follow, Ends
<1> QED BY <1>2, <1>3

LEMMA AllSubmittedCalls ==
    ASSUME CallsInv, NEW r \in Ranks, AllSubmitted(r)
    PROVE  CallsInv' /\ Stage(r) \in Submits \cup {"missing"} /\ Proceeds(r) /\ steps[r] < MaxSteps
           /\ Possible(Stage(r))
<1>0. OptimizerTypeOK /\ RankOK(r) /\ InPlace(r) BY DEF CallsInv, RankOK, PlaceOK
<1>1. /\ program' = program /\ hooks' = hooks /\ delay' = delay /\ handle' = handle
      /\ order' = order /\ next' = next /\ grad' = grad /\ submitted' = submitted
      /\ output' = output /\ param' = param /\ touched' = touched /\ computed' = computed
      /\ failed' = failed /\ \A p \in Params : handle[r][p] # "absent"
      /\ Return(r)
  BY DEF AllSubmitted
<1>2. Doing(r, "submit") \/ Doing(r, "missing") BY DEF AllSubmitted
<1>3. Stage(r) \in Submits \cup {"missing"} BY <1>0, <1>2, StageOf DEF Kinds
<1>4. steps[r] < MaxSteps /\ Possible(Stage(r)) BY <1>0, <1>2, DoingIs
<1>5. /\ Proceeds(r) /\ InPlace(r)'
      /\ at' \in [Ranks -> Nat] /\ steps' \in [Ranks -> 0 .. MaxSteps]
      /\ \A q \in Ranks \ {r} : Stays(q)
  BY <1>0, <1>1, <1>4, Returned
<1>6. /\ Stage(r)' \in Looping /\ (Stage(r)' = "wait_again" => Stage(r) = "submit_again")
      /\ Announced(r)' = Announced(r)
  BY <1>0, <1>1, <1>3, <1>4, <1>5, NextStage DEF Submits, Looping, Waits, Ends
<1>7. OptimizerTypeOK' BY <1>0, <1>1, <1>5 DEF OptimizerTypeOK
<1>8. \A q \in Ranks \ {r} : Alone(q) BY <1>1, <1>5 DEF Alone
<1>9. \A p \in Params : OperationOK(p)' BY <1>1, NothingStarts DEF CallsInv
<1>10. hooks[r] = {} /\ next[r] = 1
  BY <1>0, <1>3 DEF RankOK, PlaceOK, KeysOK, Submits, Looping, Waits
<1>11. PlaceOK(r)' BY <1>1, <1>5, <1>10 DEF PlaceOK
<1>12. KeysOK(r)'
  <2>1. KeysOK(r) BY <1>0 DEF RankOK
  <2>2. ToSet(order[r]) = Params BY <1>1, <2>1 DEF KeysOK
  <2>3. 1 \in 1 .. Len(order[r])
    <3>1. order[r] \in Seq(Params) BY <1>0 DEF OptimizerTypeOK
    <3>2. ToSet(order[r]) # {} BY <2>2, ParamsAssumption
    <3>3. Len(order[r]) \in Nat /\ DOMAIN order[r] = 1 .. Len(order[r]) BY <3>1
    <3>4. Len(order[r]) # 0 BY <3>2, <3>3 DEF ToSet
    <3> QED BY <3>3, <3>4
  <2>4. \A i \in 1 .. next'[r] - 1 : FALSE BY <1>1, <1>10
  <2>5. IsInjective(order'[r]) /\ ToSet(order'[r]) = {x \in Params : handle'[r][x] # "absent"}
    BY <1>1, <2>1 DEF KeysOK
  <2> QED BY <1>1, <1>6, <1>10, <2>2, <2>3, <2>4, <2>5 DEF KeysOK, Looping, Waits
<1>13. DelaysOK(r)'
  <2>1. DelaysOK(r) BY <1>0 DEF RankOK
  <2>2. \A i \in 1 .. next'[r] - 1 : FALSE BY <1>1, <1>10
  <2>3. Stage(r)' = "wait_again" => \A p \in Params : delay'[r][p] = Announced(r)'
    BY <1>1, <1>6, <2>1 DEF DelaysOK
  <2> QED BY <1>6, <2>2, <2>3 DEF DelaysOK, Looping, Waits
<1>14. FaultsOK(r)'
  <2>1. failed[r] = "no" BY <1>0, <1>2, DoingIs
  <2> QED BY <1>1, <2>1 DEF FaultsOK
<1>15. TouchesOK(r)'
  <2>1. InFlight(r)' = InFlight(r) /\ ClosureLate' = ClosureLate BY <1>1, SameProgram DEF InFlight
  <2> QED BY <1>0, <1>1, <2>1 DEF RankOK, TouchesOK
<1>16. RankOK(r)' BY <1>11, <1>12, <1>13, <1>14, <1>15 DEF RankOK
<1> QED BY <1>1, <1>3, <1>4, <1>5, <1>7, <1>8, <1>9, <1>16, OneActs

LEMMA PlacesUpTo ==
    ASSUME NEW l \in Nat, NEW n \in 1 .. l
    PROVE  /\ n \in Nat \ {0} /\ n <= l
           /\ \A i \in 1 .. n : i \in 1 .. l /\ (i = n \/ i \in 1 .. n - 1)
<1>1. n \in Nat \ {0} /\ n <= l OBVIOUS
<1>2. \A i \in 1 .. n : i \in 1 .. l OBVIOUS
<1>3. ASSUME NEW i \in 1 .. n, i # n PROVE i \in 1 .. n - 1 BY <1>1, <1>3
<1> QED BY <1>1, <1>2, <1>3

\* What becomes of the handles when a rank has taken the result of the next one.
Took(r) ==
    /\ next[r] < Len(order[r]) =>
          Stays(r) /\ next'[r] = next[r] + 1 /\ handle' = handle /\ order' = order
    /\ ~(next[r] < Len(order[r])) =>
          /\ Proceeds(r) /\ next'[r] = 1 /\ order'[r] = <<>> /\ next[r] = Len(order[r])
          /\ \A x \in Params : handle[r][x] = "done" /\ handle'[r][x] = "absent"
          /\ \A q \in Ranks \ {r} : handle'[q] = handle[q] /\ order'[q] = order[q]
    /\ \A q \in Ranks \ {r} : Stays(q) /\ next'[q] = next[q]

\* A rank whose next operation is done takes its result.
LEMMA TakesCalls ==
    ASSUME CallsInv, NEW r \in Ranks, NEW p \in Params, Stage(r) \in Looping, steps[r] < MaxSteps,
           Possible(Stage(r)), failed[r] = "no", p = order[r][next[r]], handle[r][p] = "done",
           delay' = [delay EXCEPT ![r][p] = Announced(r)], NextHandle(r),
           grad' \in [Ranks -> [Params -> [Ranks -> Nat]]],
           param' \in [Ranks -> [Params -> [Ranks -> Nat]]],
           \A q \in Ranks \ {r} : grad'[q] = grad[q] /\ param'[q] = param[q],
           program' = program, hooks' = hooks, submitted' = submitted, output' = output,
           touched' = touched, computed' = computed, failed' = failed
    PROVE  CallsInv' /\ Took(r)
<1>0. OptimizerTypeOK /\ RankOK(r) /\ InPlace(r) BY DEF CallsInv, RankOK, PlaceOK
<1>1. /\ order[r] \in Seq(Params) /\ Len(order[r]) \in Nat /\ next[r] \in 1 .. Len(order[r])
      /\ \A x \in Params : \E i \in 1 .. Len(order[r]) : order[r][i] = x
  BY NextKey
<1>2. /\ handle \in [Ranks -> [Params -> HandleType]] /\ order \in [Ranks -> Seq(Params)]
      /\ delay \in [Ranks -> [Params -> Nat]] /\ next \in [Ranks -> Nat]
  BY <1>0 DEF OptimizerTypeOK, HandleType
<1>3. Announced(r) \in Nat
  <2>1. program.passes \in Seq(Nat \ {0}) /\ Len(program.passes) = MaxSteps
    BY <1>0, ProgramsAssumption DEF OptimizerTypeOK, ProgramType
  <2>2. steps[r] + 1 \in 1 .. MaxSteps BY <1>0, ProgramsAssumption DEF OptimizerTypeOK
  <2> QED BY <2>1, <2>2 DEF Announced
<1>4. /\ delay' \in [Ranks -> [Params -> Nat]] /\ delay'[r][p] = Announced(r)
      /\ \A x \in Params \ {p} : delay'[r][x] = delay[r][x]
      /\ \A q \in Ranks \ {r} : delay'[q] = delay[q]
  BY <1>2, <1>3
<1>12. /\ next[r] \in Nat \ {0} /\ next[r] <= Len(order[r])
       /\ \A i \in 1 .. next[r] : i \in 1 .. Len(order[r]) /\ (i = next[r] \/ i \in 1 .. next[r] - 1)
  <2>2. Len(order[r]) \in Nat /\ next[r] \in 1 .. Len(order[r]) BY <1>1
  <2> QED BY <2>2, PlacesUpTo
<1>5. \A i \in 1 .. next[r] : /\ order[r][i] \in Params /\ handle[r][order[r][i]] = "done"
                               /\ delay'[r][order[r][i]] = Announced(r)
  <2> TAKE i \in 1 .. next[r]
  <2>1. order[r][i] \in Params
    <3>1. order[r] \in Seq(Params) /\ i \in 1 .. Len(order[r]) BY <1>1, <1>12
    <3> QED BY <3>1
  <2>2. i = next[r] \/ i \in 1 .. next[r] - 1 BY <1>12
  <2>3. i \in 1 .. next[r] - 1 => handle[r][order[r][i]] = "done" /\ delay[r][order[r][i]] = Announced(r)
    BY <1>0 DEF RankOK, KeysOK, DelaysOK
  <2> QED BY <1>4, <2>1, <2>2, <2>3
<1>6. hooks[r] = {} /\ Stage(r) # "backward" /\ Stage(r) \notin {"zero_grad"}
  BY <1>0 DEF RankOK, PlaceOK, Looping, Waits
<1>7. FaultsOK(r)' BY DEF FaultsOK
<1>8. ClosureLate \/ touched[r] = {} BY <1>0, <1>6 DEF RankOK, TouchesOK
<1>9. TouchesOK(r)' BY <1>8, SameProgram DEF TouchesOK
<1>10. CASE next[r] < Len(order[r])
  <2>1. /\ next' = [next EXCEPT ![r] = @ + 1] /\ handle' = handle /\ order' = order
        /\ steps' = steps /\ at' = at
    BY <1>10 DEF NextHandle
  <2>2. /\ next' \in [Ranks -> Nat] /\ next'[r] = next[r] + 1
        /\ \A q \in Ranks \ {r} : next'[q] = next[q]
    BY <1>2, <2>1
  <2>3. OptimizerTypeOK' BY <1>0, <1>4, <2>1, <2>2 DEF OptimizerTypeOK
  <2>4. \A q \in Ranks \ {r} : Alone(q) BY <1>4, <2>1, <2>2 DEF Alone, Stays
  <2>5. \A x \in Params : OperationOK(x)' BY <2>1, NothingStarts DEF CallsInv
  <2>6. /\ Stage(r)' = Stage(r) /\ Announced(r)' = Announced(r) /\ Stays(r)
        /\ \A k : LastCall(k)' = LastCall(k)
    BY <2>1, StageStays, SameProgram DEF Stays
  <2>7. PlaceOK(r)' BY <1>0, <1>6, <2>1, <2>6 DEF RankOK, PlaceOK, InPlace
  <2>8. next'[r] \in 1 .. Len(order[r]) /\ next'[r] - 1 = next[r]
    <3>1. Len(order[r]) \in Nat BY <1>1
    <3> QED BY <1>10, <1>12, <2>2, <3>1
  <2>9. KeysOK(r)'
    <3>1. KeysOK(r) /\ Stage(r) \notin {"set_passes", "zero_grad", "apply", "over"}
      BY <1>0 DEF RankOK, Looping, Waits
    <3> QED BY <1>5, <2>1, <2>6, <2>8, <3>1 DEF KeysOK
  <2>10. DelaysOK(r)'
    <3>1. DelaysOK(r) BY <1>0 DEF RankOK
    <3>2. Stage(r) = "wait_again" => \A x \in Params : delay'[r][x] = Announced(r)
      BY <1>4, <3>1 DEF DelaysOK
    <3> QED BY <1>5, <2>1, <2>6, <2>8, <3>2 DEF DelaysOK, Looping, Waits
  <2>11. RankOK(r)' BY <1>7, <1>9, <2>7, <2>9, <2>10 DEF RankOK
  <2>12. CallsInv' BY <2>3, <2>4, <2>5, <2>11, OneActs
  <2>13. Took(r) BY <1>10, <2>1, <2>2, <2>4, <2>6 DEF Took, Alone
  <2> QED BY <2>12, <2>13
<1>11. CASE ~(next[r] < Len(order[r]))
  <2>1. /\ next' = [next EXCEPT ![r] = 1] /\ order' = [order EXCEPT ![r] = <<>>]
        /\ handle' = [handle EXCEPT ![r] = [x \in Params |-> "absent"]] /\ Return(r)
    BY <1>11 DEF NextHandle
  <2>2. next[r] = Len(order[r])
    <3>1. Len(order[r]) \in Nat BY <1>1
    <3> QED BY <1>11, <1>12, <3>1
  <2>3. \A x \in Params : handle[r][x] = "done" /\ delay'[r][x] = Announced(r)
    <3> TAKE x \in Params
    <3>1. PICK i \in 1 .. Len(order[r]) : order[r][i] = x BY <1>1
    <3> QED BY <1>5, <2>2, <3>1
  <2>4. /\ next' \in [Ranks -> Nat] /\ next'[r] = 1 /\ \A q \in Ranks \ {r} : next'[q] = next[q]
    BY <1>2, <2>1
  <2>5. /\ order' \in [Ranks -> Seq(Params)] /\ order'[r] = <<>>
        /\ \A q \in Ranks \ {r} : order'[q] = order[q]
    <3>1. <<>> \in Seq(Params) OBVIOUS
    <3> QED BY <1>2, <2>1, <3>1
  <2>6. /\ handle' \in [Ranks -> [Params -> HandleType]]
        /\ \A x \in Params : handle'[r][x] = "absent"
        /\ \A q \in Ranks \ {r} : handle'[q] = handle[q]
    <3>1. [x \in Params |-> "absent"] \in [Params -> HandleType] BY DEF HandleType
    <3> QED BY <1>2, <2>1, <3>1
  <2>7. /\ Proceeds(r) /\ InPlace(r)'
        /\ at' \in [Ranks -> Nat] /\ steps' \in [Ranks -> 0 .. MaxSteps]
        /\ \A q \in Ranks \ {r} : Stays(q)
    BY <1>0, <2>1, Returned
  <2>8. OptimizerTypeOK' BY <1>0, <1>4, <2>4, <2>5, <2>6, <2>7 DEF OptimizerTypeOK, HandleType
  <2>9. \A q \in Ranks \ {r} : Alone(q) BY <1>4, <2>4, <2>5, <2>6, <2>7 DEF Alone
  <2>10. \A x \in Params : OperationOK(x)'
    <3>1. \A q \in Ranks : \A x \in Params :
            handle'[q][x] = handle[q][x] \/ (handle[q][x] # "flying" /\ handle'[q][x] # "flying")
      <4> TAKE q \in Ranks
      <4> TAKE x \in Params
      <4>1. CASE q # r BY <2>6, <4>1
      <4>2. CASE q = r BY <2>3, <2>6, <4>2
      <4> QED BY <4>1, <4>2
    <3> QED BY <3>1, NothingStarts DEF CallsInv
  <2>11. /\ Stage(r)' \in {"set_passes", "zero_grad", "over", "submit_again", "apply"}
         /\ Stage(r)' \in {"zero_grad", "submit_again", "apply"} => Announced(r)' = Announced(r)
    BY <1>0, <2>7, NextStage DEF Looping, Waits, Ends
  <2>12. PlaceOK(r)' BY <1>6, <2>7 DEF PlaceOK
  <2>13. KeysOK(r)'
    <3>1. ToSet(order'[r]) = {} /\ IsInjective(order'[r]) BY <2>5, NoElements
    <3>2. {x \in Params : handle'[r][x] # "absent"} = {} BY <2>6
    <3> QED BY <2>4, <2>5, <2>11, <3>1, <3>2 DEF KeysOK, Looping, Waits
  <2>14. DelaysOK(r)' BY <2>3, <2>11 DEF DelaysOK, Looping, Waits
  <2>15. RankOK(r)' BY <1>7, <1>9, <2>12, <2>13, <2>14 DEF RankOK
  <2>16. CallsInv' BY <2>8, <2>9, <2>10, <2>15, OneActs
  <2>17. Took(r) BY <1>11, <2>2, <2>3, <2>4, <2>5, <2>6, <2>7 DEF Took
  <2> QED BY <2>16, <2>17
<1> QED BY <1>10, <1>11

LEMMA WaitCalls ==
    ASSUME CallsInv, NEW r \in Ranks, Wait(r)
    PROVE  CallsInv' /\ Stage(r) \in Waits /\ (failed'[r] = "no" => Took(r))
<1>0. OptimizerTypeOK /\ RankOK(r) /\ InPlace(r) /\ Doing(r, "wait")
  BY DEF CallsInv, RankOK, PlaceOK, Wait
<1>1. Stage(r) \in Waits /\ Stage(r) \in Looping BY <1>0, StageOf DEF Kinds, Looping
<1>2. steps[r] < MaxSteps /\ Possible(Stage(r)) /\ failed[r] = "no" BY <1>0, DoingIs
<1>3. PICK p \in Params : p = order[r][next[r]] BY <1>1, NextKey
<1>4. handle[r][p] = "done" BY <1>3 DEF Wait
<1>5. CASE program.half /\ DType[Last(order[r])] # DType[p]
  <2>1. /\ failed' = [failed EXCEPT ![r] = "dtype"] /\ program' = program /\ steps' = steps
        /\ at' = at /\ delay' = delay /\ handle' = handle /\ order' = order /\ next' = next
        /\ submitted' = submitted /\ output' = output /\ param' = param /\ grad' = grad
        /\ hooks' = hooks /\ touched' = touched /\ computed' = computed
    BY <1>3, <1>5 DEF Wait, Raise
  <2>2. failed' \in [Ranks -> {"no", "too_many_passes", "dtype", "zero_grad", "skip"}]
        /\ failed'[r] = "dtype" /\ \A q \in Ranks \ {r} : failed'[q] = failed[q]
    BY <1>0, <2>1 DEF OptimizerTypeOK
  <2>3. OptimizerTypeOK' BY <1>0, <2>1, <2>2 DEF OptimizerTypeOK
  <2>4. \A q \in Ranks \ {r} : Alone(q) BY <2>1, <2>2 DEF Alone, Stays
  <2>5. \A x \in Params : OperationOK(x)' BY <2>1, NothingStarts DEF CallsInv
  <2>6. FaultsOK(r)'
    <3>1. Last(order[r]) \in Params BY <1>1, NextKey
    <3> QED BY <1>5, <2>2, <3>1 DEF FaultsOK
  <2>7. TouchesOK(r)'
    <3>1. ClosureLate' = ClosureLate /\ InFlight(r)' = InFlight(r)
      BY <2>1, SameProgram DEF InFlight
    <3> QED BY <1>0, <1>2, <2>1, <3>1 DEF RankOK, TouchesOK
  <2>8. RankOK(r)' BY <1>0, <2>1, <2>6, <2>7, Ended DEF Stays
  <2>9. CallsInv' BY <2>1, <2>3, <2>4, <2>5, <2>8, OneActs
  <2> QED BY <1>1, <2>2, <2>9
<1>6. CASE ~(program.half /\ DType[Last(order[r])] # DType[p])
  <2>1. /\ delay' = [delay EXCEPT ![r][p] = Announced(r)] /\ NextHandle(r)
        /\ grad' = [grad EXCEPT ![r][p] = output[r][p]]
        /\ program' = program /\ hooks' = hooks /\ submitted' = submitted /\ output' = output
        /\ touched' = touched /\ computed' = computed /\ failed' = failed /\ param' = param
    BY <1>3, <1>6 DEF Wait, Announced
  <2>2. /\ grad \in [Ranks -> [Params -> [Ranks -> Nat]]]
        /\ output \in [Ranks -> [Params -> [Ranks -> Nat]]]
        /\ param \in [Ranks -> [Params -> [Ranks -> Nat]]]
    BY <1>0 DEF OptimizerTypeOK
  <2>3. /\ grad' \in [Ranks -> [Params -> [Ranks -> Nat]]]
        /\ \A q \in Ranks \ {r} : grad'[q] = grad[q]
    BY <2>1, <2>2
  <2> QED BY <1>1, <1>2, <1>3, <1>4, <2>1, <2>2, <2>3, TakesCalls
<1> QED BY <1>5, <1>6

LEMMA FinishWaitCalls ==
    ASSUME CallsInv, NEW r \in Ranks, FinishWait(r)
    PROVE  CallsInv' /\ Stage(r) = "finish" /\ Took(r)
<1>0. OptimizerTypeOK /\ RankOK(r) /\ InPlace(r) /\ Doing(r, "finish")
  BY DEF CallsInv, RankOK, PlaceOK, FinishWait
<1>1. Stage(r) = "finish" /\ Stage(r) \in Looping BY <1>0, StageOf DEF Kinds, Looping
<1>2. steps[r] < MaxSteps /\ Possible(Stage(r)) /\ failed[r] = "no" BY <1>0, DoingIs
<1>3. PICK p \in Params : p = order[r][next[r]] BY <1>1, NextKey
<1>4. /\ handle[r][p] = "done" /\ param' = [param EXCEPT ![r][p] = Plus(@, output[r][p])]
      /\ delay' = [delay EXCEPT ![r][p] = Announced(r)] /\ NextHandle(r)
      /\ program' = program /\ hooks' = hooks /\ submitted' = submitted /\ output' = output
      /\ touched' = touched /\ computed' = computed /\ failed' = failed /\ grad' = grad
  BY <1>3 DEF FinishWait, Announced
<1>5. /\ grad \in [Ranks -> [Params -> [Ranks -> Nat]]]
      /\ output \in [Ranks -> [Params -> [Ranks -> Nat]]]
      /\ param \in [Ranks -> [Params -> [Ranks -> Nat]]]
  BY <1>0 DEF OptimizerTypeOK
<1>6. Plus(param[r][p], output[r][p]) \in [Ranks -> Nat] BY <1>5 DEF Plus
<1>7. /\ param' \in [Ranks -> [Params -> [Ranks -> Nat]]]
      /\ \A q \in Ranks \ {r} : param'[q] = param[q]
  BY <1>4, <1>5, <1>6
<1> QED BY <1>1, <1>2, <1>3, <1>4, <1>5, <1>7, TakesCalls

\* The step of the base optimizer.
LEMMA ApplyCalls ==
    ASSUME CallsInv, NEW r \in Ranks, Apply(r)
    PROVE  CallsInv' /\ Proceeds(r) /\ Stage(r) \in {"apply", "last_apply"} /\ steps[r] < MaxSteps
           /\ Possible(Stage(r)) /\ (Stage(r) = "apply" => \A p \in Params : handle[r][p] = "absent")
<1>0. OptimizerTypeOK /\ RankOK(r) /\ InPlace(r) /\ Doing(r, "apply")
  BY DEF CallsInv, RankOK, PlaceOK, Apply
<1>1. Stage(r) \in {"apply", "last_apply"} BY <1>0, StageOf DEF Kinds
<1>2. steps[r] < MaxSteps /\ Possible(Stage(r)) /\ failed[r] = "no" BY <1>0, DoingIs
<1>3. /\ touched' = [touched EXCEPT ![r] = @ \cup InFlight(r)] /\ Return(r)
      /\ program' = program /\ hooks' = hooks /\ delay' = delay /\ handle' = handle
      /\ order' = order /\ next' = next /\ grad' = grad /\ submitted' = submitted
      /\ output' = output /\ computed' = computed /\ failed' = failed
  BY DEF Apply
<1>4. /\ param' \in [Ranks -> [Params -> [Ranks -> Nat]]]
      /\ \A q \in Ranks \ {r} : param'[q] = param[q]
  <2> DEFINE now(p) == IF handle[r][p] = "done" /\ ~program.half THEN output[r][p] ELSE grad[r][p]
             new == [p \in Params |-> Plus(param[r][p], now(p))]
  <2>1. /\ grad \in [Ranks -> [Params -> [Ranks -> Nat]]]
        /\ output \in [Ranks -> [Params -> [Ranks -> Nat]]]
        /\ param \in [Ranks -> [Params -> [Ranks -> Nat]]]
    BY <1>0 DEF OptimizerTypeOK
  <2>2. \A p \in Params : now(p) \in [Ranks -> Nat] BY <2>1
  <2> HIDE DEF now
  <2>3. new \in [Params -> [Ranks -> Nat]] BY <2>1, <2>2 DEF Plus
  <2>4. param' = [param EXCEPT ![r] = new] BY DEF Apply, now
  <2> HIDE DEF new
  <2> QED BY <2>1, <2>3, <2>4
<1>5. /\ Proceeds(r) /\ InPlace(r)'
      /\ at' \in [Ranks -> Nat] /\ steps' \in [Ranks -> 0 .. MaxSteps]
      /\ \A q \in Ranks \ {r} : Stays(q)
  BY <1>0, <1>2, <1>3, Returned
<1>6. /\ touched' \in [Ranks -> SUBSET Params] /\ touched'[r] = touched[r] \cup InFlight(r)
      /\ \A q \in Ranks \ {r} : touched'[q] = touched[q]
  <2>1. InFlight(r) \in SUBSET Params BY DEF InFlight
  <2> QED BY <1>0, <1>3, <2>1 DEF OptimizerTypeOK
<1>7. OptimizerTypeOK' BY <1>0, <1>3, <1>4, <1>5, <1>6 DEF OptimizerTypeOK
<1>8. \A q \in Ranks \ {r} : Alone(q) BY <1>3, <1>4, <1>5, <1>6 DEF Alone
<1>9. \A x \in Params : OperationOK(x)' BY <1>3, NothingStarts DEF CallsInv
<1>10. /\ Stage(r)' \in {"first_submit", "over_late", "set_passes", "zero_grad", "over"}
       /\ Stage(r)' \in {"set_passes", "zero_grad", "over"} => Stage(r) = "apply"
       /\ Stage(r)' = "zero_grad" => Announced(r)' = Announced(r)
       /\ Stage(r) = "last_apply" => ClosureLate
  <2>1. Stage(r) = "last_apply" => Stage(r)' \in {"first_submit", "over_late"}
    BY <1>0, <1>2, <1>3, <1>5, NextStage
  <2>2. Stage(r) = "apply" => Stage(r)' \in {"set_passes", "zero_grad", "over"}
    BY <1>0, <1>2, <1>3, <1>5, NextStage
  <2>3. Stage(r)' = "zero_grad" => Announced(r)' = Announced(r)
    BY <1>0, <1>2, <1>3, <1>5, NextStage
  <2>4. Stage(r) = "last_apply" => ClosureLate BY <1>2 DEF Possible
  <2> QED BY <1>1, <2>1, <2>2, <2>3, <2>4
<1>11. /\ hooks[r] = {} /\ next[r] = 1
       /\ Stage(r) = "apply" => order[r] = <<>> /\ \A p \in Params : handle[r][p] = "absent"
  <2>1. hooks[r] = {} /\ next[r] = 1 BY <1>0, <1>1 DEF RankOK, PlaceOK, KeysOK, Looping, Waits
  <2>2. Stage(r) = "apply" => order[r] = <<>> BY <1>0 DEF RankOK, KeysOK
  <2>3. ToSet(order[r]) = {p \in Params : handle[r][p] # "absent"} BY <1>0 DEF RankOK, KeysOK
  <2>4. order[r] = <<>> => \A p \in Params : handle[r][p] = "absent" BY <2>3, NoElements
  <2> QED BY <2>1, <2>2, <2>4
<1>12. PlaceOK(r)' BY <1>3, <1>5, <1>11 DEF PlaceOK
<1>13. KeysOK(r)'
  <2>1. KeysOK(r) BY <1>0 DEF RankOK
  <2>2. IsInjective(order'[r]) /\ ToSet(order'[r]) = {x \in Params : handle'[r][x] # "absent"}
    BY <1>3, <2>1 DEF KeysOK
  <2> QED BY <1>3, <1>10, <1>11, <2>2 DEF KeysOK, Looping, Waits
<1>14. DelaysOK(r)'
  <2>1. Stage(r) = "apply" => \A p \in Params : delay[r][p] = Announced(r)
    BY <1>0 DEF RankOK, DelaysOK
  <2> QED BY <1>3, <1>10, <2>1 DEF DelaysOK, Looping, Waits
<1>15. FaultsOK(r)' BY <1>2, <1>3 DEF FaultsOK
<1>16. TouchesOK(r)'
  <2>1. ClosureLate' = ClosureLate BY <1>3, SameProgram
  <2>2. CASE Stage(r) = "apply"
    <3>1. InFlight(r) = {} BY <1>11, <2>2 DEF InFlight
    <3>2. ClosureLate \/ touched[r] = {} BY <1>0, <1>2, <3>1 DEF RankOK, TouchesOK
    <3> QED BY <1>6, <2>1, <3>1, <3>2 DEF TouchesOK
  <2>3. CASE Stage(r) = "last_apply" BY <1>10, <2>1, <2>3 DEF TouchesOK
  <2> QED BY <1>1, <2>2, <2>3
<1>17. RankOK(r)' BY <1>12, <1>13, <1>14, <1>15, <1>16 DEF RankOK
<1>18. CallsInv' BY <1>3, <1>7, <1>8, <1>9, <1>17, OneActs
<1> QED BY <1>1, <1>2, <1>5, <1>11, <1>18

LEMMA ZeroGradCalls ==
    ASSUME CallsInv, NEW r \in Ranks, ZeroGrad(r)
    PROVE  /\ CallsInv' /\ Proceeds(r) /\ Stage(r) = "zero_grad" /\ steps[r] < MaxSteps
           /\ Possible(Stage(r)) /\ order[r] = <<>> /\ \A p \in Params : handle[r][p] = "absent"
<1>0. OptimizerTypeOK /\ RankOK(r) /\ InPlace(r) /\ Doing(r, "zero_grad")
  BY DEF CallsInv, RankOK, PlaceOK, ZeroGrad
<1>1. Stage(r) = "zero_grad" BY <1>0, StageOf DEF Kinds
<1>2. /\ steps[r] < MaxSteps /\ Possible(Stage(r)) /\ failed[r] = "no"
      /\ Remaining(r) = PassesIn(steps[r] + 1) + 1 /\ PassesIn(steps[r] + 1) \in Nat
  BY <1>0, <1>1, DoingIs
<1>3. order[r] = <<>> BY <1>0, <1>1 DEF RankOK, KeysOK
<1>4. /\ grad' = [grad EXCEPT ![r] = [p \in Params |-> Zero]] /\ Return(r)
      /\ program' = program /\ delay' = delay /\ handle' = handle /\ order' = order
      /\ next' = next /\ submitted' = submitted /\ output' = output /\ param' = param
      /\ failed' = failed /\ hooks' = hooks /\ touched' = touched /\ computed' = computed
  BY <1>3 DEF ZeroGrad
<1>5. /\ Proceeds(r) /\ InPlace(r)'
      /\ at' \in [Ranks -> Nat] /\ steps' \in [Ranks -> 0 .. MaxSteps]
      /\ \A q \in Ranks \ {r} : Stays(q)
  BY <1>0, <1>2, <1>4, Returned
<1>6. /\ grad' \in [Ranks -> [Params -> [Ranks -> Nat]]]
      /\ \A q \in Ranks \ {r} : grad'[q] = grad[q]
  BY <1>0, <1>4 DEF OptimizerTypeOK, Zero
<1>7. OptimizerTypeOK' BY <1>0, <1>4, <1>5, <1>6 DEF OptimizerTypeOK
<1>8. \A q \in Ranks \ {r} : Alone(q) BY <1>4, <1>5, <1>6 DEF Alone
<1>9. \A x \in Params : OperationOK(x)' BY <1>4, NothingStarts DEF CallsInv
<1>10. /\ Stage(r)' \in {"backward"} \cup AfterGradients /\ Remaining(r)' = Remaining(r) - 1
  BY <1>0, <1>1, <1>2, <1>4, <1>5, NextStage DEF Ends
<1>11. \A p \in Params : handle[r][p] = "absent"
  <2>1. ToSet(order[r]) = {p \in Params : handle[r][p] # "absent"} BY <1>0 DEF RankOK, KeysOK
  <2> QED BY <1>3, <2>1, NoElements
<1>12. hooks[r] = {} /\ next[r] = 1
  BY <1>0, <1>1 DEF RankOK, PlaceOK, KeysOK, Looping, Waits
<1>13. PlaceOK(r)' BY <1>4, <1>5, <1>12 DEF PlaceOK
<1>14. KeysOK(r)'
  <2>1. KeysOK(r) BY <1>0 DEF RankOK
  <2>2. IsInjective(order'[r]) /\ ToSet(order'[r]) = {x \in Params : handle'[r][x] # "absent"}
    BY <1>4, <2>1 DEF KeysOK
  <2> QED BY <1>3, <1>4, <1>10, <1>12, <2>2 DEF KeysOK, Looping, Waits, AfterGradients
<1>15. DelaysOK(r)'
  <2>1. \A p \in Params : delay'[r][p] = Announced(r) BY <1>0, <1>1, <1>4 DEF RankOK, DelaysOK
  <2>2. \A p \in InFlight(r)' : FALSE BY <1>4, <1>11 DEF InFlight
  <2>3. program.extra <= 0 =>
          /\ Announced(r) >= PassesIn(steps[r] + 1) /\ Announced(r) >= PassesIn(steps[r] + 1) - 1
    <3>1. Announced(r) \in Nat /\ program.extra \in Int
      <4>1. /\ program.passes \in Seq(Nat \ {0}) /\ Len(program.passes) = MaxSteps
            /\ program.extra \in Int
        BY <1>0, ProgramsAssumption DEF OptimizerTypeOK, ProgramType
      <4>2. steps[r] + 1 \in 1 .. MaxSteps
        BY <1>0, <1>2, ProgramsAssumption DEF OptimizerTypeOK
      <4> QED BY <4>1, <4>2 DEF Announced
    <3>2. PassesIn(steps[r] + 1) = IF Announced(r) + program.extra > 0
                                   THEN Announced(r) + program.extra ELSE 0
      BY DEF PassesIn, Announced
    <3> QED BY <3>1, <3>2
  <2>4. Remaining(r)' = PassesIn(steps[r] + 1) BY <1>2, <1>10
  <2>5. program' = program BY <1>4
  <2> QED BY <1>10, <2>1, <2>2, <2>3, <2>4, <2>5 DEF DelaysOK, Looping, Waits, AfterGradients
<1>16. FaultsOK(r)' BY <1>2, <1>4 DEF FaultsOK
<1>17. TouchesOK(r)'
  <2>1. InFlight(r)' = InFlight(r) /\ ClosureLate' = ClosureLate BY <1>4, SameProgram DEF InFlight
  <2> QED BY <1>0, <1>2, <1>4, <2>1 DEF RankOK, TouchesOK
<1>18. RankOK(r)' BY <1>13, <1>14, <1>15, <1>16, <1>17 DEF RankOK
<1>19. CallsInv' BY <1>4, <1>7, <1>8, <1>9, <1>18, OneActs
<1> QED BY <1>1, <1>2, <1>3, <1>5, <1>11, <1>19

LEMMA SetPassesCalls ==
    ASSUME CallsInv, NEW r \in Ranks, SetPasses(r)
    PROVE  /\ CallsInv' /\ Proceeds(r) /\ Stage(r) = "set_passes" /\ steps[r] < MaxSteps
           /\ Possible(Stage(r))
<1>0. OptimizerTypeOK /\ RankOK(r) /\ InPlace(r) /\ Doing(r, "set_passes")
  BY DEF CallsInv, RankOK, PlaceOK, SetPasses
<1>1. Stage(r) = "set_passes" BY <1>0, StageOf DEF Kinds
<1>2. steps[r] < MaxSteps /\ Possible(Stage(r)) /\ failed[r] = "no" BY <1>0, DoingIs
<1>3. order[r] = <<>> BY <1>0, <1>1 DEF RankOK, KeysOK
<1>4. /\ delay' = [delay EXCEPT ![r] = [p \in Params |-> Announced(r)]] /\ Return(r)
      /\ program' = program /\ grad' = grad /\ handle' = handle /\ order' = order
      /\ next' = next /\ submitted' = submitted /\ output' = output /\ param' = param
      /\ failed' = failed /\ hooks' = hooks /\ touched' = touched /\ computed' = computed
  BY DEF SetPasses, Announced
<1>5. /\ Proceeds(r) /\ InPlace(r)'
      /\ at' \in [Ranks -> Nat] /\ steps' \in [Ranks -> 0 .. MaxSteps]
      /\ \A q \in Ranks \ {r} : Stays(q)
  BY <1>0, <1>2, <1>4, Returned
<1>6. /\ delay' \in [Ranks -> [Params -> Nat]] /\ \A p \in Params : delay'[r][p] = Announced(r)
      /\ \A q \in Ranks \ {r} : delay'[q] = delay[q]
  <2>1. Announced(r) \in Nat
    <3>1. program.passes \in Seq(Nat \ {0}) /\ Len(program.passes) = MaxSteps
      BY <1>0, ProgramsAssumption DEF OptimizerTypeOK, ProgramType
    <3>2. steps[r] + 1 \in 1 .. MaxSteps BY <1>0, <1>2, ProgramsAssumption DEF OptimizerTypeOK
    <3> QED BY <3>1, <3>2 DEF Announced
  <2> QED BY <1>0, <1>4, <2>1 DEF OptimizerTypeOK
<1>7. OptimizerTypeOK' BY <1>0, <1>4, <1>5, <1>6 DEF OptimizerTypeOK
<1>8. \A q \in Ranks \ {r} : Alone(q) BY <1>4, <1>5, <1>6 DEF Alone
<1>9. \A x \in Params : OperationOK(x)' BY <1>4, NothingStarts DEF CallsInv
<1>10. Stage(r)' = "zero_grad" /\ Announced(r)' = Announced(r)
  BY <1>0, <1>1, <1>2, <1>4, <1>5, NextStage DEF Ends
<1>11. hooks[r] = {} /\ next[r] = 1
  BY <1>0, <1>1 DEF RankOK, PlaceOK, KeysOK, Looping, Waits
<1>12. PlaceOK(r)' BY <1>4, <1>5, <1>11 DEF PlaceOK
<1>13. KeysOK(r)'
  <2>1. KeysOK(r) BY <1>0 DEF RankOK
  <2>2. IsInjective(order'[r]) /\ ToSet(order'[r]) = {x \in Params : handle'[r][x] # "absent"}
    BY <1>4, <2>1 DEF KeysOK
  <2> QED BY <1>3, <1>4, <1>10, <1>11, <2>2 DEF KeysOK, Looping, Waits
<1>14. DelaysOK(r)' BY <1>6, <1>10 DEF DelaysOK, Looping, Waits
<1>15. FaultsOK(r)' BY <1>2, <1>4 DEF FaultsOK
<1>16. TouchesOK(r)'
  <2>1. InFlight(r)' = InFlight(r) /\ ClosureLate' = ClosureLate BY <1>4, SameProgram DEF InFlight
  <2> QED BY <1>0, <1>2, <1>4, <2>1 DEF RankOK, TouchesOK
<1>17. RankOK(r)' BY <1>12, <1>13, <1>14, <1>15, <1>16 DEF RankOK
<1>18. CallsInv' BY <1>4, <1>7, <1>8, <1>9, <1>17, OneActs
<1> QED BY <1>1, <1>2, <1>5, <1>18

LEMMA RefuseSkipCalls ==
    ASSUME CallsInv, NEW r \in Ranks, RefuseSkip(r)
    PROVE  CallsInv'
<1>0. OptimizerTypeOK /\ RankOK(r) /\ InPlace(r) /\ Doing(r, "skip")
  BY DEF CallsInv, RankOK, PlaceOK, RefuseSkip
<1>1. Stage(r) = "skip" BY <1>0, StageOf DEF Kinds
<1>2. Possible(Stage(r)) /\ failed[r] = "no" BY <1>0, DoingIs
<1>3. /\ failed' = [failed EXCEPT ![r] = "skip"] /\ program' = program /\ steps' = steps
      /\ at' = at /\ delay' = delay /\ handle' = handle /\ order' = order /\ next' = next
      /\ submitted' = submitted /\ output' = output /\ param' = param /\ grad' = grad
      /\ hooks' = hooks /\ touched' = touched /\ computed' = computed
  BY DEF RefuseSkip, Raise
<1>4. /\ failed' \in [Ranks -> {"no", "too_many_passes", "dtype", "zero_grad", "skip"}]
      /\ failed'[r] = "skip" /\ \A q \in Ranks \ {r} : failed'[q] = failed[q]
  BY <1>0, <1>3 DEF OptimizerTypeOK
<1>5. OptimizerTypeOK' BY <1>0, <1>3, <1>4 DEF OptimizerTypeOK
<1>6. \A q \in Ranks \ {r} : Alone(q) BY <1>3, <1>4 DEF Alone, Stays
<1>7. \A x \in Params : OperationOK(x)' BY <1>3, NothingStarts DEF CallsInv
<1>8. FaultsOK(r)'
  <2>1. program.style = "skip" /\ IsAdasum BY <1>1, <1>2 DEF Possible
  <2>2. IsAdasum' = IsAdasum /\ program' = program BY <1>3, SameProgram
  <2> QED BY <1>4, <2>1, <2>2 DEF FaultsOK
<1>9. TouchesOK(r)'
  <2>1. ClosureLate' = ClosureLate /\ InFlight(r)' = InFlight(r) BY <1>3, SameProgram DEF InFlight
  <2> QED BY <1>0, <1>2, <1>3, <2>1 DEF RankOK, TouchesOK
<1>10. RankOK(r)' BY <1>0, <1>3, <1>8, <1>9, Ended DEF Stays
<1> QED BY <1>3, <1>5, <1>6, <1>7, <1>10, OneActs

\* All ranks start in the first stage of the first iteration.
LEMMA InitStage ==
    ASSUME OptimizerInit, NEW r \in Ranks
    PROVE  /\ program \in Programs /\ 1 \in 1 .. MaxSteps /\ 1 \in 1 .. LastCall(1)
           /\ steps[r] = 0 /\ at[r] = 1 /\ Stage(r) = FirstStage
           /\ program.passes[1] \in Nat
<1>1. program \in Programs /\ steps[r] = 0 /\ at[r] = 1 BY DEF OptimizerInit
<1>2. 1 \in 1 .. MaxSteps /\ 0 < MaxSteps BY ProgramsAssumption
<1>3. PassesIn(1) \in Nat BY <1>1, <1>2, GradientsAre
<1>4. Zeroing \in Nat \ {0} /\ Len(Behind) \in Nat BY <1>1, EndStages
<1>5. 1 \in 1 .. LastCall(1) BY <1>3, <1>4 DEF LastCall, LastPass
<1>6. StageAt(1, 1) = FirstStage BY <1>1, <1>2, <1>5, StagesFollow
<1>7. Stage(r) = FirstStage BY <1>1, <1>2, <1>6 DEF Stage
<1>8. program.passes \in Seq(Nat \ {0}) /\ Len(program.passes) = MaxSteps
  BY <1>1, ProgramsAssumption DEF ProgramType
<1> QED BY <1>1, <1>2, <1>5, <1>7, <1>8

LEMMA InitCalls == OptimizerInit => CallsInv
<1> SUFFICES ASSUME OptimizerInit PROVE CallsInv OBVIOUS
<1>1. 0 \in Ranks BY SizeAssumption DEF Ranks
<1>2. program \in Programs /\ program.passes[1] \in Nat BY <1>1, InitStage
<1>3. /\ steps = [r \in Ranks |-> 0] /\ at = [r \in Ranks |-> 1] /\ next = [r \in Ranks |-> 1]
      /\ hooks = [r \in Ranks |-> {}] /\ touched = [r \in Ranks |-> {}]
      /\ delay = [r \in Ranks |-> [p \in Params |-> program.passes[1]]]
      /\ computed = [r \in Ranks |-> [p \in Params |-> 0]]
      /\ handle = [r \in Ranks |-> [p \in Params |-> "absent"]]
      /\ order = [r \in Ranks |-> <<>>] /\ failed = [r \in Ranks |-> "no"]
      /\ grad = [r \in Ranks |-> [p \in Params |-> Zero]]
      /\ output = [r \in Ranks |-> [p \in Params |-> Zero]]
      /\ param = [r \in Ranks |-> [p \in Params |-> Zero]]
      /\ submitted = [p \in Params |-> [r \in Ranks |-> NoValue]]
  BY DEF OptimizerInit
<1>4. OptimizerTypeOK
  <2>1. Zero \in [Ranks -> Nat] BY DEF Zero
  <2>2. <<>> \in Seq(Params) OBVIOUS
  <2>3. 0 \in 0 .. MaxSteps BY ProgramsAssumption
  <2>4. /\ steps \in [Ranks -> 0 .. MaxSteps] /\ at \in [Ranks -> Nat] /\ next \in [Ranks -> Nat]
        /\ hooks \in [Ranks -> SUBSET Params] /\ touched \in [Ranks -> SUBSET Params]
    BY <1>3, <2>3
  <2>5. /\ delay \in [Ranks -> [Params -> Nat]] /\ computed \in [Ranks -> [Params -> Nat]]
        /\ handle \in [Ranks -> [Params -> {"absent", "none", "flying", "done"}]]
        /\ order \in [Ranks -> Seq(Params)]
        /\ failed \in [Ranks -> {"no", "too_many_passes", "dtype", "zero_grad", "skip"}]
    BY <1>2, <1>3, <2>2
  <2>6. /\ grad \in [Ranks -> [Params -> [Ranks -> Nat]]]
        /\ output \in [Ranks -> [Params -> [Ranks -> Nat]]]
        /\ param \in [Ranks -> [Params -> [Ranks -> Nat]]]
        /\ submitted \in [Params -> [Ranks -> {NoValue} \cup [Ranks -> Nat]]]
    BY <1>3, <2>1
  <2> QED BY <1>2, <2>4, <2>5, <2>6 DEF OptimizerTypeOK
<1>5. ASSUME NEW r \in Ranks PROVE RankOK(r)
  <2>1. /\ 1 \in 1 .. MaxSteps /\ 1 \in 1 .. LastCall(1) /\ Stage(r) = FirstStage BY <1>5, InitStage
  <2>2. /\ steps[r] = 0 /\ at[r] = 1 /\ next[r] = 1 /\ hooks[r] = {} /\ touched[r] = {}
        /\ order[r] = <<>> /\ failed[r] = "no"
        /\ \A p \in Params : delay[r][p] = program.passes[1] /\ handle[r][p] = "absent"
    BY <1>3, <1>5
  <2>3. Stage(r) \in {"first_submit", "set_passes", "zero_grad"} BY <2>1 DEF FirstStage
  <2>4. PlaceOK(r)
    <3>1. steps[r] \in 0 .. MaxSteps /\ steps[r] < MaxSteps /\ steps[r] + 1 = 1
      <4>1. MaxSteps \in Nat /\ 0 < MaxSteps BY ProgramsAssumption
      <4> QED BY <2>2, <4>1
    <3> QED BY <2>1, <2>2, <3>1 DEF PlaceOK, InPlace
  <2>5. KeysOK(r)
    <3>1. {p \in Params : handle[r][p] # "absent"} = {} BY <2>2
    <3> QED BY <2>2, <2>3, <3>1, NoElements DEF KeysOK, Looping, Waits
  <2>6. DelaysOK(r)
    <3>1. Announced(r) = program.passes[1] BY <2>2 DEF Announced
    <3> QED BY <2>2, <2>3, <3>1 DEF DelaysOK, Looping, Waits
  <2>7. FaultsOK(r) /\ TouchesOK(r) BY <2>2 DEF FaultsOK, TouchesOK
  <2> QED BY <2>4, <2>5, <2>6, <2>7 DEF RankOK
<1>6. \A p \in Params : OperationOK(p)
  <2> TAKE p \in Params
  <2>1. \A r \in Ranks : submitted[p][r] = NoValue /\ handle[r][p] = "absent" BY <1>3
  <2> QED BY <1>1, <2>1 DEF OperationOK
<1> QED BY <1>4, <1>5, <1>6 DEF CallsInv

LEMMA NextCalls == CallsInv /\ [OptimizerNext]_optVars => CallsInv'
<1> SUFFICES ASSUME CallsInv, [OptimizerNext]_optVars PROVE CallsInv' OBVIOUS
<1>1. CASE OptimizerNext
  <2>1. PICK r \in Ranks : RankStep(r) BY <1>1 DEF OptimizerNext
  <2>2. CASE Forward(r) BY <2>2, ForwardCalls
  <2>3. CASE \E p \in Params : Hook(r, p) \/ SubmitRest(r, p)
    <3>1. PICK p \in Params : Hook(r, p) \/ SubmitRest(r, p) BY <2>3
    <3>2. CASE Hook(r, p) /\ delay[r][p] <= 0 BY <3>2, HookFailsCalls
    <3>3. CASE Hook(r, p) /\ ~(delay[r][p] <= 0) BY <3>3, HookCalls
    <3>4. CASE SubmitRest(r, p) BY <3>4, SubmitRestCalls
    <3> QED BY <3>1, <3>2, <3>3, <3>4
  <2>4. CASE AllSubmitted(r) BY <2>4, AllSubmittedCalls
  <2>5. CASE Wait(r) BY <2>5, WaitCalls
  <2>6. CASE FinishSubmit(r) BY <2>6, FinishSubmitCalls
  <2>7. CASE FinishWait(r) BY <2>7, FinishWaitCalls
  <2>8. CASE Apply(r) BY <2>8, ApplyCalls
  <2>9. CASE ZeroGrad(r) BY <2>9, ZeroGradCalls
  <2>10. CASE SetPasses(r) BY <2>10, SetPassesCalls
  <2>11. CASE RefuseSkip(r) BY <2>11, RefuseSkipCalls
  <2> QED BY <2>1, <2>2, <2>3, <2>4, <2>5, <2>6, <2>7, <2>8, <2>9, <2>10, <2>11 DEF RankStep
<1>2. CASE UNCHANGED optVars
  <2>1. /\ program' = program /\ steps' = steps /\ at' = at /\ delay' = delay /\ handle' = handle
        /\ order' = order /\ next' = next /\ grad' = grad /\ submitted' = submitted
        /\ output' = output /\ param' = param /\ computed' = computed /\ failed' = failed
        /\ hooks' = hooks /\ touched' = touched
    BY <1>2 DEF optVars
  <2>2. OptimizerTypeOK' BY <2>1 DEF CallsInv, OptimizerTypeOK
  <2>3. \A q \in Ranks : Alone(q) BY <2>1 DEF Alone, Stays
  <2>4. \A q \in Ranks : RankOK(q)' BY <2>1, <2>3, AloneKeeps DEF CallsInv
  <2>5. \A p \in Params : OperationOK(p)' BY <2>1, NothingStarts DEF CallsInv
  <2> QED BY <2>2, <2>4, <2>5 DEF CallsInv
<1> QED BY <1>1, <1>2

LEMMA CallsInvariant == OptimizerSpec => []CallsInv
BY InitCalls, NextCalls, PTL DEF OptimizerSpec

\* The invariant says that the exceptions are just.
LEMMA CallsAreJust == CallsInv => OptimizerInv
<1> SUFFICES ASSUME CallsInv PROVE OptimizerInv OBVIOUS
<1>1. OptimizerTypeOK BY DEF CallsInv
<1>2. TouchIsReported
  <2> SUFFICES ASSUME NEW r \in Ranks
               PROVE  \/ touched[r] = {} \/ failed[r] = "too_many_passes"
                      \/ hooks[r] \cap touched[r] # {}
                      \/ (program.style = "closure" /\ ~IsAdasum)
    BY DEF TouchIsReported
  <2>1. TouchesOK(r) BY DEF CallsInv, RankOK
  <2> QED BY <2>1 DEF TouchesOK, ClosureLate
<1>3. OnlyMisuseFails BY DEF OnlyMisuseFails, CallsInv, RankOK, FaultsOK
<1> QED BY <1>1, <1>2, <1>3 DEF OptimizerInv

\* The exceptions are just: hooks and submissions that race with an operation are
\* reported by the assertion on _allreduce_delay (torch/__init__.py), and nothing
\* but a misuse is.
THEOREM ExceptionsAreJust == OptimizerSpec => []OptimizerInv
BY CallsInvariant, CallsAreJust, PTL

-----------------------------------------------------------------------------
(* What the invariant of the calls says of the values.                     *)

LEMMA StageKinds ==
    ASSUME CallsInv, ~ClosureLate, NEW q \in Ranks
    PROVE  /\ IsAdasum => Stage(q) \in {"set_passes", "zero_grad", "backward", "missing", "finish",
                                        "skip", "over"}
           /\ ~IsAdasum => Stage(q) \in {"set_passes", "zero_grad", "backward", "submit", "wait",
                                         "submit_again", "wait_again", "apply", "over"}
           /\ Stage(q) \in {"submit_again", "wait_again"} => Rounds = 2
           /\ steps[q] < MaxSteps => Possible(Stage(q))
           /\ ~(steps[q] < MaxSteps) => Stage(q) = "over"
<1>1. program \in Programs /\ steps[q] \in 0 .. MaxSteps /\ MaxSteps \in Nat
  BY ProgramsAssumption DEF CallsInv, OptimizerTypeOK
<1>2. CASE steps[q] < MaxSteps
  <2>1. at[q] \in 1 .. LastCall(steps[q] + 1) BY <1>2 DEF CallsInv, RankOK, PlaceOK, InPlace
  <2>2. steps[q] + 1 \in 1 .. MaxSteps BY <1>1, <1>2
  <2>3. Possible(Stage(q)) BY <1>1, <1>2, <2>1, <2>2, StagesFollow DEF Stage
  <2> QED BY <1>2, <2>3 DEF Possible, Rounds
<1>3. CASE ~(steps[q] < MaxSteps)
  <2>1. Stage(q) = "over" BY <1>3 DEF Stage
  <2> QED BY <1>3, <2>1
<1> QED BY <1>2, <1>3

LEMMA PastIs ==
    ASSUME CallsInv, ~ClosureLate, NEW q \in Ranks
    PROVE  /\ Rounds \in {1, 2} /\ Past(q) \in 0 .. Rounds
           /\ Past(q) = Rounds <=> Stage(q) = "apply"
           /\ Past(q) > 0 <=> Stage(q) \in {"submit_again", "wait_again", "apply"}
           /\ Stage(q) \in OpenStages => Past(q) = 0
           /\ Past(q) > 0 => ~IsAdasum
<1>1. Rounds \in {1, 2} BY DEF Rounds
<1>2. CASE Stage(q) \in {"submit_again", "wait_again"}
  <2>1. Rounds = 2 /\ Past(q) = 1 /\ ~IsAdasum BY <1>2, StageKinds DEF Past
  <2> QED BY <1>2, <2>1 DEF OpenStages
<1>3. CASE Stage(q) = "apply"
  <2>1. Past(q) = Rounds /\ ~IsAdasum BY <1>3, StageKinds DEF Past
  <2> QED BY <1>1, <1>3, <2>1 DEF OpenStages
<1>4. CASE Stage(q) \notin {"submit_again", "wait_again", "apply"}
  <2>1. Past(q) = 0 BY <1>4 DEF Past
  <2> QED BY <1>1, <1>4, <2>1
<1> QED BY <1>2, <1>3, <1>4

LEMMA NotAdded ==
    ASSUME CallsInv, NEW q \in Ranks, NEW p \in Params, handle[q][p] # "done"
    PROVE  ~Added(q, p)
<1> SUFFICES ASSUME NEW i \in 1 .. next[q] - 1, order[q][i] = p PROVE FALSE BY DEF Added
<1>1. KeysOK(q) BY DEF CallsInv, RankOK
<1>2. CASE Stage(q) \in Looping BY <1>1, <1>2 DEF KeysOK
<1>3. CASE Stage(q) \notin Looping
  <2>1. next[q] = 1 BY <1>1, <1>3 DEF KeysOK
  <2> QED BY <2>1
<1> QED BY <1>2, <1>3

LEMMA NoHandles ==
    ASSUME CallsInv, NEW q \in Ranks, NEW p \in Params,
           Stage(q) \in {"set_passes", "zero_grad", "apply", "over"}
    PROVE  handle[q][p] = "absent"
<1>1. order[q] = <<>> /\ ToSet(order[q]) = {x \in Params : handle[q][x] # "absent"}
  BY DEF CallsInv, RankOK, KeysOK
<1> QED BY <1>1, NoElements

LEMMA Numbers ==
    ASSUME CallsInv, ~ClosureLate, NEW q \in Ranks, NEW p \in Params, NEW x \in Ranks
    PROVE  /\ param[q][p][x] \in Nat /\ grad[q][p][x] \in Nat /\ output[q][p][x] \in Nat
           /\ computed[q][p] \in Nat /\ Pending(q, p, x) \in Nat /\ Eventual(q, p, x) \in Nat
           /\ steps[q] \in Nat /\ Count(q, p) \in Nat /\ Unit \in Nat \ {0}
<1>1. /\ param \in [Ranks -> [Params -> [Ranks -> Nat]]]
      /\ grad \in [Ranks -> [Params -> [Ranks -> Nat]]]
      /\ output \in [Ranks -> [Params -> [Ranks -> Nat]]]
      /\ computed \in [Ranks -> [Params -> Nat]] /\ steps \in [Ranks -> 0 .. MaxSteps]
  BY DEF CallsInv, OptimizerTypeOK
<1>2. /\ param[q][p][x] \in Nat /\ grad[q][p][x] \in Nat /\ output[q][p][x] \in Nat
      /\ computed[q][p] \in Nat
  BY <1>1
<1>3. steps[q] \in Nat BY <1>1, ProgramsAssumption
<1>4. Unit \in Nat \ {0} BY SizeAssumption DEF Unit
<1>5. Pending(q, p, x) \in Nat BY <1>2 DEF Pending
<1>6. Eventual(q, p, x) \in Nat BY <1>2, <1>5 DEF Eventual
<1>7. Count(q, p) \in Nat
  <2>1. Rounds \in {1, 2} /\ Past(q) \in 0 .. Rounds BY PastIs
  <2>2. PICK n : n = IF handle[q][p] = "done" THEN 1 ELSE 0 OBVIOUS
  <2>3. n \in {0, 1} BY <2>2
  <2>4. Count(q, p) = Rounds * steps[q] + Past(q) + n BY <2>2 DEF Count
  <2>5. Rounds * steps[q] \in Nat BY <1>3, <2>1
  <2>6. Past(q) \in Nat BY <2>1
  <2> QED BY <2>3, <2>4, <2>5, <2>6
<1> QED BY <1>2, <1>3, <1>4, <1>5, <1>6, <1>7

\* The operations on p and what becomes of it stay as they are.
Kept(q, p) ==
    /\ Count(q, p)' = Count(q, p)
    /\ \A x \in Ranks : Eventual(q, p, x)' = Eventual(q, p, x)

\* A step that has nothing to do with p on rank q.
Idle(q, p) ==
    /\ steps'[q] = steps[q] /\ Past(q)' = Past(q) /\ (Added(q, p)' <=> Added(q, p))
    /\ (Stage(q)' \in OpenStages <=> Stage(q) \in OpenStages)
    /\ handle'[q][p] = handle[q][p] /\ output'[q][p] = output[q][p] /\ grad'[q][p] = grad[q][p]
    /\ param'[q][p] = param[q][p] /\ computed'[q][p] = computed[q][p] /\ failed'[q] = failed[q]
    /\ submitted'[p][q] = submitted[p][q]

LEMMA IdleKeeps ==
    ASSUME program' = program, NEW q \in Ranks, NEW p \in Params, Idle(q, p)
    PROVE  /\ Kept(q, p) /\ (OwnGradient(q, p) => OwnGradient(q, p)')
           /\ (Accounted(q, p) => Accounted(q, p)')
<1>1. Rounds' = Rounds /\ Unit' = Unit BY SameProgram
<1>2. Count(q, p)' = Count(q, p) BY <1>1 DEF Idle, Count
<1>3. \A x \in Ranks : Eventual(q, p, x)' = Eventual(q, p, x) BY DEF Idle, Eventual, Pending
<1>4. Open(q, p)' <=> Open(q, p) BY DEF Idle, Open
<1>5. OwnGradient(q, p) => OwnGradient(q, p)' BY <1>4 DEF Idle, OwnGradient
<1>6. Accounted(q, p) => Accounted(q, p)' BY <1>1, <1>3, <1>4 DEF Idle, Accounted
<1> QED BY <1>2, <1>3, <1>5, <1>6 DEF Kept

\* When nothing is performed, the counts and the values to come stay alike.
LEMMA AlikeKept ==
    ASSUME InRounds, AllAlike, NEW p \in Params, \A q \in Ranks : Kept(q, p)
    PROVE  /\ \A q, r \in Ranks : Count(q, p)' = Count(r, p)'
           /\ \A q, r \in Ranks : \A x \in Ranks : Eventual(q, p, x)' = Eventual(r, p, x)'
BY DEF InRounds, AllAlike, Kept

LEMMA AppliedKept ==
    ASSUME program' = program, AppliedAlike, param' = param,
           ~IsAdasum => \A q \in Ranks : steps'[q] = steps[q]
    PROVE  AppliedAlike'
BY SameProgram DEF AppliedAlike

\* The results that rank q has waited for, while it does not wait.
LEMMA WrittenBackKept ==
    ASSUME CallsInv, NEW q \in Ranks, WrittenBack(q), program' = program, Stays(q),
           order'[q] = order[q], next'[q] = next[q], grad'[q] = grad[q],
           \A x \in Params : handle[q][x] = "done" => output'[q][x] = output[q][x]
    PROVE  WrittenBack(q)'
<1> SUFFICES ASSUME Stage(q)' \in Waits, NEW i \in 1 .. next'[q] - 1
             PROVE  grad'[q][order'[q][i]] = output'[q][order'[q][i]]
  BY DEF WrittenBack
<1>1. Stage(q) \in Waits /\ i \in 1 .. next[q] - 1 BY StageStays
<1>2. /\ next[q] \in 1 .. Len(order[q]) /\ handle[q][order[q][i]] = "done"
      /\ order[q] \in Seq(Params)
  BY <1>1 DEF CallsInv, OptimizerTypeOK, RankOK, KeysOK, Looping
<1>3. order[q][i] \in Params BY <1>1, <1>2
<1> QED BY <1>1, <1>2, <1>3 DEF WrittenBack

-----------------------------------------------------------------------------
(* Operations.                                                             *)

\* Rank r submits gradient g of p: the gradient of its own passes, or in the second
\* round what it has.
Calling(r, p, g) ==
    /\ Async(r, p, g) /\ g \in [Ranks -> Nat]
    /\ handle[r][p] \in {"absent", "none"} /\ failed[r] = "no"
    /\ program' = program /\ param' = param /\ failed' = failed /\ next' = next
    /\ \A q \in Ranks : steps'[q] = steps[q]
    /\ \A q \in Ranks \ {r} : Stays(q) /\ grad'[q] = grad[q] /\ computed'[q] = computed[q]
    /\ \A x \in Params \ {p} : grad'[r][x] = grad[r][x] /\ computed'[r][x] = computed[r][x]
    /\ grad'[r][p] = g
    /\ Stage(r) \in Submits \cup {"backward", "missing", "finish"}
    /\ Stage(r)' \notin Waits /\ Past(r)' = Past(r)
    /\ Stage(r)' \in OpenStages <=> Stage(r) \in OpenStages

Carried(r, p, g) ==
    /\ Stage(r) \in OpenStages =>
          /\ \A x \in Ranks \ {r} : g[x] = 0
          /\ computed'[r][p] \in Nat
          /\ ~(program.style = "both" /\ program.op = "Sum") =>
                Unit * computed'[r][p] = Unit * param[r][p][r] + g[r]
    /\ Stage(r) \notin OpenStages => g = grad[r][p] /\ computed'[r][p] = computed[r][p]

LEMMA CallingAdded ==
    ASSUME CallsInv, NEW r \in Ranks, NEW p \in Params, NEW g, Calling(r, p, g),
           NEW q \in Ranks, NEW x \in Params
    PROVE  Added(q, x)' <=> Added(q, x)
<1>1. IsAdasum' = IsAdasum /\ next'[q] = next[q] BY SameProgram DEF Calling
<1>2. CASE order'[q] = order[q] BY <1>1, <1>2 DEF Added
<1>3. CASE order'[q] # order[q]
  <2>1. q = r /\ handle[r][p] = "absent" BY <1>3 DEF Calling, Async
  <2>2. KeysOK(r) BY DEF CallsInv, RankOK
  <2>3. Stage(r) \notin Looping
    <3>1. Stage(r) \in Looping => p \in {y \in Params : handle[r][y] # "absent"}
      BY <2>2 DEF KeysOK
    <3> QED BY <2>1, <3>1
  <2>4. next[r] = 1 BY <2>2, <2>3 DEF KeysOK
  <2>5. \A i \in 1 .. next[q] - 1 : FALSE BY <2>1, <2>4
  <2> QED BY <1>1, <2>5 DEF Added
<1> QED BY <1>2, <1>3

LEMMA CallingIdle ==
    ASSUME CallsInv, ~ClosureLate, NEW r \in Ranks, NEW p \in Params, NEW g, Calling(r, p, g),
           NEW q \in Ranks, NEW x \in Params, x # p \/ (q # r /\ Awaits(r, p, g))
    PROVE  Idle(q, x)
<1>1. steps'[q] = steps[q] /\ param'[q][x] = param[q][x] /\ failed'[q] = failed[q]
  BY DEF Calling
<1>2. /\ Past(q)' = Past(q)
      /\ Stage(q)' \in OpenStages <=> Stage(q) \in OpenStages
  <2>1. CASE q = r BY <2>1 DEF Calling
  <2>2. CASE q # r
    <3>1. program' = program /\ Stays(q) BY <2>2 DEF Calling
    <3> QED BY <3>1, StageStays
  <2> QED BY <2>1, <2>2
<1>3. Added(q, x)' <=> Added(q, x) BY CallingAdded
<1>4. grad'[q][x] = grad[q][x] /\ computed'[q][x] = computed[q][x]
  BY DEF Calling
<1>5. handle'[q][x] = handle[q][x] /\ output'[q][x] = output[q][x]
      /\ submitted'[x][q] = submitted[x][q]
  <2>1. CASE x # p BY <2>1 DEF Calling, Async
  <2>2. CASE x = p /\ q # r /\ Awaits(r, p, g) BY <2>2 DEF Awaits
  <2> QED BY <2>1, <2>2
<1> QED BY <1>1, <1>2, <1>3, <1>4, <1>5 DEF Idle

\* The operation waits for other ranks.
LEMMA WaitingOwn ==
    ASSUME CallsInv, ~ClosureLate, NEW r \in Ranks, NEW p \in Params, NEW g, Calling(r, p, g),
           Carried(r, p, g), Awaits(r, p, g), Accounted(r, p)
    PROVE  Kept(r, p) /\ OwnGradient(r, p)' /\ Accounted(r, p)'
<1>1. /\ Rounds' = Rounds /\ Unit' = Unit /\ program' = program BY SameProgram DEF Calling
<1>2. /\ handle[r][p] \in {"absent", "none"} /\ handle'[r][p] = "flying" /\ submitted'[p][r] = g
      /\ grad'[r][p] = g /\ param' = param /\ steps'[r] = steps[r] /\ Past(r)' = Past(r)
      /\ failed'[r] = "no" /\ failed[r] = "no"
      /\ Stage(r)' \in OpenStages <=> Stage(r) \in OpenStages
  BY DEF Calling, Awaits
<1>3. Count(r, p)' = Count(r, p) BY <1>1, <1>2 DEF Count
<1>4. Stage(r) \in OpenStages => Past(r) = 0 BY PastIs
<1>5. Past(r) > 0 => g = grad[r][p]
  <2>1. Past(r) = 0 => ~(Past(r) > 0) OBVIOUS
  <2> QED BY <1>4, <2>1 DEF Carried
<1>6. \A x \in Ranks : Eventual(r, p, x)' = Eventual(r, p, x)
  BY <1>2, <1>5 DEF Eventual, Pending
<1>7. OwnGradient(r, p)'
  <2>1. Open(r, p)' => Stage(r) \in OpenStages BY <1>2 DEF Open
  <2> QED BY <1>2, <2>1 DEF OwnGradient, Carried
<1>8. Accounted(r, p)'
  <2>1. /\ Open(r, p)' <=> Stage(r) \in OpenStages
        /\ Open(r, p) <=> Stage(r) \in OpenStages
    BY <1>2 DEF Open
  <2>2. CASE Stage(r) \in OpenStages
    <3>1. ~(Past(r) > 0) BY <1>4, <2>2
    <3>2. Pending(r, p, r)' = 0 BY <1>2, <3>1 DEF Pending
    <3>3. Eventual(r, p, r)' = param[r][p][r]
      <4>1. param[r][p][r] \in Nat BY Numbers
      <4> QED BY <1>2, <3>2, <4>1 DEF Eventual
    <3> QED BY <1>1, <1>2, <2>1, <2>2, <3>3 DEF Accounted, Carried
  <2>3. CASE Stage(r) \notin OpenStages
    <3>1. computed'[r][p] = computed[r][p] BY <2>3 DEF Carried
    <3>2. Eventual(r, p, r)' = Eventual(r, p, r) BY <1>6
    <3>3. ~Open(r, p) /\ ~Open(r, p)' BY <2>1, <2>3
    <3> QED BY <1>1, <1>2, <3>1, <3>2, <3>3 DEF Accounted
  <2> QED BY <2>2, <2>3
<1> QED BY <1>3, <1>6, <1>7, <1>8 DEF Kept

\* Equal counts mean equal iterations and equal rounds.
LEMMA CountsApart ==
    ASSUME NEW n \in {1, 2}, NEW a \in Nat, NEW c \in Nat, NEW b \in 0 .. n, NEW d \in 0 .. n,
           b # n, d # n, n * a + b + 0 = n * c + d + 0
    PROVE  a = c /\ b = d
<1>1. CASE n = 1
  <2>1. b = 0 /\ d = 0 BY <1>1
  <2> QED BY <1>1, <2>1
<1>2. CASE n = 2
  <2>1. (b = 0 \/ b = 1) /\ (d = 0 \/ d = 1) BY <1>2
  <2> QED BY <1>2, <2>1
<1> QED BY <1>1, <1>2

LEMMA Cancelled ==
    ASSUME NEW a \in Nat, NEW b \in Nat, NEW c \in Nat, a + b = a + c
    PROVE  b = c
OBVIOUS

\* When an operation is performed, all ranks are in the same round of the same
\* iteration and have the same parameter.
LEMMA SameRound ==
    ASSUME CallsInv, ValuesInv, ~ClosureLate, NEW r \in Ranks, NEW p \in Params, NEW g,
           Calling(r, p, g), Performed(r, p, g)
    PROVE  /\ \A q \in Ranks : handle[q][p] # "done" /\ steps[q] = steps[r] /\ Past(q) = Past(r)
           /\ \A q \in Ranks \ {r} : handle[q][p] = "flying" /\ submitted[p][q] \in [Ranks -> Nat]
           /\ \A q \in Ranks : \A x \in Ranks : param[q][p][x] = param[r][p][x]
           /\ Past(r) > 0 => \A q \in Ranks : \A x \in Ranks : grad[q][p][x] = grad[r][p][x]
           /\ \A q \in Ranks : \A x \in Ranks :
                 Eventual(q, p, x) = param[q][p][x] + (IF Past(r) > 0 THEN grad[q][p][x] ELSE 0)
           /\ Past(r) = 0 => \A q \in Ranks : Stage(q) \in OpenStages
           /\ Past(r) > 0 => \A q \in Ranks : Stage(q) \in {"submit_again", "wait_again"}
<1>1. handle[r][p] \in {"absent", "none"} BY DEF Calling
<1>2. ASSUME NEW q \in Ranks \ {r}
      PROVE  handle[q][p] = "flying" /\ submitted[p][q] \in [Ranks -> Nat]
  <2>1. submitted[p][q] # NoValue BY <1>2 DEF Performed
  <2>2. OperationOK(p) /\ submitted[p][q] \in {NoValue} \cup [Ranks -> Nat]
    BY DEF CallsInv, OptimizerTypeOK
  <2> QED BY <2>1, <2>2 DEF OperationOK
<1>3. \A q \in Ranks : handle[q][p] # "done" BY <1>1, <1>2
<1>4. \A q \in Ranks : Count(q, p) = Count(r, p) BY DEF ValuesInv, InRounds
<1>5. \A q \in Ranks : Count(q, p) = Rounds * steps[q] + Past(q) + 0 BY <1>3 DEF Count
<1>6. \A q \in Ranks : Past(q) \in 0 .. Rounds /\ Past(q) # Rounds /\ steps[q] \in Nat
  <2> TAKE q \in Ranks
  <2>1. Stage(q) # "apply"
    <3>1. handle[q][p] # "absent" \/ q = r BY <1>2
    <3>2. Stage(r) # "apply" BY DEF Calling, Submits
    <3> QED BY <3>1, <3>2, NoHandles
  <2> QED BY <2>1, PastIs, Numbers
<1>7. ASSUME NEW q \in Ranks PROVE steps[q] = steps[r] /\ Past(q) = Past(r)
  <2>1. Rounds \in {1, 2} BY PastIs
  <2>2. PICK a, b, c, d : a = steps[q] /\ b = Past(q) /\ c = steps[r] /\ d = Past(r) OBVIOUS
  <2>3. Rounds * a + b + 0 = Rounds * c + d + 0 BY <1>4, <1>5, <2>2
  <2>4. a \in Nat /\ c \in Nat /\ b \in 0 .. Rounds /\ d \in 0 .. Rounds /\ b # Rounds /\ d # Rounds
    BY <1>6, <2>2
  <2> QED BY <2>1, <2>2, <2>3, <2>4, CountsApart
<1>8. ASSUME NEW q \in Ranks, NEW x \in Ranks
      PROVE  /\ Eventual(q, p, x) = param[q][p][x] + (IF Past(r) > 0 THEN grad[q][p][x] ELSE 0)
             /\ param[q][p][x] = param[r][p][x]
             /\ Past(r) > 0 => grad[q][p][x] = grad[r][p][x]
  <2>1. \A y \in Ranks :
          Eventual(y, p, x) = param[y][p][x] + (IF Past(r) > 0 THEN grad[y][p][x] ELSE 0)
    BY <1>3, <1>7 DEF Eventual, Pending
  <2>2. Eventual(q, p, x) = Eventual(r, p, x) BY DEF ValuesInv, AllAlike
  <2>3. /\ param[q][p][x] \in Nat /\ param[r][p][x] \in Nat
        /\ grad[q][p][x] \in Nat /\ grad[r][p][x] \in Nat
    BY Numbers
  <2>4. CASE Past(r) > 0
    <3>1. ~IsAdasum BY <2>4, PastIs
    <3>2. param[q] = param[r] BY <1>7, <3>1 DEF ValuesInv, AppliedAlike
    <3>3. /\ Eventual(q, p, x) = param[q][p][x] + grad[q][p][x]
          /\ Eventual(r, p, x) = param[r][p][x] + grad[r][p][x]
      BY <2>1, <2>4
    <3>4. param[q][p][x] = param[r][p][x] BY <3>2
    <3>5. grad[q][p][x] = grad[r][p][x]
      <4>1. param[r][p][x] + grad[q][p][x] = param[r][p][x] + grad[r][p][x] BY <2>2, <3>3, <3>4
      <4> QED BY <2>3, <4>1, Cancelled
    <3> QED BY <2>4, <3>3, <3>4, <3>5
  <2>5. CASE ~(Past(r) > 0) BY <2>1, <2>2, <2>3, <2>5
  <2> QED BY <2>1, <2>4, <2>5
<1>9. ASSUME NEW q \in Ranks
      PROVE  /\ Past(r) = 0 => Stage(q) \in OpenStages
             /\ Past(r) > 0 => Stage(q) \in {"submit_again", "wait_again"}
  <2>1. Stage(q) \notin {"set_passes", "zero_grad", "apply", "over"}
    <3>1. CASE q = r
      <4>1. Stage(r) \in Submits \cup {"backward", "missing", "finish"} BY DEF Calling
      <4> QED BY <3>1, <4>1 DEF Submits
    <3>2. CASE q # r
      <4>1. handle[q][p] # "absent" BY <1>2, <3>2
      <4> QED BY <4>1, NoHandles
    <3> QED BY <3>1, <3>2
  <2>2. Past(q) = Past(r) BY <1>7
  <2>3. Past(q) > 0 <=> Stage(q) \in {"submit_again", "wait_again", "apply"} BY PastIs
  <2>4. Past(r) = 0 => ~(Past(r) > 0) OBVIOUS
  <2> QED BY <2>1, <2>2, <2>3, <2>4, StageKinds DEF OpenStages
<1> QED BY <1>2, <1>3, <1>7, <1>8, <1>9

\* What a whole number of passes makes of a parameter.
LEMMA Averaged ==
    ASSUME NEW c \in Nat, NEW m \in Nat, NEW v \in Nat, Size * c = Size * m + v
    PROVE  m + (v \div Size) = c
<1>1. Size \in Nat \ {0} BY SizeAssumption
<1>2. PICK d \in Int : d = c - m OBVIOUS
<1>3. v = Size * d
  <2>1. Size * c = Size * m + Size * d BY <1>1, <1>2
  <2>2. Size * c \in Int /\ Size * m \in Int /\ Size * d \in Int BY <1>1
  <2> QED BY <2>1, <2>2
<1>4. \A e \in Int : (Size * e) \div Size = e BY <1>1
<1>5. v \div Size = d BY <1>3, <1>4
<1> QED BY <1>2, <1>5

\* The operation is performed.
LEMMA PerformedOwn ==
    ASSUME CallsInv, ValuesInv, ~ClosureLate, NEW r \in Ranks, NEW p \in Params, NEW g,
           Calling(r, p, g), Carried(r, p, g), Performed(r, p, g)
    PROVE  /\ \A q, s \in Ranks : Count(q, p)' = Count(s, p)'
           /\ \A q, s \in Ranks : \A x \in Ranks : Eventual(q, p, x)' = Eventual(s, p, x)'
           /\ \A q \in Ranks : OwnGradient(q, p)' /\ Accounted(q, p)'
<1> DEFINE values == [submitted[p] EXCEPT ![r] = g]
<1>1. /\ \A q \in Ranks : handle[q][p] # "done" /\ steps[q] = steps[r] /\ Past(q) = Past(r)
      /\ \A q \in Ranks \ {r} : handle[q][p] = "flying" /\ submitted[p][q] \in [Ranks -> Nat]
      /\ \A q \in Ranks : \A x \in Ranks : param[q][p][x] = param[r][p][x]
      /\ Past(r) > 0 => \A q \in Ranks : \A x \in Ranks : grad[q][p][x] = grad[r][p][x]
      /\ \A q \in Ranks : \A x \in Ranks :
            Eventual(q, p, x) = param[q][p][x] + (IF Past(r) > 0 THEN grad[q][p][x] ELSE 0)
      /\ Past(r) = 0 => \A q \in Ranks : Stage(q) \in OpenStages
      /\ Past(r) > 0 => \A q \in Ranks : Stage(q) \in {"submit_again", "wait_again"}
  BY SameRound
<1>2. /\ program' = program /\ param' = param /\ failed' = failed /\ g \in [Ranks -> Nat]
      /\ \A q \in Ranks : steps'[q] = steps[q]
      /\ \A q \in Ranks \ {r} : computed'[q] = computed[q]
  BY DEF Calling
<1>3. /\ IsAdasum' = IsAdasum /\ Rounds' = Rounds /\ Unit' = Unit
  BY <1>2, SameProgram
<1>4. /\ values \in [Ranks -> [Ranks -> Nat]] /\ values[r] = g
      /\ \A q \in Ranks \ {r} : values[q] = submitted[p][q]
  <2>1. submitted[p] \in [Ranks -> {NoValue} \cup [Ranks -> Nat]]
    BY DEF CallsInv, OptimizerTypeOK
  <2> QED BY <1>1, <1>2, <2>1
<1>5. \A q \in Ranks : handle'[q][p] = "done" /\ output'[q][p] = Reduced(values)
  BY DEF Performed
<1> HIDE DEF values
<1>6. PICK result : result = Reduced(values) OBVIOUS
<1>7. /\ result \in [Ranks -> Nat]
      /\ \A x \in Ranks :
            /\ (\A q \in Ranks \ {x} : values[q][x] = 0) =>
                  result[x] = IF program.op = "Average" THEN values[x][x] \div Size ELSE values[x][x]
            /\ (\A q \in Ranks : values[q][x] = values[x][x]) =>
                  result[x] = IF program.op = "Average" THEN values[x][x] ELSE Size * values[x][x]
  <2>1. ASSUME NEW x \in Ranks
        PROVE  /\ Reduced(values) \in [Ranks -> Nat]
               /\ (\A q \in Ranks \ {x} : values[q][x] = 0) =>
                     Reduced(values)[x] = IF program.op = "Average" THEN values[x][x] \div Size
                                          ELSE values[x][x]
               /\ (\A q \in Ranks : values[q][x] = values[x][x]) =>
                     Reduced(values)[x] = IF program.op = "Average" THEN values[x][x]
                                          ELSE Size * values[x][x]
    BY <1>4, ReducedIs
  <2> QED BY <1>6, <2>1
<1>8. \A q \in Ranks : ~Added(q, p)' BY <1>1, CallingAdded, NotAdded
<1>9. \A q \in Ranks : \A x \in Ranks : Eventual(q, p, x)' = param[q][p][x] + result[x]
  BY <1>2, <1>5, <1>6, <1>8 DEF Eventual, Pending
<1>10. \A q \in Ranks : Past(q)' = Past(q)
  <2> TAKE q \in Ranks
  <2>1. CASE q = r BY <2>1 DEF Calling
  <2>2. CASE q # r
    <3>1. Stays(q) BY <2>2 DEF Calling
    <3> QED BY <1>2, <3>1, StageStays
  <2> QED BY <2>1, <2>2
<1>11. \A q \in Ranks : Count(q, p)' = Rounds * steps[r] + Past(r) + 1
  BY <1>1, <1>2, <1>3, <1>5, <1>10 DEF Count
<1>12. \A q \in Ranks : ~Open(q, p)' BY <1>5 DEF Open
<1>13. \A q \in Ranks : OwnGradient(q, p)' BY <1>5, <1>12 DEF OwnGradient
<1>14. ASSUME NEW q \in Ranks PROVE Accounted(q, p)'
  <2> SUFFICES ASSUME ~(program.style = "both" /\ program.op = "Sum"), failed[q] = "no"
               PROVE  param[q][p][q] + result[q] = computed'[q][p]
    BY <1>2, <1>9, <1>12 DEF Accounted
  <2>1. /\ param[q][p][q] \in Nat /\ grad[q][p][q] \in Nat /\ computed[q][p] \in Nat
        /\ values[q][q] \in Nat
    BY <1>4, Numbers
  <2>2. Accounted(q, p) /\ \A s \in Ranks : OwnGradient(s, p) BY DEF ValuesInv
  <2>3. CASE Past(r) = 0
    <3>0. ~(Past(r) > 0) BY <2>3
    <3>1. \A s \in Ranks : Open(s, p) BY <1>1, <2>3 DEF Open
    <3>2. \A s \in Ranks \ {q} : values[s][q] = 0
      <4> TAKE s \in Ranks \ {q}
      <4>1. CASE s = r
        <5>1. Stage(r) \in OpenStages BY <1>1, <2>3
        <5> QED BY <1>4, <4>1, <5>1 DEF Carried
      <4>2. CASE s # r BY <1>1, <1>4, <2>2, <3>1, <4>2 DEF OwnGradient
      <4> QED BY <4>1, <4>2
    <3>3. result[q] = IF program.op = "Average" THEN values[q][q] \div Size ELSE values[q][q]
      BY <1>7, <3>2
    <3>4. computed'[q][p] \in Nat /\ Unit * computed'[q][p] = Unit * param[q][p][q] + values[q][q]
      <4>1. CASE q = r
        <5>1. Stage(r) \in OpenStages BY <1>1, <2>3
        <5> QED BY <1>4, <4>1, <5>1 DEF Carried
      <4>2. CASE q # r
        <5>1. Eventual(q, p, q) = param[q][p][q]
          <6>1. Eventual(q, p, q) = param[q][p][q] + 0 BY <1>1, <3>0
          <6> QED BY <2>1, <6>1
        <5>2. Unit * computed[q][p] = Unit * param[q][p][q] + grad[q][p][q]
          BY <2>2, <3>1, <5>1 DEF Accounted
        <5>3. submitted[p][q] = grad[q][p] BY <1>1, <2>2, <4>2 DEF OwnGradient
        <5> QED BY <1>2, <1>4, <2>1, <4>2, <5>2, <5>3
      <4> QED BY <4>1, <4>2
    <3>5. CASE program.op = "Average"
      <4>1. Unit = Size BY <3>5 DEF Unit
      <4>2. param[q][p][q] + (values[q][q] \div Size) = computed'[q][p]
        BY <2>1, <3>4, <4>1, Averaged
      <4> QED BY <3>3, <3>5, <4>2
    <3>6. CASE program.op # "Average"
      <4>1. Unit = 1 /\ result[q] = values[q][q] BY <3>3, <3>6 DEF Unit
      <4> QED BY <2>1, <3>4, <4>1
    <3> QED BY <3>5, <3>6
  <2>4. CASE Past(r) > 0
    <3>1. \A s \in Ranks : Stage(s) \in {"submit_again", "wait_again"} BY <1>1, <2>4
    <3>2. program.op = "Average"
      <4>1. Rounds = 2 /\ ~IsAdasum BY <2>4, <3>1, StageKinds, PastIs
      <4>2. program.style = "both" BY <4>1 DEF Rounds
      <4>3. program.op \in {"Average", "Sum", "Adasum"}
        BY ProgramsAssumption DEF CallsInv, OptimizerTypeOK, ProgramType
      <4> QED BY <4>1, <4>2, <4>3 DEF IsAdasum
    <3>3. \A s \in Ranks : values[s] = grad[s][p]
      <4> TAKE s \in Ranks
      <4>1. CASE s = r
        <5>1. Stage(r) \notin OpenStages BY <3>1 DEF OpenStages
        <5> QED BY <1>4, <4>1, <5>1 DEF Carried
      <4>2. CASE s # r
        <5>1. failed[s] # "too_many_passes" BY <3>1 DEF CallsInv, RankOK, FaultsOK
        <5> QED BY <1>1, <1>4, <2>2, <4>2, <5>1 DEF OwnGradient
      <4> QED BY <4>1, <4>2
    <3>4. \A s \in Ranks : values[s][q] = values[q][q]
      <4>1. \A s \in Ranks : grad[s][p][q] = grad[r][p][q] BY <1>1, <2>4
      <4> QED BY <3>3, <4>1
    <3>5. result[q] = grad[q][p][q] BY <1>7, <3>2, <3>3, <3>4
    <3>6. ~Open(q, p) BY <3>1 DEF Open, OpenStages
    <3>7. Eventual(q, p, q) = computed[q][p] BY <2>2, <3>6 DEF Accounted
    <3>8. Eventual(q, p, q) = param[q][p][q] + grad[q][p][q] BY <1>1, <2>4
    <3>9. computed'[q][p] = computed[q][p]
      <4>1. CASE q = r
        <5>1. Stage(r) \notin OpenStages BY <3>1 DEF OpenStages
        <5> QED BY <4>1, <5>1 DEF Carried
      <4>2. CASE q # r BY <1>2, <4>2
      <4> QED BY <4>1, <4>2
    <3> QED BY <3>5, <3>7, <3>8, <3>9
  <2>5. Past(r) \in 0 .. Rounds /\ Rounds \in {1, 2} BY PastIs
  <2>6. Past(r) = 0 \/ Past(r) > 0 BY <2>5
  <2> QED BY <2>3, <2>4, <2>6
<1>15. \A q, s \in Ranks : Count(q, p)' = Count(s, p)' BY <1>11
<1>16. \A q, s \in Ranks : \A x \in Ranks : Eventual(q, p, x)' = Eventual(s, p, x)'
  <2> TAKE q, s \in Ranks
  <2> TAKE x \in Ranks
  <2>1. param[q][p][x] = param[s][p][x] BY <1>1
  <2> QED BY <1>9, <2>1
<1> QED BY <1>13, <1>14, <1>15, <1>16

\* A step with an operation keeps the invariant of the values.
LEMMA CallingValues ==
    ASSUME CallsInv, ValuesInv, ~ClosureLate, NEW r \in Ranks, NEW p \in Params, NEW g,
           Calling(r, p, g), Carried(r, p, g)
    PROVE  ValuesInv'
<1>1. Awaits(r, p, g) \/ Performed(r, p, g) BY DEF Calling, Async
<1>2. program' = program BY DEF Calling
<1>3. ASSUME NEW q \in Ranks, NEW x \in Params, x # p
      PROVE  Kept(q, x) /\ OwnGradient(q, x)' /\ Accounted(q, x)'
  <2>1. Idle(q, x) BY <1>3, CallingIdle
  <2> QED BY <1>2, <2>1, IdleKeeps DEF ValuesInv
<1>4. /\ \A q, s \in Ranks : Count(q, p)' = Count(s, p)'
      /\ \A q, s \in Ranks : \A x \in Ranks : Eventual(q, p, x)' = Eventual(s, p, x)'
      /\ \A q \in Ranks : OwnGradient(q, p)' /\ Accounted(q, p)'
  <2>1. CASE Awaits(r, p, g)
    <3>1. \A q \in Ranks : Kept(q, p) /\ OwnGradient(q, p)' /\ Accounted(q, p)'
      <4> TAKE q \in Ranks
      <4>1. CASE q = r BY <2>1, <4>1, WaitingOwn DEF ValuesInv
      <4>2. CASE q # r
        <5>1. Idle(q, p) BY <2>1, <4>2, CallingIdle
        <5> QED BY <1>2, <5>1, IdleKeeps DEF ValuesInv
      <4> QED BY <4>1, <4>2
    <3> QED BY <3>1, AlikeKept DEF ValuesInv
  <2>2. CASE Performed(r, p, g) BY <2>2, PerformedOwn
  <2> QED BY <1>1, <2>1, <2>2
<1>5. ASSUME NEW x \in Params
      PROVE  /\ \A q, s \in Ranks : Count(q, x)' = Count(s, x)'
             /\ \A q, s \in Ranks : \A y \in Ranks : Eventual(q, x, y)' = Eventual(s, x, y)'
  <2>1. CASE x = p BY <1>4, <2>1
  <2>2. CASE x # p
    <3>1. \A q \in Ranks : Kept(q, x) BY <1>3, <2>2
    <3> QED BY <3>1, AlikeKept DEF ValuesInv
  <2> QED BY <2>1, <2>2
<1>6. AppliedAlike'
  <2>1. param' = param /\ \A q \in Ranks : steps'[q] = steps[q] BY DEF Calling
  <2> QED BY <1>2, <2>1, AppliedKept DEF ValuesInv
<1>7. ASSUME NEW q \in Ranks PROVE WrittenBack(q)'
  <2>1. CASE q = r
    <3>1. Stage(r)' \notin Waits BY DEF Calling
    <3> QED BY <2>1, <3>1 DEF WrittenBack
  <2>2. CASE q # r
    <3>1. /\ Stays(q) /\ order'[q] = order[q] /\ next'[q] = next[q] /\ grad'[q] = grad[q]
      BY <2>2 DEF Calling, Async
    <3>2. ASSUME NEW x \in Params, handle[q][x] = "done" PROVE output'[q][x] = output[q][x]
      <4>1. CASE x # p BY <4>1 DEF Calling, Async
      <4>2. CASE x = p /\ Awaits(r, p, g) BY <4>2 DEF Awaits
      <4>3. CASE x = p /\ Performed(r, p, g)
        <5>1. handle[q][p] # "done" BY <4>3, SameRound
        <5> QED BY <3>2, <4>3, <5>1
      <4> QED BY <1>1, <4>1, <4>2, <4>3
    <3> QED BY <1>2, <3>1, <3>2, WrittenBackKept DEF ValuesInv
  <2> QED BY <2>1, <2>2
<1>8. InRounds' BY <1>5 DEF InRounds
<1>9. AllAlike' BY <1>5 DEF AllAlike
<1>10. \A q \in Ranks : \A x \in Params : OwnGradient(q, x)' /\ Accounted(q, x)'
  <2> TAKE q \in Ranks
  <2> TAKE x \in Params
  <2>1. CASE x = p BY <1>4, <2>1
  <2>2. CASE x # p BY <1>3, <2>2
  <2> QED BY <2>1, <2>2
<1> QED BY <1>6, <1>7, <1>8, <1>9, <1>10 DEF ValuesInv

-----------------------------------------------------------------------------
(* The steps of a rank keep the invariant of the values.                   *)

\* A rank that nothing happens to.
Still(q) ==
    /\ Stays(q) /\ order'[q] = order[q] /\ next'[q] = next[q] /\ grad'[q] = grad[q]
    /\ param'[q] = param[q] /\ computed'[q] = computed[q] /\ failed'[q] = failed[q]
    /\ handle'[q] = handle[q] /\ output'[q] = output[q]
    /\ \A p \in Params : submitted'[p][q] = submitted[p][q]

LEMMA StillKeeps ==
    ASSUME CallsInv, ValuesInv, program' = program, NEW q \in Ranks, Still(q)
    PROVE  /\ \A p \in Params : Kept(q, p) /\ OwnGradient(q, p)' /\ Accounted(q, p)'
           /\ WrittenBack(q)'
<1>1. Stage(q)' = Stage(q) /\ Past(q)' = Past(q) BY StageStays DEF Still
<1>2. IsAdasum' = IsAdasum BY SameProgram
<1>3. ASSUME NEW p \in Params PROVE Idle(q, p)
  <2>1. Added(q, p)' <=> Added(q, p) BY <1>2 DEF Added, Still
  <2> QED BY <1>1, <2>1 DEF Idle, Still, Stays
<1>4. \A p \in Params : Kept(q, p) /\ OwnGradient(q, p)' /\ Accounted(q, p)'
  BY <1>3, IdleKeeps DEF ValuesInv
<1>5. WrittenBack(q)' BY WrittenBackKept DEF ValuesInv, Still
<1> QED BY <1>4, <1>5

\* What is left to show when rank r acts and no operation is performed.
LEMMA OneValues ==
    ASSUME CallsInv, ValuesInv, program' = program, NEW r \in Ranks,
           \A q \in Ranks \ {r} : Still(q), WrittenBack(r)', AppliedAlike',
           \A p \in Params : Kept(r, p) /\ OwnGradient(r, p)' /\ Accounted(r, p)'
    PROVE  ValuesInv'
<1>1. ASSUME NEW q \in Ranks
      PROVE  /\ \A p \in Params : Kept(q, p) /\ OwnGradient(q, p)' /\ Accounted(q, p)'
             /\ WrittenBack(q)'
  <2>1. CASE q = r BY <2>1
  <2>2. CASE q # r BY <2>2, StillKeeps
  <2> QED BY <2>1, <2>2
<1>2. ASSUME NEW p \in Params
      PROVE  /\ \A q, s \in Ranks : Count(q, p)' = Count(s, p)'
             /\ \A q, s \in Ranks : \A x \in Ranks : Eventual(q, p, x)' = Eventual(s, p, x)'
  <2>1. \A q \in Ranks : Kept(q, p) BY <1>1
  <2> QED BY <2>1, AlikeKept DEF ValuesInv
<1>3. InRounds' BY <1>2 DEF InRounds
<1>4. AllAlike' BY <1>2 DEF AllAlike
<1> QED BY <1>1, <1>3, <1>4 DEF ValuesInv

\* A step that has nothing to do with the values.
LEMMA StillValues ==
    ASSUME CallsInv, ValuesInv, program' = program, \A q \in Ranks : Still(q), param' = param
    PROVE  ValuesInv'
<1>1. PICK r \in Ranks : TRUE BY SizeAssumption DEF Ranks
<1>2. AppliedAlike' BY AppliedKept DEF ValuesInv, Still, Stays
<1> QED BY <1>1, <1>2, StillKeeps, OneValues

\* A rank that is ended by an exception.
LEMMA RaisesValues ==
    ASSUME CallsInv, ValuesInv, ~ClosureLate, program' = program, NEW r \in Ranks,
           \A q \in Ranks \ {r} : Still(q), Stays(r), handle'[r] = handle[r],
           order'[r] = order[r], next'[r] = next[r], param' = param, output'[r] = output[r],
           \A p \in Params : submitted'[p][r] = submitted[p][r],
           failed[r] = "no", failed'[r] # "no",
           \/ grad'[r] = grad[r]
           \/ /\ failed'[r] = "too_many_passes" /\ Stage(r) = "backward"
              /\ \A p \in Params : \A x \in Ranks \ {r} : grad'[r][p][x] = grad[r][p][x]
    PROVE  ValuesInv'
<1>1. /\ Stage(r)' = Stage(r) /\ Past(r)' = Past(r) /\ IsAdasum' = IsAdasum
      /\ Rounds' = Rounds /\ steps'[r] = steps[r]
  BY StageStays, SameProgram DEF Stays
<1>2. grad'[r] = grad[r] \/ (~(Past(r) > 0) /\ Stage(r) = "backward")
  <2>1. Stage(r) = "backward" => Past(r) = 0 BY PastIs DEF OpenStages
  <2>2. Past(r) = 0 => ~(Past(r) > 0) OBVIOUS
  <2> QED BY <2>1, <2>2
<1>3. ASSUME NEW p \in Params PROVE Kept(r, p) /\ OwnGradient(r, p)' /\ Accounted(r, p)'
  <2>1. Added(r, p)' <=> Added(r, p) BY <1>1 DEF Added
  <2>2. \A x \in Ranks : Pending(r, p, x)' = Pending(r, p, x) BY <1>1, <1>2, <2>1 DEF Pending
  <2>3. Kept(r, p) BY <1>1, <2>2 DEF Kept, Count, Eventual
  <2>4. Open(r, p)' <=> Open(r, p) BY <1>1 DEF Open
  <2>5. OwnGradient(r, p) BY DEF ValuesInv
  <2>6. \A x \in Ranks \ {r} : grad'[r][p][x] = grad[r][p][x] OBVIOUS
  <2>7. OwnGradient(r, p)' BY <2>4, <2>5, <2>6 DEF OwnGradient
  <2> QED BY <2>3, <2>7 DEF Accounted
<1>4. WrittenBack(r)'
  <2>1. CASE grad'[r] = grad[r] BY <2>1, WrittenBackKept DEF ValuesInv
  <2>2. CASE Stage(r) = "backward" BY <1>1, <2>2 DEF WrittenBack, Waits
  <2> QED BY <1>2, <2>1, <2>2
<1>5. AppliedAlike'
  <2>1. \A q \in Ranks : steps'[q] = steps[q]
    <3> TAKE q \in Ranks
    <3>1. CASE q = r BY <1>1, <3>1
    <3>2. CASE q # r BY <3>2 DEF Still, Stays
    <3> QED BY <3>1, <3>2
  <2> QED BY <2>1, AppliedKept DEF ValuesInv
<1> QED BY <1>3, <1>4, <1>5, OneValues

LEMMA ForwardValues ==
    ASSUME CallsInv, ValuesInv, NEW r \in Ranks, Forward(r)
    PROVE  ValuesInv'
<1>1. \A q \in Ranks : Still(q) BY DEF Forward, Still, Stays
<1> QED BY <1>1, StillValues DEF Forward

LEMMA RefuseSkipValues ==
    ASSUME CallsInv, ValuesInv, ~ClosureLate, NEW r \in Ranks, RefuseSkip(r)
    PROVE  ValuesInv'
<1>1. /\ failed' = [failed EXCEPT ![r] = "skip"] /\ program' = program /\ steps' = steps
      /\ at' = at /\ handle' = handle /\ order' = order /\ next' = next
      /\ submitted' = submitted /\ output' = output /\ param' = param /\ grad' = grad
      /\ computed' = computed
  BY DEF RefuseSkip, Raise
<1>2. failed[r] = "no" BY DEF RefuseSkip, Doing, Running
<1>3. failed'[r] = "skip" /\ \A q \in Ranks \ {r} : failed'[q] = failed[q]
  BY <1>1 DEF CallsInv, OptimizerTypeOK
<1>4. \A q \in Ranks \ {r} : Still(q) BY <1>1, <1>3 DEF Still, Stays
<1>5. Stays(r) BY <1>1 DEF Stays
<1> QED BY <1>1, <1>2, <1>3, <1>4, <1>5, RaisesValues

LEMMA HookFailsValues ==
    ASSUME CallsInv, ValuesInv, ~ClosureLate, NEW r \in Ranks, NEW p \in Params, Hook(r, p),
           delay[r][p] <= 0
    PROVE  ValuesInv'
<1>1. /\ grad' = [grad EXCEPT ![r][p] = Plus(grad[r][p], Pass(r))]
      /\ computed' = [computed EXCEPT ![r][p] = @ + 1]
      /\ failed' = [failed EXCEPT ![r] = "too_many_passes"]
      /\ program' = program /\ steps' = steps /\ at' = at /\ handle' = handle
      /\ order' = order /\ next' = next /\ submitted' = submitted
      /\ output' = output /\ param' = param
  BY DEF Hook, Raise
<1>2. failed[r] = "no" BY DEF Hook, Doing, Running
<1>3. failed'[r] = "too_many_passes" /\ \A q \in Ranks \ {r} : failed'[q] = failed[q]
  BY <1>1 DEF CallsInv, OptimizerTypeOK
<1>4. Stage(r) = "backward"
  <2>1. OptimizerTypeOK /\ InPlace(r) BY DEF CallsInv, RankOK, PlaceOK
  <2> QED BY <2>1, StageOf DEF Kinds, Hook
<1>5. /\ \A q \in Ranks \ {r} : grad'[q] = grad[q] /\ computed'[q] = computed[q]
      /\ \A x \in Params : \A y \in Ranks \ {r} : grad'[r][x][y] = grad[r][x][y]
  <2>1. grad \in [Ranks -> [Params -> [Ranks -> Nat]]] /\ computed \in [Ranks -> [Params -> Nat]]
    BY DEF CallsInv, OptimizerTypeOK
  <2>2. \A y \in Ranks \ {r} : Plus(grad[r][p], Pass(r))[y] = grad[r][p][y]
    BY AddsPass DEF CallsInv
  <2>3. grad'[r][p] = Plus(grad[r][p], Pass(r)) /\ \A x \in Params \ {p} : grad'[r][x] = grad[r][x]
    BY <1>1, <2>1
  <2>4. \A q \in Ranks \ {r} : grad'[q] = grad[q] /\ computed'[q] = computed[q] BY <1>1, <2>1
  <2>5. ASSUME NEW x \in Params, NEW y \in Ranks \ {r} PROVE grad'[r][x][y] = grad[r][x][y]
    <3>1. CASE x = p BY <2>2, <2>3, <3>1
    <3>2. CASE x # p BY <2>3, <3>2
    <3> QED BY <3>1, <3>2
  <2> QED BY <2>4, <2>5
<1>6. \A q \in Ranks \ {r} : Still(q) BY <1>1, <1>3, <1>5 DEF Still, Stays
<1>7. Stays(r) BY <1>1 DEF Stays
<1> QED BY <1>1, <1>2, <1>3, <1>4, <1>5, <1>6, <1>7, RaisesValues

\* A rank that goes on, with nothing else.
LEMMA GoesOnValues ==
    ASSUME CallsInv, ValuesInv, program' = program, NEW r \in Ranks,
           \A q \in Ranks : Stays(q) \/ q = r, steps'[r] = steps[r], Past(r)' = Past(r),
           Stage(r)' \in OpenStages <=> Stage(r) \in OpenStages, next[r] = 1,
           order' = order, next' = next, grad' = grad, param' = param, computed' = computed,
           failed' = failed, handle' = handle, output' = output, submitted' = submitted
    PROVE  ValuesInv'
<1>1. \A q \in Ranks \ {r} : Still(q) BY DEF Still
<1>2. \A i \in 1 .. next[r] - 1 : FALSE OBVIOUS
<1>3. ASSUME NEW p \in Params PROVE Idle(r, p)
  <2>1. Added(r, p)' <=> Added(r, p) BY <1>2 DEF Added
  <2> QED BY <2>1 DEF Idle
<1>4. \A p \in Params : Kept(r, p) /\ OwnGradient(r, p)' /\ Accounted(r, p)'
  BY <1>3, IdleKeeps DEF ValuesInv
<1>5. WrittenBack(r)' BY <1>2 DEF WrittenBack
<1>6. AppliedAlike' BY AppliedKept DEF ValuesInv, Stays
<1> QED BY <1>1, <1>4, <1>5, <1>6, OneValues

LEMMA AllSubmittedValues ==
    ASSUME CallsInv, ValuesInv, ~ClosureLate, NEW r \in Ranks, AllSubmitted(r)
    PROVE  ValuesInv'
<1>0. OptimizerTypeOK /\ InPlace(r) /\ KeysOK(r) BY DEF CallsInv, RankOK, PlaceOK
<1>1. /\ program' = program /\ handle' = handle /\ order' = order /\ next' = next
      /\ grad' = grad /\ submitted' = submitted /\ output' = output /\ param' = param
      /\ computed' = computed /\ failed' = failed /\ Return(r)
  BY DEF AllSubmitted
<1>2. /\ Stage(r) \in Submits \cup {"missing"} /\ Proceeds(r) /\ steps[r] < MaxSteps
      /\ Possible(Stage(r))
  BY AllSubmittedCalls
<1>3. \A q \in Ranks \ {r} : Stays(q) BY <1>0, <1>1, <1>2, Returned
<1>4. /\ Stage(r) = "submit" => Stage(r)' = "wait"
      /\ Stage(r) = "submit_again" => Stage(r)' = "wait_again"
      /\ Stage(r) = "missing" => Stage(r)' = "finish"
      /\ steps'[r] = steps[r]
  BY <1>0, <1>1, <1>2, NextStage DEF Ends, Submits
<1>5. Stage(r) \in {"submit", "submit_again", "missing"} BY <1>2 DEF Submits, Possible
<1>6. /\ Past(r)' = Past(r)
      /\ Stage(r)' \in OpenStages <=> Stage(r) \in OpenStages
  BY <1>4, <1>5 DEF Past, OpenStages
<1>7. next[r] = 1 BY <1>0, <1>5 DEF KeysOK, Looping, Waits
<1>8. \A q \in Ranks : Stays(q) \/ q = r BY <1>3
<1> QED BY <1>1, <1>4, <1>6, <1>7, <1>8, GoesOnValues

LEMMA SetPassesValues ==
    ASSUME CallsInv, ValuesInv, ~ClosureLate, NEW r \in Ranks, SetPasses(r)
    PROVE  ValuesInv'
<1>0. OptimizerTypeOK /\ InPlace(r) /\ KeysOK(r) BY DEF CallsInv, RankOK, PlaceOK
<1>1. /\ program' = program /\ handle' = handle /\ order' = order /\ next' = next
      /\ grad' = grad /\ submitted' = submitted /\ output' = output /\ param' = param
      /\ computed' = computed /\ failed' = failed /\ Return(r)
  BY DEF SetPasses
<1>2. Proceeds(r) /\ Stage(r) = "set_passes" /\ steps[r] < MaxSteps /\ Possible(Stage(r))
  BY SetPassesCalls
<1>3. \A q \in Ranks : Stays(q) \/ q = r BY <1>0, <1>1, <1>2, Returned
<1>4. Stage(r)' = "zero_grad" /\ steps'[r] = steps[r]
  BY <1>0, <1>1, <1>2, NextStage DEF Ends
<1>5. /\ Past(r)' = Past(r)
      /\ Stage(r)' \in OpenStages <=> Stage(r) \in OpenStages
  BY <1>2, <1>4 DEF Past, OpenStages
<1>6. next[r] = 1 BY <1>0, <1>2 DEF KeysOK, Looping, Waits
<1> QED BY <1>1, <1>3, <1>4, <1>5, <1>6, GoesOnValues

\* A gradient with one more pass.
LEMMA OnePassMore ==
    ASSUME NEW u \in Nat, NEW c \in Nat, NEW e \in Nat, NEW g \in Nat, u * c = u * e + g
    PROVE  u * (c + 1) = u * e + (g + u)
<1>1. u * (c + 1) = u * c + u OBVIOUS
<1>2. u * c \in Nat /\ u * e \in Nat OBVIOUS
<1> QED BY <1>1, <1>2

LEMMA HookValues ==
    ASSUME CallsInv, ValuesInv, ~ClosureLate, NEW r \in Ranks, NEW p \in Params, Hook(r, p),
           ~(delay[r][p] <= 0)
    PROVE  ValuesInv'
<1> DEFINE g == Plus(grad[r][p], Pass(r))
<1>0. OptimizerTypeOK /\ InPlace(r) /\ KeysOK(r) /\ Doing(r, "backward")
  BY DEF CallsInv, RankOK, PlaceOK, Hook
<1>1. /\ grad' = [grad EXCEPT ![r][p] = g]
      /\ computed' = [computed EXCEPT ![r][p] = @ + 1]
      /\ program' = program /\ next' = next /\ param' = param /\ failed' = failed
      /\ IF hooks[r] = {p} THEN Return(r) ELSE at' = at /\ steps' = steps
  BY DEF Hook
<1>2. delay[r][p] # 1 =>
        /\ handle' = [handle EXCEPT ![r][p] = "none"]
        /\ order' = [order EXCEPT ![r] = IF handle[r][p] = "absent" THEN Append(@, p) ELSE @]
        /\ submitted' = submitted /\ output' = output
  BY DEF Hook
<1>3. /\ g \in [Ranks -> Nat]
      /\ \A y \in Ranks : g[y] = IF y = r THEN grad[r][p][y] + Unit ELSE grad[r][p][y]
  BY <1>0, AddsPass
<1>4. Counted(r, p) /\ (delay[r][p] = 1 => Async(r, p, g)) BY HookCalls
<1> HIDE DEF g
<1>5. /\ grad \in [Ranks -> [Params -> [Ranks -> Nat]]] /\ computed \in [Ranks -> [Params -> Nat]]
      /\ handle \in [Ranks -> [Params -> HandleType]] /\ order \in [Ranks -> Seq(Params)]
  BY <1>0 DEF OptimizerTypeOK, HandleType
<1>6. /\ grad'[r][p] = g /\ computed'[r][p] = computed[r][p] + 1
      /\ \A x \in Params \ {p} : grad'[r][x] = grad[r][x] /\ computed'[r][x] = computed[r][x]
      /\ \A q \in Ranks \ {r} : grad'[q] = grad[q] /\ computed'[q] = computed[q]
  BY <1>1, <1>5
<1>7. Stage(r) = "backward" /\ failed[r] = "no" /\ steps[r] < MaxSteps /\ Possible(Stage(r))
  BY <1>0, StageOf, DoingIs DEF Kinds
<1>8. /\ Stage(r)' \in {"backward", "skip", "missing", "submit"} /\ steps'[r] = steps[r]
      /\ \A q \in Ranks \ {r} : Stays(q)
  <2>1. CASE hooks[r] = {p}
    <3>1. Proceeds(r) /\ \A q \in Ranks \ {r} : Stays(q) BY <1>0, <1>1, <1>7, <2>1, Returned
    <3>2. Stage(r)' \in {"backward"} \cup AfterGradients /\ steps'[r] = steps[r]
      BY <1>0, <1>1, <1>7, <3>1, NextStage DEF Ends
    <3>3. Stage(r)' # "last_apply"
      <4>1. Follow("backward", Stage(r)', Remaining(r)) BY <1>7, <3>1 DEF Proceeds, Ends
      <4>2. AfterPasses # "last_apply" BY DEF AfterPasses
      <4> QED BY <4>1, <4>2 DEF Follow
    <3> QED BY <3>1, <3>2, <3>3 DEF AfterGradients
  <2>2. CASE hooks[r] # {p}
    <3>1. \A q \in Ranks : Stays(q) BY <1>1, <2>2 DEF Stays
    <3> QED BY <1>1, <1>7, <2>2, <3>1, StageStays
  <2> QED BY <2>1, <2>2
<1>9. /\ Stage(r)' \in OpenStages /\ Stage(r) \in OpenStages /\ Past(r) = 0 /\ Past(r)' = 0
      /\ Stage(r)' \notin Waits
  BY <1>7, <1>8 DEF OpenStages, Past, Waits
<1>10. handle[r][p] \in {"absent", "none"}
  <2>1. handle[r][p] \in HandleType BY <1>5
  <2> QED BY <1>4, <2>1 DEF Counted, InFlight, HandleType
<1>11. Open(r, p) /\ OwnGradient(r, p) /\ Accounted(r, p) BY <1>9, <1>10 DEF Open, ValuesInv
<1>12. /\ \A x \in Ranks \ {r} : g[x] = 0 /\ grad[r][p][x] = 0
       /\ computed'[r][p] \in Nat /\ g[r] = grad[r][p][r] + Unit
  <2>1. \A x \in Ranks \ {r} : grad[r][p][x] = 0 BY <1>11 DEF OwnGradient
  <2>2. \A x \in Ranks \ {r} : g[x] = 0 BY <1>3, <2>1
  <2>3. computed[r][p] \in Nat BY <1>5
  <2> QED BY <1>3, <1>6, <2>1, <2>2, <2>3
<1>13. \A x \in Ranks : Pending(r, p, x) = 0 /\ Eventual(r, p, x) = param[r][p][x]
  <2> TAKE x \in Ranks
  <2>1. ~(Past(r) > 0) /\ handle[r][p] # "done" BY <1>9, <1>10
  <2>2. Pending(r, p, x) = 0 BY <2>1 DEF Pending
  <2>3. param[r][p][x] \in Nat BY Numbers
  <2> QED BY <2>2, <2>3 DEF Eventual
<1>14. ~(program.style = "both" /\ program.op = "Sum") =>
          Unit * computed'[r][p] = Unit * param[r][p][r] + g[r]
  <2> SUFFICES ASSUME ~(program.style = "both" /\ program.op = "Sum")
               PROVE  Unit * computed'[r][p] = Unit * param[r][p][r] + g[r]
    OBVIOUS
  <2>1. Unit * computed[r][p] = Unit * param[r][p][r] + grad[r][p][r]
    BY <1>7, <1>11, <1>13 DEF Accounted
  <2>2. /\ Unit \in Nat /\ computed[r][p] \in Nat /\ param[r][p][r] \in Nat
        /\ grad[r][p][r] \in Nat
    BY Numbers
  <2>3. Unit * (computed[r][p] + 1) = Unit * param[r][p][r] + (grad[r][p][r] + Unit)
    <3>1. PICK u, c, e, d : u = Unit /\ c = computed[r][p] /\ e = param[r][p][r] /\ d = grad[r][p][r]
      OBVIOUS
    <3>2. u \in Nat /\ c \in Nat /\ e \in Nat /\ d \in Nat /\ u * c = u * e + d
      BY <2>1, <2>2, <3>1
    <3>3. u * (c + 1) = u * e + (d + u) BY <3>2, OnePassMore
    <3> QED BY <3>1, <3>3
  <2> QED BY <1>6, <1>12, <2>3
<1>15. CASE delay[r][p] = 1
  <2>1. Carried(r, p, g) BY <1>9, <1>12, <1>14 DEF Carried
  <2>2. \A q \in Ranks : steps'[q] = steps[q]
    <3> TAKE q \in Ranks
    <3>1. CASE q = r BY <1>8, <3>1
    <3>2. CASE q # r BY <1>8, <3>2 DEF Stays
    <3> QED BY <3>1, <3>2
  <2>3. Calling(r, p, g)
    BY <1>1, <1>3, <1>4, <1>6, <1>7, <1>8, <1>9, <1>10, <1>15, <2>2 DEF Calling
  <2> QED BY <2>1, <2>3, CallingValues
<1>16. CASE delay[r][p] # 1
  <2>1. /\ handle'[r][p] = "none" /\ submitted' = submitted /\ output' = output
        /\ \A x \in Params \ {p} : handle'[r][x] = handle[r][x]
        /\ \A q \in Ranks \ {r} : handle'[q] = handle[q] /\ order'[q] = order[q]
    <3>1. /\ handle' = [handle EXCEPT ![r][p] = "none"]
          /\ order' = [order EXCEPT ![r] = IF handle[r][p] = "absent" THEN Append(@, p) ELSE @]
          /\ submitted' = submitted /\ output' = output
      BY <1>2, <1>16
    <3>2. handle'[r][p] = "none" /\ \A x \in Params \ {p} : handle'[r][x] = handle[r][x]
      BY <1>5, <3>1
    <3>3. \A q \in Ranks \ {r} : handle'[q] = handle[q] /\ order'[q] = order[q]
      BY <1>5, <3>1
    <3> QED BY <3>1, <3>2, <3>3
  <2>2. \A q \in Ranks \ {r} : Still(q) BY <1>1, <1>6, <1>8, <2>1 DEF Still
  <2>3. next[r] = 1 BY <1>0, <1>7 DEF KeysOK, Looping, Waits
  <2>4. \A i \in 1 .. next[r] - 1 : FALSE BY <2>3
  <2>5. /\ IsAdasum' = IsAdasum /\ Rounds' = Rounds /\ Unit' = Unit BY <1>1, SameProgram
  <2>6. ASSUME NEW x \in Params, x # p
        PROVE  Kept(r, x) /\ OwnGradient(r, x)' /\ Accounted(r, x)'
    <3>1. Added(r, x)' <=> Added(r, x) BY <1>1, <2>4 DEF Added
    <3>2. Idle(r, x) BY <1>1, <1>6, <1>8, <1>9, <2>1, <2>6, <3>1 DEF Idle
    <3> QED BY <1>1, <3>2, IdleKeeps DEF ValuesInv
  <2>7. \A x \in Ranks : Eventual(r, p, x)' = param[r][p][x]
    <3> TAKE x \in Ranks
    <3>1. ~(Past(r)' > 0) /\ handle'[r][p] # "done" BY <1>9, <2>1
    <3>2. Pending(r, p, x)' = 0 BY <3>1 DEF Pending
    <3>3. param[r][p][x] \in Nat BY Numbers
    <3> QED BY <1>1, <3>2, <3>3 DEF Eventual
  <2>8. Kept(r, p)
    <3>1. handle[r][p] # "done" BY <1>10
    <3>2. Count(r, p)' = Count(r, p) BY <1>8, <1>9, <2>1, <2>5, <3>1 DEF Count
    <3> QED BY <1>13, <2>7, <3>2 DEF Kept
  <2>9. OwnGradient(r, p)' BY <1>6, <1>12, <2>1 DEF OwnGradient
  <2>10. Accounted(r, p)'
    <3>1. Open(r, p)' BY <1>9, <2>1 DEF Open
    <3> QED BY <1>1, <1>6, <1>14, <2>5, <2>7, <3>1 DEF Accounted
  <2>11. WrittenBack(r)' BY <1>9 DEF WrittenBack
  <2>12. AppliedAlike'
    <3>1. \A q \in Ranks : steps'[q] = steps[q]
      <4> TAKE q \in Ranks
      <4>1. CASE q = r BY <1>8, <4>1
      <4>2. CASE q # r BY <1>8, <4>2 DEF Stays
      <4> QED BY <4>1, <4>2
    <3> QED BY <1>1, <3>1, AppliedKept DEF ValuesInv
  <2>13. ASSUME NEW x \in Params PROVE Kept(r, x) /\ OwnGradient(r, x)' /\ Accounted(r, x)'
    <3>1. CASE x = p BY <2>8, <2>9, <2>10, <3>1
    <3>2. CASE x # p BY <2>6, <3>2
    <3> QED BY <3>1, <3>2
  <2> QED BY <1>1, <2>2, <2>11, <2>12, <2>13, OneValues
<1> QED BY <1>15, <1>16

\* A rank that submits its gradient as it is.
LEMMA SubmitsValues ==
    ASSUME CallsInv, ValuesInv, ~ClosureLate, NEW r \in Ranks, NEW p \in Params,
           Async(r, p, grad[r][p]), handle[r][p] \in {"absent", "none"}, failed[r] = "no",
           Stage(r) \in Submits \cup {"missing", "finish"},
           program' = program, steps' = steps, at' = at, next' = next, grad' = grad,
           param' = param, computed' = computed, failed' = failed
    PROVE  ValuesInv'
<1>1. \A q \in Ranks : Stays(q) BY DEF Stays
<1>2. Stage(r)' = Stage(r) /\ Past(r)' = Past(r) BY <1>1, StageStays
<1>3. grad[r][p] \in [Ranks -> Nat] /\ computed[r][p] \in Nat BY DEF CallsInv, OptimizerTypeOK
<1>4. Calling(r, p, grad[r][p]) BY <1>1, <1>2, <1>3 DEF Calling, Submits, Waits
<1>5. Carried(r, p, grad[r][p])
  <2>1. CASE Stage(r) \in OpenStages
    <3>1. handle[r][p] # "done" OBVIOUS
    <3>2. Open(r, p) /\ OwnGradient(r, p) /\ Accounted(r, p) BY <2>1, <3>1 DEF Open, ValuesInv
    <3>3. \A x \in Ranks \ {r} : grad[r][p][x] = 0 BY <3>2 DEF OwnGradient
    <3>4. ~(Past(r) > 0)
      <4>1. Past(r) = 0 BY <2>1, PastIs
      <4> QED BY <4>1
    <3>5. Eventual(r, p, r) = param[r][p][r]
      <4>1. Pending(r, p, r) = 0 BY <3>1, <3>4 DEF Pending
      <4>2. param[r][p][r] \in Nat BY Numbers
      <4> QED BY <4>1, <4>2 DEF Eventual
    <3> QED BY <1>3, <2>1, <3>2, <3>3, <3>5 DEF Carried, Accounted
  <2>2. CASE Stage(r) \notin OpenStages BY <2>2 DEF Carried
  <2> QED BY <2>1, <2>2
<1> QED BY <1>4, <1>5, CallingValues

LEMMA SubmitRestValues ==
    ASSUME CallsInv, ValuesInv, ~ClosureLate, NEW r \in Ranks, NEW p \in Params, SubmitRest(r, p)
    PROVE  ValuesInv'
<1>1. Async(r, p, grad[r][p]) /\ Stage(r) \in Submits \cup {"missing"} BY SubmitRestCalls
<1>2. handle[r][p] \in {"absent", "none"} /\ failed[r] = "no" BY DEF SubmitRest, Doing, Running
<1>3. /\ program' = program /\ steps' = steps /\ at' = at /\ next' = next /\ grad' = grad
      /\ param' = param /\ computed' = computed /\ failed' = failed
  BY DEF SubmitRest
<1> QED BY <1>1, <1>2, <1>3, SubmitsValues

LEMMA FinishSubmitValues ==
    ASSUME CallsInv, ValuesInv, ~ClosureLate, NEW r \in Ranks, FinishSubmit(r)
    PROVE  ValuesInv'
<1>1. /\ Async(r, order[r][next[r]], grad[r][order[r][next[r]]]) /\ Stage(r) = "finish"
      /\ order[r][next[r]] \in Params
  BY FinishSubmitCalls
<1>2. PICK p \in Params : p = order[r][next[r]] BY <1>1
<1>3. Async(r, p, grad[r][p]) BY <1>1, <1>2
<1>4. handle[r][p] = "none" /\ failed[r] = "no" BY <1>2 DEF FinishSubmit, Doing, Running
<1>5. /\ program' = program /\ steps' = steps /\ at' = at /\ next' = next /\ grad' = grad
      /\ param' = param /\ computed' = computed /\ failed' = failed
  BY DEF FinishSubmit
<1> QED BY <1>1, <1>3, <1>4, <1>5, SubmitsValues

\* A rank that takes the result of operation p.
LEMMA WaitValues ==
    ASSUME CallsInv, ValuesInv, ~ClosureLate, NEW r \in Ranks, Wait(r)
    PROVE  ValuesInv'
<1>0. OptimizerTypeOK /\ InPlace(r) /\ KeysOK(r) BY DEF CallsInv, RankOK, PlaceOK
<1>1. Stage(r) \in Waits /\ (failed'[r] = "no" => Took(r)) BY WaitCalls
<1>2. PICK p \in Params : p = order[r][next[r]] BY <1>1, NextKey DEF Looping
<1>3. handle[r][p] = "done" /\ failed[r] = "no" BY <1>2 DEF Wait, Doing, Running
<1>4. CASE program.half /\ DType[Last(order[r])] # DType[p]
  <2>1. /\ failed' = [failed EXCEPT ![r] = "dtype"] /\ program' = program /\ steps' = steps
        /\ at' = at /\ handle' = handle /\ order' = order /\ next' = next
        /\ submitted' = submitted /\ output' = output /\ param' = param /\ grad' = grad
        /\ computed' = computed
    BY <1>2, <1>4 DEF Wait, Raise
  <2>2. failed'[r] = "dtype" /\ \A q \in Ranks \ {r} : failed'[q] = failed[q]
    BY <1>0, <2>1 DEF OptimizerTypeOK
  <2>3. \A q \in Ranks \ {r} : Still(q) BY <2>1, <2>2 DEF Still, Stays
  <2>4. Stays(r) BY <2>1 DEF Stays
  <2> QED BY <1>3, <2>1, <2>2, <2>3, <2>4, RaisesValues
<1>5. CASE ~(program.half /\ DType[Last(order[r])] # DType[p])
  <2>1. /\ grad' = [grad EXCEPT ![r][p] = output[r][p]]
        /\ program' = program /\ submitted' = submitted /\ output' = output
        /\ computed' = computed /\ failed' = failed /\ param' = param
    BY <1>2, <1>5 DEF Wait
  <2>2. Took(r) BY <1>1, <1>3, <2>1
  <2>3. grad \in [Ranks -> [Params -> [Ranks -> Nat]]] BY <1>0 DEF OptimizerTypeOK
  <2>4. /\ grad'[r][p] = output[r][p] /\ \A x \in Params \ {p} : grad'[r][x] = grad[r][x]
        /\ \A q \in Ranks \ {r} : grad'[q] = grad[q]
    BY <2>1, <2>3
  <2>5. \A q \in Ranks \ {r} : Still(q)
    <3>1. \A q \in Ranks \ {r} : handle'[q] = handle[q] /\ order'[q] = order[q] BY <2>2 DEF Took
    <3>2. \A q \in Ranks \ {r} : Stays(q) /\ next'[q] = next[q] BY <2>2 DEF Took
    <3> QED BY <2>1, <2>4, <3>1, <3>2 DEF Still
  <2>6. /\ IsAdasum' = IsAdasum /\ Rounds' = Rounds /\ Unit' = Unit BY <2>1, SameProgram
  <2>7. ~IsAdasum /\ steps[r] < MaxSteps /\ Possible(Stage(r))
        /\ Stage(r) \in {"wait", "wait_again"}
    <3>1. ~IsAdasum BY <1>1, StageKinds DEF Waits
    <3>2. steps[r] < MaxSteps BY DEF Wait, Doing, Running
    <3> QED BY <1>1, <3>1, <3>2, StageKinds DEF Waits
  <2>8. WrittenBack(r) BY DEF ValuesInv
  <2>9. \A x \in Params : ~Added(r, x) /\ ~Added(r, x)' BY <2>6, <2>7 DEF Added
  <2>10. CASE next[r] < Len(order[r])
    <3>1. Stays(r) /\ next'[r] = next[r] + 1 /\ handle' = handle /\ order' = order
      BY <2>2, <2>10 DEF Took
    <3>2. Stage(r)' = Stage(r) /\ Past(r)' = Past(r) /\ steps'[r] = steps[r]
      BY <2>1, <3>1, StageStays DEF Stays
    <3>3. ASSUME NEW x \in Params, x # p
          PROVE  Kept(r, x) /\ OwnGradient(r, x)' /\ Accounted(r, x)'
      <4>1. Idle(r, x) BY <2>1, <2>4, <2>9, <3>1, <3>2, <3>3 DEF Idle
      <4> QED BY <2>1, <4>1, IdleKeeps DEF ValuesInv
    <3>4. Kept(r, p) /\ OwnGradient(r, p)' /\ Accounted(r, p)'
      <4>1. handle[r][p] = "done" /\ handle'[r][p] = "done" BY <1>3, <3>1
      <4>2. ~Open(r, p) /\ ~Open(r, p)' BY <4>1 DEF Open
      <4>3. Count(r, p)' = Count(r, p) BY <2>6, <3>1, <3>2 DEF Count
      <4>4. \A x \in Ranks : Eventual(r, p, x)' = Eventual(r, p, x)
        BY <2>1, <2>9, <4>1 DEF Eventual, Pending
      <4>5. Accounted(r, p) BY DEF ValuesInv
      <4>6. OwnGradient(r, p)' BY <4>1, <4>2 DEF OwnGradient
      <4>7. Accounted(r, p)' BY <2>1, <4>2, <4>4, <4>5 DEF Accounted
      <4> QED BY <4>3, <4>4, <4>6, <4>7 DEF Kept
    <3>5. WrittenBack(r)'
      <4>1. ASSUME NEW i \in 1 .. next'[r] - 1
            PROVE  grad'[r][order[r][i]] = output[r][order[r][i]]
        <5>1. /\ order[r] \in Seq(Params) /\ Len(order[r]) \in Nat /\ next[r] \in 1 .. Len(order[r])
          BY <1>1, NextKey DEF Looping
        <5>2. /\ next[r] \in Nat
              /\ \A j \in 1 .. next[r] : j \in 1 .. Len(order[r]) /\ (j = next[r] \/ j \in 1 .. next[r] - 1)
          BY <5>1, PlacesUpTo
        <5>3. i \in 1 .. next[r] BY <3>1, <5>2
        <5>4. i \in 1 .. Len(order[r]) /\ (i = next[r] \/ i \in 1 .. next[r] - 1) BY <5>2, <5>3
        <5>5. order[r][i] \in Params BY <5>1, <5>4
        <5>6. i \in 1 .. next[r] - 1 => grad[r][order[r][i]] = output[r][order[r][i]]
          BY <1>1, <2>8 DEF WrittenBack
        <5> QED BY <1>2, <2>4, <5>4, <5>5, <5>6
      <4> QED BY <2>1, <3>1, <4>1 DEF WrittenBack
    <3>6. AppliedAlike'
      <4>1. \A q \in Ranks : steps'[q] = steps[q]
        <5> TAKE q \in Ranks
        <5>1. CASE q = r BY <3>2, <5>1
        <5>2. CASE q # r BY <2>5, <5>2 DEF Still, Stays
        <5> QED BY <5>1, <5>2
      <4> QED BY <2>1, <4>1, AppliedKept DEF ValuesInv
    <3> QED BY <2>1, <2>5, <3>3, <3>4, <3>5, <3>6, OneValues
  <2>11. CASE ~(next[r] < Len(order[r]))
    <3>1. /\ Proceeds(r) /\ next'[r] = 1 /\ order'[r] = <<>> /\ next[r] = Len(order[r])
          /\ \A x \in Params : handle[r][x] = "done" /\ handle'[r][x] = "absent"
      BY <2>2, <2>11 DEF Took
    <3>2. /\ Stage(r) = "wait" =>
                Stage(r)' = IF program.style = "both" THEN "submit_again" ELSE "apply"
          /\ Stage(r) = "wait_again" => Stage(r)' = "apply" /\ program.style = "both"
          /\ steps'[r] = steps[r]
      BY <1>0, <2>1, <2>7, <3>1, NextStage DEF Ends, Possible
    <3>3. Rounds = IF program.style = "both" THEN 2 ELSE 1 BY <2>7 DEF Rounds
    <3>4. /\ Past(r)' = Past(r) + 1 /\ Past(r)' > 0 /\ Past(r) \in Nat
          /\ Stage(r)' \in {"submit_again", "apply"}
      BY <2>6, <2>7, <3>2, <3>3 DEF Past
    <3>5. ASSUME NEW x \in Params PROVE grad'[r][x] = output[r][x]
      <4>1. PICK i \in 1 .. Len(order[r]) : order[r][i] = x BY <1>1, NextKey DEF Looping
      <4>2. /\ Len(order[r]) \in Nat /\ next[r] \in 1 .. Len(order[r])
        BY <1>1, NextKey DEF Looping
      <4>3. i = next[r] \/ i \in 1 .. next[r] - 1 BY <3>1, <4>2, PlacesUpTo
      <4>4. i \in 1 .. next[r] - 1 => grad[r][order[r][i]] = output[r][order[r][i]]
        BY <1>1, <2>8 DEF WrittenBack
      <4> QED BY <1>2, <2>4, <4>1, <4>3, <4>4
    <3>6. ASSUME NEW x \in Params PROVE Kept(r, x) /\ OwnGradient(r, x)' /\ Accounted(r, x)'
      <4>1. handle[r][x] = "done" /\ handle'[r][x] = "absent" BY <3>1
      <4>2. Count(r, x)' = Count(r, x)
        <5>1. Rounds * steps[r] \in Nat
          <6>1. Rounds \in Nat /\ steps[r] \in Nat BY <3>3, Numbers
          <6> QED BY <6>1
        <5>2. Count(r, x)' = Rounds * steps[r] + (Past(r) + 1) + 0
          BY <2>6, <3>2, <3>4, <4>1 DEF Count
        <5>3. Count(r, x) = Rounds * steps[r] + Past(r) + 1 BY <4>1 DEF Count
        <5> QED BY <3>4, <5>1, <5>2, <5>3
      <4>3. \A y \in Ranks : Eventual(r, x, y)' = Eventual(r, x, y)
        <5> TAKE y \in Ranks
        <5>1. Pending(r, x, y) = output[r][x][y] BY <2>9, <4>1 DEF Pending
        <5>2. Pending(r, x, y)' = output[r][x][y] BY <3>4, <3>5, <4>1 DEF Pending
        <5> QED BY <2>1, <5>1, <5>2 DEF Eventual
      <4>4. ~Open(r, x) /\ ~Open(r, x)' BY <3>4, <4>1 DEF Open, OpenStages
      <4>5. Accounted(r, x) BY DEF ValuesInv
      <4>6. OwnGradient(r, x)' BY <4>1, <4>4 DEF OwnGradient
      <4>7. Accounted(r, x)' BY <2>1, <4>3, <4>4, <4>5 DEF Accounted
      <4> QED BY <4>2, <4>3, <4>6, <4>7 DEF Kept
    <3>7. WrittenBack(r)' BY <3>4 DEF WrittenBack, Waits
    <3>8. AppliedAlike'
      <4>1. \A q \in Ranks : steps'[q] = steps[q]
        <5> TAKE q \in Ranks
        <5>1. CASE q = r BY <3>2, <5>1
        <5>2. CASE q # r BY <2>5, <5>2 DEF Still, Stays
        <5> QED BY <5>1, <5>2
      <4> QED BY <2>1, <4>1, AppliedKept DEF ValuesInv
    <3> QED BY <2>1, <2>5, <3>6, <3>7, <3>8, OneValues
  <2> QED BY <2>10, <2>11
<1> QED BY <1>4, <1>5

LEMMA FinishWaitValues ==
    ASSUME CallsInv, ValuesInv, ~ClosureLate, NEW r \in Ranks, FinishWait(r)
    PROVE  ValuesInv'
<1>0. OptimizerTypeOK /\ InPlace(r) /\ KeysOK(r) BY DEF CallsInv, RankOK, PlaceOK
<1>1. Stage(r) = "finish" /\ Took(r) BY FinishWaitCalls
<1>2. PICK p \in Params : p = order[r][next[r]] BY <1>1, NextKey DEF Looping
<1>3. /\ handle[r][p] = "done" /\ param' = [param EXCEPT ![r][p] = Plus(@, output[r][p])]
      /\ program' = program /\ submitted' = submitted /\ output' = output
      /\ computed' = computed /\ failed' = failed /\ grad' = grad
  BY <1>2 DEF FinishWait
<1>4. /\ \A y \in Ranks : param'[r][p][y] = param[r][p][y] + output[r][p][y]
      /\ \A x \in Params \ {p} : param'[r][x] = param[r][x]
      /\ \A q \in Ranks \ {r} : param'[q] = param[q]
  <2>1. param \in [Ranks -> [Params -> [Ranks -> Nat]]] BY <1>0 DEF OptimizerTypeOK
  <2>2. param'[r][p] = Plus(param[r][p], output[r][p]) BY <1>3, <2>1
  <2>3. \A y \in Ranks : param'[r][p][y] = param[r][p][y] + output[r][p][y] BY <2>2 DEF Plus
  <2>4. /\ \A x \in Params \ {p} : param'[r][x] = param[r][x]
        /\ \A q \in Ranks \ {r} : param'[q] = param[q]
    BY <1>3, <2>1
  <2> QED BY <2>3, <2>4
<1>5. \A q \in Ranks \ {r} : Still(q)
  <2>1. \A q \in Ranks \ {r} : handle'[q] = handle[q] /\ order'[q] = order[q] BY <1>1 DEF Took
  <2>2. \A q \in Ranks \ {r} : Stays(q) /\ next'[q] = next[q] BY <1>1 DEF Took
  <2> QED BY <1>3, <1>4, <2>1, <2>2 DEF Still
<1>6. /\ IsAdasum' = IsAdasum /\ Rounds' = Rounds /\ Unit' = Unit BY <1>3, SameProgram
<1>7. IsAdasum /\ Rounds = 1 /\ steps[r] < MaxSteps /\ Possible(Stage(r)) /\ Past(r) = 0
  <2>1. IsAdasum /\ Past(r) = 0 BY <1>1, StageKinds DEF Past
  <2>2. steps[r] < MaxSteps BY DEF FinishWait, Doing, Running
  <2> QED BY <2>1, <2>2, StageKinds DEF Rounds
<1>8. /\ order[r] \in Seq(Params) /\ Len(order[r]) \in Nat /\ next[r] \in 1 .. Len(order[r])
      /\ \A x \in Params : \E i \in 1 .. Len(order[r]) : order[r][i] = x
  BY <1>1, NextKey DEF Looping
<1>9. /\ next[r] \in Nat \ {0} /\ next[r] <= Len(order[r])
      /\ \A j \in 1 .. next[r] : j \in 1 .. Len(order[r]) /\ (j = next[r] \/ j \in 1 .. next[r] - 1)
  BY <1>8, PlacesUpTo
<1>10. ~Added(r, p)
  <2> SUFFICES ASSUME NEW i \in 1 .. next[r] - 1, order[r][i] = p PROVE FALSE BY DEF Added
  <2>1. i # next[r] /\ i \in 1 .. next[r] BY <1>9
  <2>2. i \in 1 .. Len(order[r]) BY <1>9, <2>1
  <2>3. i \in DOMAIN order[r] /\ next[r] \in DOMAIN order[r]
    <3>1. order[r] \in Seq(Params) BY <1>8
    <3>2. DOMAIN order[r] = 1 .. Len(order[r]) BY <3>1
    <3> QED BY <1>8, <2>2, <3>2
  <2>4. \A a, b \in DOMAIN order[r] : order[r][a] = order[r][b] => a = b
    BY <1>0 DEF KeysOK, IsInjective
  <2> QED BY <1>2, <2>1, <2>3, <2>4
<1>11. AppliedAlike' BY <1>6, <1>7 DEF AppliedAlike
<1>12. \A y \in Ranks : Eventual(r, p, y) = param'[r][p][y]
  <2> TAKE y \in Ranks
  <2>1. Pending(r, p, y) = output[r][p][y] BY <1>3, <1>10 DEF Pending
  <2> QED BY <1>4, <2>1 DEF Eventual
<1>13. CASE next[r] < Len(order[r])
  <2>1. Stays(r) /\ next'[r] = next[r] + 1 /\ handle' = handle /\ order' = order
    BY <1>1, <1>13 DEF Took
  <2>2. Stage(r)' = Stage(r) /\ Past(r)' = Past(r) /\ steps'[r] = steps[r]
    BY <1>3, <2>1, StageStays DEF Stays
  <2>3. next'[r] - 1 = next[r] BY <1>9, <2>1
  <2>4. \A i \in 1 .. next[r] - 1 : i \in 1 .. next[r] BY <1>9
  <2>5. next[r] \in 1 .. next[r] BY <1>9
  <2>6. ASSUME NEW x \in Params, x # p
        PROVE  Kept(r, x) /\ OwnGradient(r, x)' /\ Accounted(r, x)'
    <3>1. Added(r, x)' <=> Added(r, x) BY <1>2, <1>6, <1>9, <2>1, <2>3, <2>4, <2>6 DEF Added
    <3>2. Idle(r, x) BY <1>3, <1>4, <2>1, <2>2, <2>6, <3>1 DEF Idle
    <3> QED BY <1>3, <3>2, IdleKeeps DEF ValuesInv
  <2>7. Kept(r, p) /\ OwnGradient(r, p)' /\ Accounted(r, p)'
    <3>1. handle[r][p] = "done" /\ handle'[r][p] = "done" BY <1>3, <2>1
    <3>2. ~Open(r, p) /\ ~Open(r, p)' BY <3>1 DEF Open
    <3>3. Count(r, p)' = Count(r, p) BY <1>6, <2>1, <2>2 DEF Count
    <3>4. Added(r, p)' BY <1>2, <1>6, <1>7, <2>1, <2>3, <2>5 DEF Added
    <3>5. \A y \in Ranks : Eventual(r, p, y)' = Eventual(r, p, y)
      <4> TAKE y \in Ranks
      <4>1. Pending(r, p, y)' = 0 BY <3>1, <3>4 DEF Pending
      <4>2. Eventual(r, p, y)' = param'[r][p][y] + 0 BY <4>1 DEF Eventual
      <4>3. param'[r][p][y] \in Nat
        <5>1. param[r][p][y] \in Nat /\ output[r][p][y] \in Nat BY Numbers
        <5> QED BY <1>4, <5>1
      <4> QED BY <1>12, <4>2, <4>3
    <3>6. Accounted(r, p) BY DEF ValuesInv
    <3>7. OwnGradient(r, p)' BY <3>1, <3>2 DEF OwnGradient
    <3>8. Accounted(r, p)' BY <1>3, <3>2, <3>5, <3>6 DEF Accounted
    <3> QED BY <3>3, <3>5, <3>7, <3>8 DEF Kept
  <2>8. WrittenBack(r)' BY <1>1, <2>2 DEF WrittenBack, Waits
  <2> QED BY <1>3, <1>5, <1>11, <2>6, <2>7, <2>8, OneValues
<1>14. CASE ~(next[r] < Len(order[r]))
  <2>1. /\ Proceeds(r) /\ next'[r] = 1 /\ order'[r] = <<>> /\ next[r] = Len(order[r])
        /\ \A x \in Params : handle[r][x] = "done" /\ handle'[r][x] = "absent"
    BY <1>1, <1>14 DEF Took
  <2>2. Stage(r)' \in {"set_passes", "zero_grad", "over"} /\ steps'[r] = steps[r] + 1
    BY <1>0, <1>1, <1>3, <1>7, <2>1, NextStage DEF Ends
  <2>3. Past(r)' = 0 BY <2>2 DEF Past
  <2>4. ASSUME NEW x \in Params PROVE Kept(r, x) /\ OwnGradient(r, x)' /\ Accounted(r, x)'
    <3>1. handle[r][x] = "done" /\ handle'[r][x] = "absent" BY <2>1
    <3>2. Count(r, x)' = Count(r, x)
      <4>1. steps[r] \in Nat BY Numbers
      <4>2. Count(r, x)' = 1 * (steps[r] + 1) + 0 + 0 BY <1>6, <1>7, <2>2, <2>3, <3>1 DEF Count
      <4>3. Count(r, x) = 1 * steps[r] + 0 + 1 BY <1>7, <3>1 DEF Count
      <4> QED BY <4>1, <4>2, <4>3
    <3>3. \A y \in Ranks : Eventual(r, x, y)' = Eventual(r, x, y)
      <4> TAKE y \in Ranks
      <4>1. param[r][x][y] \in Nat /\ output[r][x][y] \in Nat BY Numbers
      <4>2. param'[r][x][y] \in Nat
        <5>1. param[r][p][y] \in Nat /\ output[r][p][y] \in Nat BY Numbers
        <5>2. CASE x = p BY <1>4, <5>1, <5>2
        <5>3. CASE x # p BY <1>4, <4>1, <5>3
        <5> QED BY <5>2, <5>3
      <4>3. Eventual(r, x, y)' = param'[r][x][y]
        <5>1. ~(Past(r)' > 0) BY <2>3
        <5>2. Pending(r, x, y)' = 0 BY <3>1, <5>1 DEF Pending
        <5> QED BY <4>2, <5>2 DEF Eventual
      <4>4. CASE x = p BY <1>12, <4>3, <4>4
      <4>5. CASE x # p
        <5>1. PICK i \in 1 .. Len(order[r]) : order[r][i] = x BY <1>8
        <5>2. i \in 1 .. next[r] - 1 BY <1>2, <1>9, <2>1, <4>5, <5>1
        <5>3. Added(r, x) BY <1>7, <5>1, <5>2 DEF Added
        <5>4. Pending(r, x, y) = 0 BY <3>1, <5>3 DEF Pending
        <5>5. Eventual(r, x, y) = param[r][x][y] BY <4>1, <5>4 DEF Eventual
        <5> QED BY <1>4, <4>3, <4>5, <5>5
      <4> QED BY <4>4, <4>5
    <3>4. ~Open(r, x) /\ ~Open(r, x)' BY <2>2, <3>1 DEF Open, OpenStages
    <3>5. Accounted(r, x) BY DEF ValuesInv
    <3>6. OwnGradient(r, x)' BY <3>1, <3>4 DEF OwnGradient
    <3>7. Accounted(r, x)' BY <1>3, <3>3, <3>4, <3>5 DEF Accounted
    <3> QED BY <3>2, <3>3, <3>6, <3>7 DEF Kept
  <2>5. WrittenBack(r)' BY <2>2 DEF WrittenBack, Waits
  <2> QED BY <1>3, <1>5, <1>11, <2>4, <2>5, OneValues
<1> QED BY <1>13, <1>14

\* Counts of ranks that are one iteration apart.
LEMMA RoundApart ==
    ASSUME NEW n \in {1, 2}, NEW a \in Nat, NEW b \in Nat, NEW d \in {0, 1},
           n * (a + 1) + b + d = n * a + n + 0
    PROVE  b = 0 /\ d = 0
<1>1. CASE n = 1 BY <1>1
<1>2. CASE n = 2 BY <1>2
<1> QED BY <1>1, <1>2

LEMMA ApplyValues ==
    ASSUME CallsInv, ValuesInv, ~ClosureLate, NEW r \in Ranks, Apply(r)
    PROVE  ValuesInv'
<1>0. OptimizerTypeOK /\ InPlace(r) BY DEF CallsInv, RankOK, PlaceOK
<1>1. /\ Proceeds(r) /\ Stage(r) = "apply" /\ steps[r] < MaxSteps /\ Possible(Stage(r))
      /\ \A p \in Params : handle[r][p] = "absent"
  <2>1. Stage(r) \in {"apply", "last_apply"} /\ Possible(Stage(r)) BY ApplyCalls
  <2>2. Stage(r) = "apply" BY <2>1 DEF Possible
  <2> QED BY <2>2, ApplyCalls
<1>2. /\ program' = program /\ handle' = handle /\ order' = order /\ next' = next /\ grad' = grad
      /\ submitted' = submitted /\ output' = output /\ computed' = computed /\ failed' = failed
      /\ Return(r)
  BY DEF Apply
<1>3. /\ \A p \in Params : \A x \in Ranks : param'[r][p][x] = param[r][p][x] + grad[r][p][x]
      /\ param' \in [Ranks -> [Params -> [Ranks -> Nat]]]
      /\ \A q \in Ranks \ {r} : param'[q] = param[q]
  <2> DEFINE now(p) == IF handle[r][p] = "done" /\ ~program.half THEN output[r][p] ELSE grad[r][p]
             new == [p \in Params |-> Plus(param[r][p], now(p))]
  <2>1. param \in [Ranks -> [Params -> [Ranks -> Nat]]] BY <1>0 DEF OptimizerTypeOK
  <2>2. \A p \in Params : now(p) = grad[r][p] BY <1>1
  <2>3. param' = [param EXCEPT ![r] = new] BY DEF Apply
  <2>4. \A p \in Params : new[p] = Plus(param[r][p], grad[r][p]) BY <2>2
  <2> HIDE DEF new
  <2>5. param'[r] = new /\ \A q \in Ranks \ {r} : param'[q] = param[q] BY <2>1, <2>3
  <2>6. \A p \in Params : \A x \in Ranks : param'[r][p][x] = param[r][p][x] + grad[r][p][x]
    BY <2>4, <2>5 DEF Plus
  <2>7. param' \in [Ranks -> [Params -> [Ranks -> Nat]]]
    BY ApplyCalls DEF CallsInv, OptimizerTypeOK
  <2> QED BY <2>5, <2>6, <2>7
<1>4. /\ Stage(r)' \in {"set_passes", "zero_grad", "over"} /\ steps'[r] = steps[r] + 1
      /\ \A q \in Ranks \ {r} : Stays(q)
  <2>1. \A q \in Ranks \ {r} : Stays(q) BY <1>0, <1>1, <1>2, Returned
  <2> QED BY <1>0, <1>1, <1>2, <2>1, NextStage DEF Ends
<1>5. \A q \in Ranks \ {r} : Still(q) BY <1>2, <1>3, <1>4 DEF Still
<1>6. /\ IsAdasum' = IsAdasum /\ Rounds' = Rounds /\ Unit' = Unit BY <1>2, SameProgram
<1>7. Rounds \in {1, 2} /\ Past(r) = Rounds /\ Past(r)' = 0 /\ Past(r) > 0
  <2>1. Rounds \in {1, 2} /\ Past(r) = Rounds BY <1>1, PastIs
  <2> QED BY <1>4, <2>1 DEF Past
<1>8. \A p \in Params : \A x \in Ranks :
        Eventual(r, p, x) = param'[r][p][x] /\ Eventual(r, p, x)' = param'[r][p][x]
  <2> TAKE p \in Params
  <2> TAKE x \in Ranks
  <2>1. handle[r][p] # "done" /\ handle'[r][p] # "done" BY <1>1, <1>2
  <2>2. Pending(r, p, x) = grad[r][p][x] BY <1>7, <2>1 DEF Pending
  <2>3. ~(Past(r)' > 0) BY <1>7
  <2>4. Pending(r, p, x)' = 0 BY <2>1, <2>3 DEF Pending
  <2>5. param'[r][p][x] \in Nat BY <1>3
  <2> QED BY <1>3, <2>2, <2>4, <2>5 DEF Eventual
<1>9. ASSUME NEW p \in Params PROVE Kept(r, p) /\ OwnGradient(r, p)' /\ Accounted(r, p)'
  <2>1. handle[r][p] = "absent" /\ handle'[r][p] = "absent" BY <1>1, <1>2
  <2>2. Count(r, p)' = Count(r, p)
    <3>1. steps[r] \in Nat BY Numbers
    <3>2. Count(r, p)' = Rounds * (steps[r] + 1) + 0 + 0 BY <1>4, <1>6, <1>7, <2>1 DEF Count
    <3>3. Count(r, p) = Rounds * steps[r] + Rounds + 0 BY <1>7, <2>1 DEF Count
    <3>4. Rounds = 1 \/ Rounds = 2 BY <1>7
    <3> QED BY <3>1, <3>2, <3>3, <3>4
  <2>3. ~Open(r, p) /\ ~Open(r, p)' BY <1>1, <1>4 DEF Open, OpenStages
  <2>4. Accounted(r, p) BY DEF ValuesInv
  <2>5. OwnGradient(r, p)' BY <2>1, <2>3 DEF OwnGradient
  <2>6. Accounted(r, p)' BY <1>2, <1>8, <2>3, <2>4 DEF Accounted
  <2> QED BY <1>8, <2>2, <2>5, <2>6 DEF Kept
<1>10. WrittenBack(r)' BY <1>4 DEF WrittenBack, Waits
<1>11. ASSUME NEW s \in Ranks \ {r}, steps[s] = steps[r] + 1 PROVE param'[s] = param'[r]
  <2>1. ASSUME NEW p \in Params, NEW x \in Ranks PROVE param[s][p][x] = param'[r][p][x]
    <3>1. handle[r][p] # "done" BY <1>1
    <3>2. PICK d : d = IF handle[s][p] = "done" THEN 1 ELSE 0 OBVIOUS
    <3>3. Count(s, p) = Rounds * (steps[r] + 1) + Past(s) + d BY <1>11, <3>2 DEF Count
    <3>4. Count(r, p) = Rounds * steps[r] + Rounds + 0 BY <1>7, <3>1 DEF Count
    <3>5. Count(s, p) = Count(r, p) BY DEF ValuesInv, InRounds
    <3>6. steps[r] \in Nat /\ Past(s) \in Nat
      <4>1. Past(s) \in 0 .. Rounds /\ Rounds \in {1, 2} BY PastIs
      <4> QED BY <4>1, Numbers
    <3>7. PICK a, b, n : a = steps[r] /\ b = Past(s) /\ n = Rounds OBVIOUS
    <3>8. n * (a + 1) + b + d = n * a + n + 0 BY <3>3, <3>4, <3>5, <3>7
    <3>9. n \in {1, 2} /\ a \in Nat /\ b \in Nat /\ d \in {0, 1} BY <1>7, <3>2, <3>6, <3>7
    <3>10. b = 0 /\ d = 0 BY <3>8, <3>9, RoundApart
    <3>11. ~(Past(s) > 0) /\ handle[s][p] # "done" BY <3>2, <3>7, <3>10
    <3>12. Pending(s, p, x) = 0 BY <3>11 DEF Pending
    <3>13. param[s][p][x] \in Nat BY Numbers
    <3>14. Eventual(s, p, x) = param[s][p][x] BY <3>12, <3>13 DEF Eventual
    <3>15. Eventual(s, p, x) = Eventual(r, p, x) BY DEF ValuesInv, AllAlike
    <3> QED BY <1>8, <3>14, <3>15
  <2>2. param'[s] = param[s] BY <1>3
  <2>3. param'[s] \in [Params -> [Ranks -> Nat]] /\ param'[r] \in [Params -> [Ranks -> Nat]]
    BY <1>3
  <2>4. \A p \in Params : param'[s][p] = param'[r][p]
    <3> TAKE p \in Params
    <3>1. param'[s][p] \in [Ranks -> Nat] /\ param'[r][p] \in [Ranks -> Nat] BY <2>3
    <3> QED BY <2>1, <2>2, <3>1
  <2> QED BY <2>3, <2>4
<1>12. AppliedAlike'
  <2> SUFFICES ASSUME NEW q \in Ranks, NEW s \in Ranks, steps'[q] = steps'[s], ~IsAdasum
               PROVE  param'[q] = param'[s]
    BY <1>6 DEF AppliedAlike
  <2>1. \A x \in Ranks \ {r} : steps'[x] = steps[x] BY <1>4 DEF Stays
  <2>2. CASE q = r /\ s = r BY <2>2
  <2>3. CASE q = r /\ s # r BY <1>4, <1>11, <2>1, <2>3
  <2>4. CASE q # r /\ s = r BY <1>4, <1>11, <2>1, <2>4
  <2>5. CASE q # r /\ s # r
    <3>1. param[q] = param[s] BY <2>1, <2>5 DEF ValuesInv, AppliedAlike
    <3> QED BY <1>3, <2>5, <3>1
  <2> QED BY <2>2, <2>3, <2>4, <2>5
<1> QED BY <1>2, <1>5, <1>9, <1>10, <1>12, OneValues

LEMMA ZeroGradValues ==
    ASSUME CallsInv, ValuesInv, ~ClosureLate, NEW r \in Ranks, ZeroGrad(r)
    PROVE  ValuesInv'
<1>0. OptimizerTypeOK /\ InPlace(r) BY DEF CallsInv, RankOK, PlaceOK
<1>1. /\ Proceeds(r) /\ Stage(r) = "zero_grad" /\ steps[r] < MaxSteps /\ Possible(Stage(r))
      /\ order[r] = <<>> /\ \A p \in Params : handle[r][p] = "absent"
  BY ZeroGradCalls
<1>2. /\ grad' = [grad EXCEPT ![r] = [p \in Params |-> Zero]]
      /\ program' = program /\ handle' = handle /\ order' = order /\ next' = next
      /\ submitted' = submitted /\ output' = output /\ param' = param /\ computed' = computed
      /\ failed' = failed /\ Return(r)
  BY <1>1 DEF ZeroGrad
<1>3. /\ \A p \in Params : \A x \in Ranks : grad'[r][p][x] = 0
      /\ \A q \in Ranks \ {r} : grad'[q] = grad[q]
  BY <1>0, <1>2 DEF OptimizerTypeOK, Zero
<1>4. /\ Stage(r)' \in {"backward", "skip", "missing", "submit"} /\ steps'[r] = steps[r]
      /\ \A q \in Ranks \ {r} : Stays(q)
  <2>1. \A q \in Ranks \ {r} : Stays(q) BY <1>0, <1>1, <1>2, Returned
  <2>2. Stage(r)' \in {"backward"} \cup AfterGradients /\ steps'[r] = steps[r]
    BY <1>0, <1>1, <1>2, NextStage DEF Ends
  <2>3. Stage(r)' # "last_apply"
    <3>1. Follow("zero_grad", Stage(r)', Remaining(r)) BY <1>1 DEF Proceeds, Ends
    <3>2. AfterPasses # "last_apply" BY DEF AfterPasses
    <3> QED BY <3>1, <3>2 DEF Follow
  <2> QED BY <2>1, <2>2, <2>3 DEF AfterGradients
<1>5. \A q \in Ranks \ {r} : Still(q) BY <1>2, <1>3, <1>4 DEF Still
<1>6. /\ IsAdasum' = IsAdasum /\ Rounds' = Rounds /\ Unit' = Unit BY <1>2, SameProgram
<1>7. /\ Past(r) = 0 /\ Past(r)' = 0 /\ ~(Past(r) > 0) /\ ~(Past(r)' > 0)
  BY <1>1, <1>4 DEF Past
<1>8. ASSUME NEW p \in Params PROVE Kept(r, p) /\ OwnGradient(r, p)' /\ Accounted(r, p)'
  <2>1. handle[r][p] = "absent" /\ handle'[r][p] = "absent" BY <1>1, <1>2
  <2>2. Count(r, p)' = Count(r, p) BY <1>4, <1>6, <1>7, <2>1 DEF Count
  <2>3. \A x \in Ranks : Eventual(r, p, x)' = Eventual(r, p, x)
    BY <1>2, <1>7, <2>1 DEF Eventual, Pending
  <2>4. ~Open(r, p) /\ Open(r, p)' BY <1>1, <1>4, <2>1 DEF Open, OpenStages
  <2>5. OwnGradient(r, p)' BY <1>3, <2>1 DEF OwnGradient
  <2>6. Accounted(r, p)'
    <3> SUFFICES ASSUME ~(program.style = "both" /\ program.op = "Sum"), failed[r] = "no"
                 PROVE  Unit * computed[r][p] = Unit * Eventual(r, p, r) + grad'[r][p][r]
      BY <1>2, <1>6, <2>3, <2>4 DEF Accounted
    <3>1. Accounted(r, p) BY DEF ValuesInv
    <3>2. Eventual(r, p, r) = computed[r][p] BY <2>4, <3>1 DEF Accounted
    <3>3. grad'[r][p][r] = 0 BY <1>3
    <3>4. Unit * computed[r][p] \in Nat
      <4>1. Unit \in Nat /\ computed[r][p] \in Nat BY Numbers
      <4> QED BY <4>1
    <3> QED BY <3>2, <3>3, <3>4
  <2> QED BY <2>2, <2>3, <2>5, <2>6 DEF Kept
<1>9. WrittenBack(r)' BY <1>4 DEF WrittenBack, Waits
<1>10. AppliedAlike'
  <2>1. \A q \in Ranks : steps'[q] = steps[q]
    <3> TAKE q \in Ranks
    <3>1. CASE q = r BY <1>4, <3>1
    <3>2. CASE q # r BY <1>4, <3>2 DEF Stays
    <3> QED BY <3>1, <3>2
  <2> QED BY <1>2, <2>1, AppliedKept DEF ValuesInv
<1> QED BY <1>2, <1>5, <1>8, <1>9, <1>10, OneValues

-----------------------------------------------------------------------------
(* Replicas and passes.                                                    *)

LEMMA InitValues == OptimizerInit => ClosureLate \/ ValuesInv
<1> SUFFICES ASSUME OptimizerInit, ~ClosureLate PROVE ValuesInv OBVIOUS
<1>1. CallsInv BY InitCalls
<1>2. /\ steps = [r \in Ranks |-> 0] /\ next = [r \in Ranks |-> 1]
      /\ computed = [r \in Ranks |-> [p \in Params |-> 0]]
      /\ handle = [r \in Ranks |-> [p \in Params |-> "absent"]]
      /\ param = [r \in Ranks |-> [p \in Params |-> Zero]]
  BY DEF OptimizerInit
<1>3. \A q \in Ranks : Stage(q) \in {"set_passes", "zero_grad"}
  BY InitStage DEF FirstStage
<1>4. \A q \in Ranks : Past(q) = 0 /\ ~(Past(q) > 0) BY <1>3 DEF Past
<1>5. \A q \in Ranks : \A p \in Params :
        /\ handle[q][p] = "absent" /\ computed[q][p] = 0 /\ ~Open(q, p)
        /\ Count(q, p) = Rounds * 0 + 0 + 0
        /\ \A x \in Ranks : Eventual(q, p, x) = 0
  <2> TAKE q \in Ranks
  <2> TAKE p \in Params
  <2>1. handle[q][p] = "absent" /\ computed[q][p] = 0 /\ steps[q] = 0 BY <1>2
  <2>2. ~Open(q, p) BY <1>3 DEF Open, OpenStages
  <2>3. Count(q, p) = Rounds * 0 + 0 + 0 BY <1>4, <2>1 DEF Count
  <2>4. \A x \in Ranks : Eventual(q, p, x) = 0
    <3> TAKE x \in Ranks
    <3>1. param[q][p][x] = 0 BY <1>2 DEF Zero
    <3>2. Pending(q, p, x) = 0 BY <1>4, <2>1 DEF Pending
    <3> QED BY <3>1, <3>2 DEF Eventual
  <2> QED BY <2>1, <2>2, <2>3, <2>4
<1>6. InRounds BY <1>5 DEF InRounds
<1>7. AllAlike BY <1>5 DEF AllAlike
<1>8. AppliedAlike BY <1>2 DEF AppliedAlike
<1>9. \A q \in Ranks : WrittenBack(q) BY <1>3 DEF WrittenBack, Waits
<1>10. \A q \in Ranks : \A p \in Params : OwnGradient(q, p) /\ Accounted(q, p)
  BY <1>5 DEF OwnGradient, Accounted
<1> QED BY <1>6, <1>7, <1>8, <1>9, <1>10 DEF ValuesInv

LEMMA NextValues ==
    CallsInv /\ (ClosureLate \/ ValuesInv) /\ [OptimizerNext]_optVars => (ClosureLate \/ ValuesInv)'
<1> SUFFICES ASSUME CallsInv, ClosureLate \/ ValuesInv, [OptimizerNext]_optVars
             PROVE  ClosureLate' \/ ValuesInv'
  OBVIOUS
<1>1. program' = program
  <2>1. ASSUME NEW r \in Ranks, NEW p \in Params, Hook(r, p) \/ SubmitRest(r, p)
        PROVE  program' = program
    BY <2>1 DEF Hook, SubmitRest, Raise
  <2>2. ASSUME NEW r \in Ranks, Wait(r) \/ ZeroGrad(r) \/ RefuseSkip(r) PROVE program' = program
    BY <2>2 DEF Wait, ZeroGrad, RefuseSkip, Raise
  <2>3. ASSUME NEW r \in Ranks, Forward(r) \/ AllSubmitted(r) \/ FinishSubmit(r) \/ FinishWait(r)
                                \/ Apply(r) \/ SetPasses(r)
        PROVE  program' = program
    BY <2>3 DEF Forward, AllSubmitted, FinishSubmit, FinishWait, Apply, SetPasses
  <2>4. CASE UNCHANGED optVars BY <2>4 DEF optVars
  <2> QED BY <2>1, <2>2, <2>3, <2>4 DEF OptimizerNext, RankStep
<1>2. ClosureLate' = ClosureLate BY <1>1, SameProgram
<1>3. ASSUME ValuesInv, ~ClosureLate PROVE ValuesInv'
  <2>1. CASE OptimizerNext
    <3>1. PICK r \in Ranks : RankStep(r) BY <2>1 DEF OptimizerNext
    <3>2. CASE Forward(r) BY <1>3, <3>2, ForwardValues
    <3>3. CASE \E p \in Params : Hook(r, p) \/ SubmitRest(r, p)
      <4>1. PICK p \in Params : Hook(r, p) \/ SubmitRest(r, p) BY <3>3
      <4>2. CASE Hook(r, p) /\ delay[r][p] <= 0 BY <1>3, <4>2, HookFailsValues
      <4>3. CASE Hook(r, p) /\ ~(delay[r][p] <= 0) BY <1>3, <4>3, HookValues
      <4>4. CASE SubmitRest(r, p) BY <1>3, <4>4, SubmitRestValues
      <4> QED BY <4>1, <4>2, <4>3, <4>4
    <3>4. CASE AllSubmitted(r) BY <1>3, <3>4, AllSubmittedValues
    <3>5. CASE Wait(r) BY <1>3, <3>5, WaitValues
    <3>6. CASE FinishSubmit(r) BY <1>3, <3>6, FinishSubmitValues
    <3>7. CASE FinishWait(r) BY <1>3, <3>7, FinishWaitValues
    <3>8. CASE Apply(r) BY <1>3, <3>8, ApplyValues
    <3>9. CASE ZeroGrad(r) BY <1>3, <3>9, ZeroGradValues
    <3>10. CASE SetPasses(r) BY <1>3, <3>10, SetPassesValues
    <3>11. CASE RefuseSkip(r) BY <1>3, <3>11, RefuseSkipValues
    <3> QED BY <3>1, <3>2, <3>3, <3>4, <3>5, <3>6, <3>7, <3>8, <3>9, <3>10, <3>11 DEF RankStep
  <2>2. CASE UNCHANGED optVars
    <3>1. \A q \in Ranks : Still(q) BY <2>2 DEF optVars, Still, Stays
    <3>2. param' = param BY <2>2 DEF optVars
    <3> QED BY <1>1, <1>3, <3>1, <3>2, StillValues
  <2> QED BY <2>1, <2>2
<1> QED BY <1>2, <1>3

LEMMA ValuesInvariant == OptimizerSpec => [](CallsInv /\ (ClosureLate \/ ValuesInv))
<1>1. OptimizerInit => CallsInv /\ (ClosureLate \/ ValuesInv) BY InitCalls, InitValues
<1>2. CallsInv /\ (ClosureLate \/ ValuesInv) /\ [OptimizerNext]_optVars
        => (CallsInv /\ (ClosureLate \/ ValuesInv))'
  BY NextCalls, NextValues
<1> QED BY <1>1, <1>2, PTL DEF OptimizerSpec

\* A rank at the start of an iteration has everything in its parameters.
LEMMA AtRest ==
    ASSUME CallsInv, ~ClosureLate, NEW q \in Ranks, Rests(q)
    PROVE  \A p \in Params : /\ ~Open(q, p)
                             /\ \A x \in Ranks : Eventual(q, p, x) = param[q][p][x]
<1>1. Stage(q) \in {"set_passes", "zero_grad", "over"}
  <2>1. at[q] = 1 /\ program \in Programs /\ steps[q] \in 0 .. MaxSteps /\ MaxSteps \in Nat
    BY ProgramsAssumption DEF Rests, CallsInv, OptimizerTypeOK
  <2>2. CASE steps[q] < MaxSteps
    <3>1. steps[q] + 1 \in 1 .. MaxSteps /\ 1 \in 1 .. LastCall(steps[q] + 1)
      BY <2>1, <2>2 DEF CallsInv, RankOK, PlaceOK, InPlace
    <3>2. StageAt(steps[q] + 1, 1) = FirstStage BY <2>1, <3>1, StagesFollow
    <3>3. Stage(q) = FirstStage BY <2>1, <2>2, <3>2 DEF Stage
    <3> QED BY <3>3 DEF FirstStage
  <2>3. CASE ~(steps[q] < MaxSteps) BY <2>3, StageKinds
  <2> QED BY <2>2, <2>3
<1>2. ~(Past(q) > 0) BY <1>1 DEF Past
<1> SUFFICES ASSUME NEW p \in Params
             PROVE  ~Open(q, p) /\ \A x \in Ranks : Eventual(q, p, x) = param[q][p][x]
  OBVIOUS
<1>3. handle[q][p] = "absent" BY <1>1, NoHandles
<1>4. ~Open(q, p) BY <1>1 DEF Open, OpenStages
<1>5. \A x \in Ranks : Eventual(q, p, x) = param[q][p][x]
  <2> TAKE x \in Ranks
  <2>1. Pending(q, p, x) = 0 BY <1>2, <1>3 DEF Pending
  <2>2. param[q][p][x] \in Nat BY Numbers
  <2> QED BY <2>1, <2>2 DEF Eventual
<1> QED BY <1>4, <1>5

LEMMA ValuesAgree == CallsInv /\ (ClosureLate \/ ValuesInv) => ReplicasAgree
<1> SUFFICES ASSUME CallsInv, ClosureLate \/ ValuesInv, NEW q \in Ranks, NEW r \in Ranks,
                    Rests(q), Rests(r), steps[q] = steps[r]
             PROVE  param[q] = param[r] \/ (program.style = "closure" /\ ~IsAdasum)
  BY DEF ReplicasAgree
<1>1. CASE ClosureLate BY <1>1 DEF ClosureLate
<1>2. CASE ~ClosureLate
  <2>1. ASSUME NEW p \in Params, NEW x \in Ranks PROVE param[q][p][x] = param[r][p][x]
    <3>1. Eventual(q, p, x) = Eventual(r, p, x) BY <1>2 DEF ValuesInv, AllAlike
    <3>2. Eventual(q, p, x) = param[q][p][x] /\ Eventual(r, p, x) = param[r][p][x]
      BY <1>2, AtRest
    <3> QED BY <3>1, <3>2
  <2>2. param \in [Ranks -> [Params -> [Ranks -> Nat]]] BY DEF CallsInv, OptimizerTypeOK
  <2>3. param[q] \in [Params -> [Ranks -> Nat]] /\ param[r] \in [Params -> [Ranks -> Nat]] BY <2>2
  <2>4. \A p \in Params : param[q][p] = param[r][p]
    <3> TAKE p \in Params
    <3>1. param[q][p] \in [Ranks -> Nat] /\ param[r][p] \in [Ranks -> Nat] BY <2>3
    <3> QED BY <2>1, <3>1
  <2> QED BY <2>3, <2>4
<1> QED BY <1>1, <1>2

LEMMA ValuesCount == CallsInv /\ (ClosureLate \/ ValuesInv) => EachPassCountsOnce
<1> SUFFICES ASSUME CallsInv, ClosureLate \/ ValuesInv, ~ClosureLate,
                    ~(program.style = "both" /\ program.op = "Sum"),
                    \A q, r \in Ranks : Rests(r) /\ steps[q] = steps[r],
                    NEW r \in Ranks, NEW p \in Params
             PROVE  param[r][p] = [q \in Ranks |-> computed[q][p]]
  BY DEF EachPassCountsOnce, ClosureLate
<1>1. ASSUME NEW q \in Ranks PROVE param[r][p][q] = computed[q][p]
  <2>1. Eventual(r, p, q) = Eventual(q, p, q) BY DEF ValuesInv, AllAlike
  <2>2. Rests(r) /\ Rests(q) OBVIOUS
  <2>3. Eventual(r, p, q) = param[r][p][q] /\ ~Open(q, p) BY <2>2, AtRest
  <2>4. Accounted(q, p) /\ failed[q] = "no" BY <2>2 DEF ValuesInv, Rests
  <2>5. Eventual(q, p, q) = computed[q][p] BY <2>3, <2>4 DEF Accounted
  <2> QED BY <2>1, <2>3, <2>5
<1>2. param[r][p] \in [Ranks -> Nat] BY DEF CallsInv, OptimizerTypeOK
<1> QED BY <1>1, <1>2

\* Ranks that have completed the same number of iterations of the DistributedOptimizer
\* (torch/__init__.py) have the same parameters, except with a late closure.
THEOREM ReplicasStayAlike == OptimizerSpec => []ReplicasAgree
BY ValuesInvariant, ValuesAgree, PTL

\* What step() has applied is every backward pass of every rank, each counted once,
\* except with a late closure or after a second synchronisation of sums.
THEOREM PassesCountOnce == OptimizerSpec => []EachPassCountsOnce
BY ValuesInvariant, ValuesCount, PTL
=============================================================================

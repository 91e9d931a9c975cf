------------------------------- MODULE Process -------------------------------
(***************************************************************************)
(* The life of Horovod in one process: program threads submit tensors and  *)
(* wait for their handles while the background thread takes them out of    *)
(* the tensor queue, runs their callbacks, and at the end of the job calls *)
(* back whatever is left.  The main thread may start Horovod again after a *)
(* shutdown.                                                               *)
(*                                                                         *)
(* What the job agrees on is the business of Controller: here responses    *)
(* come, and the loop ends, at any time.  Program threads do not exclude   *)
(* each other: the executors of TensorFlow hold no interpreter lock.       *)
(***************************************************************************)
EXTENDS Naturals, Sequences, SequencesExt

CONSTANTS
    Threads,       \* program threads
    Main,          \* the one that starts Horovod and shuts it down
    Names,         \* names of tensors
    MaxHandles,    \* bound: submissions
    MaxInits       \* bound: calls of init()

ASSUME MainAssumption == Main \in Threads
ASSUME NamesAssumption == Names # {}

VARIABLES
    initializeFlag, initializationDone, shutDown, background,
    \* TensorQueue
    tensorTable,       \* name -> handle that the callback of its entry marks
    messageQueue,      \* names, in order
    \* background thread
    requested,         \* names whose requests it has popped
    entries,           \* handles of the response that it is performing
    callbacks,         \* handles that it will call back with SHUT_DOWN_ERROR
    \* HandleManager
    results,           \* handle -> "pending", "ok" or "error"
    lastHandle,
    \* program threads
    pc,
    job,               \* the name and the handle a thread is busy with
    handleMap,         \* _handle_map: handles that a thread has not synchronised
    inits              \* calls of init() (MaxInits)

globalVars == <<initializeFlag, initializationDone, shutDown>>
queueVars  == <<tensorTable, messageQueue>>
threadVars == <<requested, entries, callbacks>>
handleVars == <<results, lastHandle>>
programVars == <<pc, job, handleMap>>
vars == <<globalVars, background, queueVars, threadVars, handleVars,
          programVars, inits>>

Waiting(f) == {f[n] : n \in DOMAIN f}
Without(f, gone) == [n \in DOMAIN f \ gone |-> f[n]]
Goes(t, to) == pc' = [pc EXCEPT ![t] = to]
NoJob == [name |-> CHOOSE n \in Names : TRUE, handle |-> 0]
Returns(t) == Goes(t, "idle") /\ job' = [job EXCEPT ![t] = NoJob]

-----------------------------------------------------------------------------
(* The main thread starts Horovod and shuts it down.                       *)

\* InitializeHorovodOnce; a call while Horovod is initialized does nothing.
horovod_init ==
    /\ pc[Main] = "idle" /\ ~initializeFlag
    /\ inits < MaxInits
    /\ inits' = inits + 1
    /\ initializeFlag' = TRUE
    /\ initializationDone' = FALSE
    /\ background' = "start"
    /\ Goes(Main, "init")
    /\ UNCHANGED <<shutDown, queueVars, threadVars, handleVars, job, handleMap>>

InitReturns ==
    /\ pc[Main] = "init" /\ initializationDone
    /\ Goes(Main, "idle")
    /\ UNCHANGED <<globalVars, background, queueVars, threadVars, handleVars,
                   job, handleMap, inits>>

\* Mutant of horovod_shutdown: the background thread is not told.
horovod_shutdown_Silent ==
    /\ pc[Main] = "idle" /\ background # "none"
    /\ Goes(Main, "join")
    /\ UNCHANGED <<globalVars, background, queueVars, threadVars, handleVars,
                   job, handleMap, inits>>

\* Nothing to do if there is no thread to join.
horovod_shutdown ==
    /\ pc[Main] = "idle" /\ background # "none"
    /\ shutDown' = TRUE
    /\ Goes(Main, "join")
    /\ UNCHANGED <<initializeFlag, initializationDone, background, queueVars,
                   threadVars, handleVars, job, handleMap, inits>>

JoinReturns ==
    /\ pc[Main] = "join" /\ background = "ended"
    /\ background' = "none"
    /\ initializeFlag' = FALSE
    /\ Goes(Main, "reset")
    /\ UNCHANGED <<initializationDone, shutDown, queueVars, threadVars,
                   handleVars, job, handleMap, inits>>

ResetShutDown ==
    /\ pc[Main] = "reset"
    /\ shutDown' = FALSE
    /\ Goes(Main, "idle")
    /\ UNCHANGED <<initializeFlag, initializationDone, background, queueVars,
                   threadVars, handleVars, job, handleMap, inits>>

-----------------------------------------------------------------------------
(* Program threads submit tensors and wait.                                *)

\* DoAllreduce: CheckInitialized, AllocateHandle.
Submit(t, n) ==
    /\ pc[t] = "idle"
    /\ initializationDone
    /\ lastHandle < MaxHandles
    /\ lastHandle' = lastHandle + 1
    /\ results' = [h \in DOMAIN results \cup {lastHandle'} |->
                      IF h = lastHandle' THEN "pending" ELSE results[h]]
    /\ job' = [job EXCEPT ![t] = [name |-> n, handle |-> lastHandle']]
    /\ Goes(t, "check")
    /\ UNCHANGED <<globalVars, background, queueVars, threadVars, handleMap, inits>>

\* EnqueueTensor* looks at the flag and refuses with SHUT_DOWN_ERROR, or goes
\* on to the queue.
ReadShutDown(t) ==
    /\ pc[t] = "check"
    /\ \/ shutDown /\ Returns(t)
       \/ ~shutDown /\ Goes(t, "enqueue") /\ UNCHANGED job
    /\ UNCHANGED <<globalVars, background, queueVars, threadVars, handleVars,
                   handleMap, inits>>

\* DUPLICATE_NAME_ERROR; the program does not get the handle.  The flag is not
\* looked at again under the lock of the queue.
RefuseDuplicate(t) ==
    /\ pc[t] = "enqueue"
    /\ job[t].name \in DOMAIN tensorTable
    /\ Returns(t)
    /\ UNCHANGED <<globalVars, background, queueVars, threadVars, handleVars,
                   handleMap, inits>>

\* Mutant of AddToTensorQueue: the name is not looked up.
AddToTensorQueue_Unchecked(t) ==
    /\ pc[t] = "enqueue"
    /\ LET name == job[t].name
           handle == job[t].handle
       IN  /\ tensorTable' = [n \in DOMAIN tensorTable \cup {name} |->
                                 IF n = name THEN handle ELSE tensorTable[n]]
           /\ messageQueue' = Append(messageQueue, name)
           /\ handleMap' = [handleMap EXCEPT ![t] = @ \cup {handle}]
    /\ Returns(t)
    /\ UNCHANGED <<globalVars, background, threadVars, handleVars, inits>>

AddToTensorQueue(t) ==
    /\ pc[t] = "enqueue"
    /\ LET name == job[t].name
           handle == job[t].handle
       IN  /\ name \notin DOMAIN tensorTable
           /\ tensorTable' = [n \in DOMAIN tensorTable \cup {name} |->
                                 IF n = name THEN handle ELSE tensorTable[n]]
           /\ messageQueue' = Append(messageQueue, name)
           /\ handleMap' = [handleMap EXCEPT ![t] = @ \cup {handle}]
    /\ Returns(t)
    /\ UNCHANGED <<globalVars, background, threadVars, handleVars, inits>>

\* synchronize(handle)
Synchronize(t, h) ==
    /\ pc[t] = "idle" /\ h \in handleMap[t]
    /\ job' = [job EXCEPT ![t] = [NoJob EXCEPT !.handle = h]]
    /\ Goes(t, "wait")
    /\ UNCHANGED <<globalVars, background, queueVars, threadVars, handleVars,
                   handleMap, inits>>

\* Mutant of WaitAndClear: the handle is released without being polled.
WaitAndClear_Unpolled(t) ==
    /\ pc[t] = "wait"
    /\ results' = Without(results, {job[t].handle})
    /\ handleMap' = [handleMap EXCEPT ![t] = @ \ {job[t].handle}]
    /\ Returns(t)
    /\ UNCHANGED <<globalVars, background, queueVars, threadVars, lastHandle,
                   inits>>

\* PollHandle until it is done, then ReleaseHandle; if the status is not OK an
\* exception is thrown before the handle is taken out of the program's map.
WaitAndClear(t) ==
    /\ pc[t] = "wait"
    /\ LET handle == job[t].handle
       IN  /\ handle \in DOMAIN results /\ results[handle] # "pending"
           /\ results' = Without(results, {handle})
           /\ handleMap' = IF results[handle] = "ok"
                           THEN [handleMap EXCEPT ![t] = @ \ {handle}]
                           ELSE handleMap
    /\ Returns(t)
    /\ UNCHANGED <<globalVars, background, queueVars, threadVars, lastHandle,
                   inits>>

\* "Handle was not created or has been cleared": after such an exception.
PollThrows(t) ==
    /\ pc[t] = "wait" /\ job[t].handle \notin DOMAIN results
    /\ Returns(t)
    /\ UNCHANGED <<globalVars, background, queueVars, threadVars, handleVars,
                   handleMap, inits>>

-----------------------------------------------------------------------------
(* The background thread.                                                  *)

MarkDone(h, status) == results' = [results EXCEPT ![h] = status]

\* Contexts, a new controller with an empty message table, the flag.
BackgroundStarts ==
    /\ background = "start"
    /\ background' = "loop"
    /\ initializationDone' = TRUE
    /\ requested' = {}
    /\ UNCHANGED <<initializeFlag, shutDown, queueVars, entries, callbacks,
                   handleVars, programVars, inits>>

\* The next cycle, when the responses of the last one have been performed.
InLoop == background = "loop" /\ entries = {}

PopMessagesFromQueue ==
    /\ InLoop
    /\ messageQueue # <<>>
    /\ requested' = requested \cup ToSet(messageQueue)
    /\ messageQueue' = <<>>
    /\ UNCHANGED <<globalVars, background, tensorTable, entries, callbacks,
                   handleVars, programVars, inits>>

\* A cache hit that is not common to all ranks.
PushMessageToQueue(n) ==
    /\ InLoop
    /\ n \in requested
    /\ requested' = requested \ {n}
    /\ messageQueue' = Append(messageQueue, n)
    /\ UNCHANGED <<globalVars, background, tensorTable, entries, callbacks,
                   handleVars, programVars, inits>>

\* A response covers some of the requested tensors.
GetTensorEntriesFromResponse(names) ==
    /\ InLoop
    /\ names # {}
    /\ entries' = {tensorTable[n] : n \in names}
    /\ tensorTable' = Without(tensorTable, names)
    /\ requested' = requested \ names
    /\ UNCHANGED <<globalVars, background, messageQueue, callbacks, handleVars,
                   programVars, inits>>

\* The operation is done or has failed: run the callback of an entry.
Callback(h, status) ==
    /\ h \in entries
    /\ MarkDone(h, status)
    /\ entries' = entries \ {h}
    /\ UNCHANGED <<globalVars, background, queueVars, requested, callbacks,
                   lastHandle, programVars, inits>>

\* The job has agreed to stop: because of this process or of another one.
LoopEnds ==
    /\ InLoop
    /\ background' = "end"
    /\ UNCHANGED <<globalVars, queueVars, threadVars, handleVars, programVars,
                   inits>>

SetShutDown ==
    /\ background = "end"
    /\ background' = "finalize"
    /\ shutDown' = TRUE
    /\ UNCHANGED <<initializeFlag, initializationDone, queueVars, threadVars,
                   handleVars, programVars, inits>>

\* Mutants of FinalizeTensorQueue: the callbacks are not collected; the table
\* is not cleared.
FinalizeTensorQueue_Forgets ==
    /\ background = "finalize"
    /\ background' = "notify"
    /\ callbacks' = {}
    /\ tensorTable' = Without(tensorTable, Names)
    /\ messageQueue' = <<>>
    /\ UNCHANGED <<globalVars, requested, entries, handleVars, programVars, inits>>

FinalizeTensorQueue_Keeps ==
    /\ background = "finalize"
    /\ background' = "notify"
    /\ callbacks' = Waiting(tensorTable)
    /\ messageQueue' = <<>>
    /\ UNCHANGED <<globalVars, tensorTable, requested, entries, handleVars,
                   programVars, inits>>

FinalizeTensorQueue ==
    /\ background = "finalize"
    /\ background' = "notify"
    /\ callbacks' = Waiting(tensorTable)
    /\ tensorTable' = Without(tensorTable, Names)
    /\ messageQueue' = <<>>
    /\ UNCHANGED <<globalVars, requested, entries, handleVars, programVars, inits>>

\* SHUT_DOWN_ERROR to what was left.
Notify(h) ==
    /\ h \in callbacks
    /\ MarkDone(h, "error")
    /\ callbacks' = callbacks \ {h}
    /\ UNCHANGED <<globalVars, background, queueVars, requested, entries,
                   lastHandle, programVars, inits>>

BackgroundEnds ==
    /\ background = "notify" /\ callbacks = {}
    /\ background' = "ended"
    /\ UNCHANGED <<globalVars, queueVars, threadVars, handleVars, programVars,
                   inits>>

-----------------------------------------------------------------------------
Init ==
    /\ initializeFlag = FALSE /\ initializationDone = FALSE /\ shutDown = FALSE
    /\ background = "none"
    /\ tensorTable = [n \in {} |-> 0]
    /\ messageQueue = <<>>
    /\ requested = {}
    /\ entries = {}
    /\ callbacks = {}
    /\ results = [h \in {} |-> "pending"]
    /\ lastHandle = 0
    /\ pc = [t \in Threads |-> "idle"]
    /\ job = [t \in Threads |-> NoJob]
    /\ handleMap = [t \in Threads |-> {}]
    /\ inits = 0

BackgroundThreadLoop ==
    \/ BackgroundStarts \/ PopMessagesFromQueue \/ SetShutDown
    \/ FinalizeTensorQueue \/ BackgroundEnds
    \/ \E h \in entries, status \in {"ok", "error"} : Callback(h, status)
    \/ \E h \in callbacks : Notify(h)

MainThread ==
    \/ horovod_init \/ InitReturns
    \/ horovod_shutdown \/ JoinReturns \/ ResetShutDown

Next ==
    \/ MainThread
    \/ \E t \in Threads :
        \/ \E n \in Names : Submit(t, n)
        \/ ReadShutDown(t) \/ RefuseDuplicate(t) \/ AddToTensorQueue(t)
        \/ \E h \in handleMap[t] : Synchronize(t, h)
        \/ WaitAndClear(t) \/ PollThrows(t)
    \/ BackgroundThreadLoop
    \/ \E n \in requested : PushMessageToQueue(n)
    \/ \E names \in SUBSET requested : GetTensorEntriesFromResponse(names)
    \/ LoopEnds

Spec == Init /\ [][Next]_vars

\* Threads that can go on do so, and the loop ends some time after shut_down
\* has been set (what Controller promises as ShutdownCompletes).
Fairness ==
    /\ WF_vars(BackgroundThreadLoop)
    /\ WF_vars(LoopEnds /\ shutDown)
    /\ WF_vars(InitReturns \/ JoinReturns \/ ResetShutDown)
    /\ \A t \in Threads : WF_vars(ReadShutDown(t) \/ RefuseDuplicate(t)
                                  \/ AddToTensorQueue(t) \/ WaitAndClear(t)
                                  \/ PollThrows(t))

FairSpec == Spec /\ Fairness

-----------------------------------------------------------------------------
(* Properties.                                                             *)

\* The variables have their types, and a handle that will be called back is
\* known to the handle manager.
FlagsOK ==
    /\ initializeFlag \in BOOLEAN
    /\ initializationDone \in BOOLEAN
    /\ shutDown \in BOOLEAN
    /\ inits \in Nat

QueueOK ==
    /\ background \in {"none", "start", "loop", "end", "finalize", "notify", "ended"}
    /\ DOMAIN tensorTable \subseteq Names
    /\ messageQueue \in Seq(Names)
    /\ requested \subseteq Names

HandlesOK ==
    /\ lastHandle \in Nat
    /\ DOMAIN results \subseteq 1 .. lastHandle
    /\ \A h \in DOMAIN results : results[h] \in {"pending", "ok", "error"}
    /\ Waiting(tensorTable) \cup entries \cup callbacks \subseteq DOMAIN results
    /\ handleMap \in [Threads -> SUBSET (1 .. lastHandle)]

ProgramOK ==
    /\ pc \in [Threads -> {"idle", "init", "join", "reset", "check", "enqueue", "wait"}]
    /\ job \in [Threads -> [name : Names, handle : Nat]]

TypeOK == FlagsOK /\ QueueOK /\ HandlesOK /\ ProgramOK

\* No callback is lost and none runs twice: a handle that a program holds and
\* that is not done is waiting in exactly one place, the tensor table, the
\* entries of a response or the callbacks of a shutdown, whatever happened in
\* between, and nothing else is waiting there.
CallbackOnce ==
    /\ \A t \in Threads : \A h \in handleMap[t] \cap DOMAIN results :
        results[h] = "pending" => h \in Waiting(tensorTable) \cup entries \cup callbacks
    /\ \A h \in Waiting(tensorTable) \cup entries \cup callbacks :
        results[h] = "pending" /\ \E t \in Threads : h \in handleMap[t]
    /\ Waiting(tensorTable) \cap entries = {}
    /\ Waiting(tensorTable) \cap callbacks = {}
    /\ entries \cap callbacks = {}
    /\ \A m, n \in DOMAIN tensorTable : tensorTable[m] = tensorTable[n] => m = n

\* Names whose requests are on their way through the running loop.
InNegotiation == IF background \in {"loop", "end", "finalize"} THEN requested ELSE {}

\* "We should never fail at finding this key in the tensor table": every entry
\* of the table has exactly one request, in the queue or on its way, and every
\* request has an entry, also across a shutdown and a new start.
RequestPerEntry ==
    /\ DOMAIN tensorTable = ToSet(messageQueue) \cup InNegotiation
    /\ ToSet(messageQueue) \cap InNegotiation = {}
    /\ IsInjective(messageQueue)

\* "Notify all outstanding operations that Horovod has been shut down": when
\* the background thread has ended nothing is outstanding.
AllNotified == background = "ended" => DOMAIN tensorTable = {}

\* What was accepted while the loop was running is called back after a
\* shutdown: the wait for its handle ends.
ShutdownAnswers ==
    \A h \in 1 .. MaxHandles :
        (background = "loop" /\ shutDown /\ h \in Waiting(tensorTable))
            ~> (h \notin DOMAIN results \/ results[h] # "pending")

\* horovod_shutdown and horovod_init return.
MainReturns == pc[Main] \in {"init", "join", "reset"} ~> pc[Main] = "idle"

=============================================================================

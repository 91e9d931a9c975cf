# A TLA+ verification of Horovod's coordination and of PyStager

This directory holds a TLA+ model of the parts of the ContainerHackathon
repository that have a protocol in them, the TLC configurations that check the
model on small instances, and proofs, checked by TLAPS, of the statements that
matter most for every instance.

Most of the repository is container recipes and job scripts for weather and
climate codes that are not in it. Two programs in it coordinate processes:

* **Horovod** (`wfppdl/training/docker/horovod`), which the training workflow
  builds into its container: the ranks of a job agree, cycle after cycle, on the
  tensors to reduce together, through a cache of earlier agreements or through a
  coordinator; programs submit tensors from their own threads, mostly by way of
  an optimizer; the ranks are started by `horovodrun` or inside a Spark job and
  find each other through a rendezvous server.
* **PyStager** (`wfppdl/PyStager`), which copies the input data with MPI ranks
  and rsync.

Below, `common/`, `torch/`, `run/` and `spark/` are directories of
`wfppdl/training/docker/horovod/horovod`.

## 1. Inventory

| part | state | operations | hard because | correct if | module |
|---|---|---|---|---|---|
| Controller (`common/controller.cc`) | message table, joined ranks, response list | `ComputeResponseList`: pop, exchange cache bits, negotiate at rank 0, `ConstructResponse`, join | every rank decides for itself which collective comes next; requests put back and sent again | same responses in the same order everywhere; no request lost; errors exactly when requests differ | `Controller` |
| Tensor fusion (`controller.cc:626-750`) | none | `FuseResponses` | looks ahead past what does not fit | nothing lost, fits the buffer, no overtaking | `Fusion` |
| ResponseCache, CacheCoordinator (`common/response_cache.cc`) | entries in LRU order, bits; hits, invalid bits and flags of the cycle | `cached`, `put`, `get_response`, `erase_response`, `sync` | bits are positions that move on every rank | bits mean the same on all ranks | `Controller` |
| StallInspector | waiting tensors, last check | invalidate overdue hits, decide to shut down | races the negotiation | remembers only what waits | `Controller` |
| TensorQueue (`common/tensor_queue.cc`) | tensor table, message queue | add, pop, push back, take entries, finalise | programs and background thread, several calls under one mutex | one request per entry | `Process`, `Controller` |
| Background thread, C interface (`common/operations.cc`, `global_state.h`) | flags, the thread, joined | `horovod_init`, `RunLoopOnce`, `PerformOperation`, `horovod_shutdown`, enqueueing | flags tested outside the mutex; restart | every callback once; calls return | `Process`, `Controller` |
| Handles of the PyTorch binding (`torch/handle_manager.cc`, `torch/mpi_ops*.{cc,py}`) | result per handle, map of the program | allocate, mark, poll, release, synchronise | written by both threads | a wait ends | `Process` |
| DistributedOptimizer of PyTorch (`torch/__init__.py`) | handles, delays, gradients, parameters | hooks, `synchronize`, `step`, `zero_grad`, `skip_synchronize`, `set_backward_passes_per_step` | hooks in any order, passes that do not reach every parameter, operations in flight while the program goes on | replicas equal; every pass applied once; misuse reported | `Optimizer` |
| Launcher (`run/gloo_run.py`, `run/util/threads.py`, `run/common/util/safe_shell_exec.py`) | queue of commands, results, an event; pipes and processes | `_launch_jobs`, `execute_function_multithreaded`, `safe_shell_exec.execute` | forks copy the pipes of other threads; signals and death at any moment; a thread that dies, a middleman that is killed | outcome true; it ends; nothing survives it | `Launch` |
| Allocation and rendezvous (`run/gloo_run.py`, `run/http/http_server.py`, `common/gloo/*`) | plan, key-value store, finished lists | `_allocate`; `PUT`, `GET`, `DELETE`; the three contexts of a worker | repeated requests; server decides when it may stop | every rank in its contexts; nobody turned away | `Rendezvous` |
| Spark integration (`spark/**`), driver and task services (`run/common/service`, `run/common/util/network.py`) | registrations, commands, results, job | `run`, `_task_fn`, requests of the services, `mpirun_rsh`, `mpirun_exec_fn` | retries of requests that were served, deadline, polling that hides exceptions, job and MPI job fail separately | results in order of ranks; ends; raises for a reason | `SparkRun` |
| MPI, Gloo, NCCL, Spark, mpirun | external | collectives; tasks; daemons | | | joint steps, external actions |
| PyStager (`mpi_stager_v2.py`, `external_function.py`) | lists, counters, hash files | scan, distribute, copy, hash, confirm | messages from any source, exceptions of one rank | everything copied when the end is reported | `PyStager` |
| Autotuning, Adasum, timeline, message encoding, fusion buffers, other bindings | | | | | not modelled, see 8 |
| Training scripts, hickle, recipes | | | | | not modelled, see 8 |

How the parts interact. `horovodrun` allocates ranks to hosts, starts the
rendezvous server and runs one command per rank in a pool of threads; the
workers meet through the server. `horovod.spark.run` instead starts a Spark job
whose tasks register with a driver, and an MPI job whose daemons run in these
tasks. In a worker, a program thread calls the binding, directly or in a hook of
the optimizer; this allocates a handle and enqueues a tensor (table and queue,
under the mutex of the TensorQueue). The background thread runs `RunLoopOnce`: it
pops the queue, asks the cache, meets the other ranks in the collectives of the
control plane, and obtains a list of responses; for each it takes the entries out
of the table, enters the collective of the data plane and runs the callbacks,
which mark the handles. At the end it sets `shut_down`, empties the table and
calls back what was left.

## 2. Modules

| module | kind | what |
|---|---|---|
| `Lists` | operators | the numbers of a set in order, the elements at these places, sums, products |
| `Fusion` | operators | `FuseResponses` on a list of responses |
| `Controller` | specification | all ranks of a job, from the enqueueing of requests to the callbacks |
| `Collective` | abstract specification | what the job promises to its programs, without cache, coordinator, fusion or stall inspector |
| `Process` | specification | one process: program threads, tensor queue, handles, background thread, start and shutdown |
| `PyStager` | specification | master and slaves |
| `Optimizer` | specification | the optimizer on every rank of a job, in all the ways in which a program can use it |
| `Horovodrun` | constant | the number of ranks that the three following modules start |
| `Launch` | specification | `horovodrun`, its threads, and the middlemen that watch the commands |
| `Rendezvous` | specification | allocation, rendezvous server and workers |
| `SparkRun` | specification | driver, tasks, Spark job and MPI job of `horovod.spark.run` |
| `MCFusion`, `MCController`, `MCProcess`, `MCPyStager`, `MCOptimizer`, `MCRendezvous` | model checking | values of the constants (`Launch` and `SparkRun` need none but numbers) |
| `FusionProofs`, `MCFusionProofs`, `NegotiationProofs`, `ControllerProofs`, `TorchProofs`, `PyStagerProofs`, `LauncherProofs`, `SparkProofs` | proofs | see 6; `FusionProofs` also has the lemmas on lists |

`Controller` uses `Fusion`, and instantiates `Collective` with a refinement
mapping (`Promise`). `Process` is the magnifying glass over the single step that
a submission and the end of the thread are in `Controller`; `Controller` is in
turn what decides when the loop of `Process` ends and which responses come.
`Optimizer` stands on the promise of `Collective`: an operation on a name is
performed when all ranks have submitted it, names in any order. `Launch` and
`Rendezvous` are the two halves of a start by `horovodrun`, which share the number
of ranks only (`Horovodrun`); `Launch` also is what `safe_shell_exec` does for the commands that
are one step (`command`) in `SparkRun`.

### Controller and the code

The state of a rank is `phase` (where its background thread is) with the
variables of `HorovodGlobalState` and the controller.

| action | code |
|---|---|
| `Enqueue`, `EnqueueJoin` | `EnqueueTensor*`, `EnqueueJoin`, `AddToTensorQueue` |
| `HorovodShutdown` | `horovod_shutdown` up to its join of the thread |
| `Pop` | start of a cycle: `PopMessagesFromQueue`, the cache lookup of every message, the stall inspector (`controller.cc:55-118`) |
| `Sync` | `CacheCoordinator::sync` and, with its result, the rest of the cycle up to the negotiation: hits put back, entries erased, the list of the fast path |
| `Coordinate`, `CoordinatorDies` | gather, counting and construction at rank 0, broadcast, `put` of the new responses on every rank |
| `Perform` | `PerformOperation` of the next response |
| `Stop` | the end of `BackgroundThreadLoop` |

Choices that keep the model small, and why they lose nothing:

* *A collective is one step of all ranks.* `Sync` and `Coordinate` contain what
  every rank computes locally after the collective and before the next one.
  This work touches, of the state that program threads share, only the message
  queue (hits put back), and is done under its mutex; a submission commutes
  with it except for its place in the queue, and both orders of submissions of
  different programs are explored before and after the step.
* *A message in the queue is a name.* The request for a name is the entry of
  the tensor table of that name, which cannot change while it is there
  (`DUPLICATE_NAME_ERROR`).
* *CPU tensors.* The device vector of a response is then determined by the set
  of ranks that asked.
* *Time* occurs in the stall inspector only: a check, and whether a tensor is
  overdue, are choices.
* *`join()`* is called with nothing outstanding, as the tests of the repository
  do. A joined rank has its joining request in the table until join returns.
* *`fault`* is a ghost variable: it names the exception or assertion by which a
  background thread has died. `FusionThrows` needs only to look at the list as a
  whole because rank 0, when it has joined, has the tensors of none of the
  responses, and of all of them otherwise.
* *The end is one step.* `Process` takes it apart.

### Process and the code

`horovod_init`, `InitReturns`, `horovod_shutdown`, `JoinReturns` and
`ResetShutDown` are the steps of the main thread between which others can run.
`Submit`, `ReadShutDown`, then `AddToTensorQueue` or `RefuseDuplicate` are the
three points of a submission where shared state is touched: the handle, the flag
(read outside the mutex), the queue. `Synchronize`, `WaitAndClear` and
`PollThrows` are the waiting for a handle. The background thread pops and pushes
requests, takes the entries of a response, calls back, and at its end sets the
flag, finalises the queue and notifies. Which requests are put back and which
names a response covers is left open: any choice that the agreement of the ranks
could make is possible.

The program is assumed to wait for a handle in the thread that submitted it, and
only one thread starts and stops Horovod. The handle is in the program's map
when the submission returns; the Python line that puts it there directly after
has no other observer.

### PyStager and the code

`master` and `slave` say where the two branches of `mpi_stager_v2.py` are. The
master looks at no message that it receives from "any source", so the messages
of a slave are counted. `ScanRaises`, `DistributionRaises` and `SlaveRaises` are
the exceptions that the Python code runs into: plain files beside
sub-directories are counted but not listed (`external_function.py:167` then
indexes past the list), a single rank divides by zero slaves, and
`hash_directory` uses `hashed_file` before it is set when the first file it
meets is empty. A source comes with the level (`load_level`) at which it is copied.
Sub-directories have different names, but files are listed by their base names
(`external_function.py:48-49`), so that a name may occur several times. The content of an item is reduced to how much of it has been
copied, and the shape of its sub-directories, on which the checksum depends.

### Optimizer and the code

A program is a list of calls (`zero_grad`, the backward pass, `synchronize`,
`step`, ...) that is the same on all ranks; `Calls` builds it from a style of use,
and the methods of the optimizer are spelled out as the loops they consist of.
`Forward` and `Hook` are a backward pass that reaches some parameters, in any
order; `SubmitRest` and `AllSubmitted` the loops that submit what is missing;
`Wait` the loop of `synchronize`, `FinishSubmit` and `FinishWait` that of `step` in
the Adasum variant, which submits and waits alternately; `Apply` the step of the
base optimizer. The loops over Python sets take any order, those over the
dictionary `_handles` the order of insertion. A gradient is a vector: how many
passes of each rank are in it. Thus a gradient applied before it was reduced, a
pass counted twice and one forgotten are all different from the right result. The
base optimizer adds gradients to the parameters (SGD with rate one), Adasum's
combination is taken to be a sum, and averages are exact because a pass counts
`Size` when the operation is an average.

### Launch and the code

`Take`, `Fork`, `CloseOutput` and `Collect` cut `safe_shell_exec.execute` where
other threads can see the difference: after the pipes are made, after the fork,
after the parent has closed its copies, and when `waitpid` and the forwarders have
returned. What can fail in a thread is a step as well: naming, making and opening the
output files (`OutputFails`), which ends the thread and leaves its command without a
result; `execute` before it waits (`ExecRaises`), which `_exec_command` turns into the
exit code 1, and which may leave a middleman behind; and closing the output files
(`CloseFails`), which ends the thread whatever the command did. `deathHeld` and `outHeld` say which processes hold the writing end of
which pipe; everything else of a pipe follows. `Watch` is the middleman becoming
ready, `SeeDeath` its `read` of the death pipe returning, `End` the end of the
shell and of the middleman; `Kill` is a signal that the middleman does not survive,
whose shell then runs on until `ShellEnds`. `status` is the wait status, 256 times
the exit code or the number of a signal, and `ExitCode` is `status >> 8`. `Warn` is the thread `on_event` of each command, that
goes on waiting when its command has ended. The exit code of a command is 0 or 1.

### Rendezvous and the code

`AllSlots`, `Fits` and `Plan` are `_allocate`; `Scopes` is what the C++ side of a
worker names (`gloo_context.cc`), `SizedScopes` what the server computes sizes for
(`extract_scope_size`). They differ in one name, see 5. A request is one step,
because the server handles one at a time: `Exchange` with its answer, `Lose`
without, the request having been handled or not. `Create` is the check of rank and
size by Gloo when a context is made, which involves nobody else and is therefore
part of the step before; `AskAgain` is the 404 of an address that is not there yet.

### SparkRun and the code

The variables are grouped by who owns them: the driver service (`indices`,
`ringed`, `ranksToIndices`), the Spark job and its tasks (`task`, `told`,
`command`, `fnResult`, `value`), and the MPI job (`mpi`, `worker`). Waits with a
deadline have three outcomes: what is awaited is found (`Found`), the waiter falls
asleep (`FallsAsleep`; woken, it looks at the clock first), or the deadline has
passed when it looks (`TimesOut`). An attempt that is lost and repeated changes
nothing, except that of a registration that was served: `RegisterUnanswered`. All
attempts lost is `GiveUp`, and in the poll of the first task, where every exception
counts as the end of the command, `GiveUpPolling`. `strays` is a ghost variable
that remembers the ways in which the run has left the intended path.

## 3. What the runs show

Passing runs; every property holds in the whole reachable state space.

| run | instance | properties | states |
|---|---|---|---|
| `Fusion` | all lists of up to three responses of three types, two data types, three sizes; two thresholds | `NothingLost`, `FitsTheBuffer`, `NoOvertaking` | 12,350 |
| `Cached` | 2 ranks, a tensor that changes its shape and another one, cache of two entries, stall inspector that may shut down, shutdown by either program | `WellFormed`, `Agreement`, refinement of `Collective` (`ImplementsCollective`) | 288,384 |
| `Three` | 3 ranks, reshaped tensors, cache of one entry, join in any order, fusion of up to 16 bytes | `CacheConsistent`, `RequestsConserved`, `TensorsPresent`, `CollectivesMeet`, `BuffersMatch`, `OnlyEarlyJoinsFail` | 269,241 |
| `Live` | 2 ranks under fairness, allreduce, allgather and broadcast with roots that may differ, join by both, shutdown by one | `SameOperation`, `SubmittedIsPerformed`, `JoinReturns`, `OthersContinue`, `ShutdownCompletes` | 38,714 |
| `Process` | 2 threads, 2 names, 3 submissions, 2 starts | `TypeOK`, `CallbackOnce`, `RequestPerEntry`, `ShutdownAnswers`, `MainReturns` | 538,354 |
| `Optimizer` | 2 ranks, 2 parameters of different types, passes that reach either or both, 15 programs, 2 iterations | `OptimizerInv`, `ReplicasAgree`, `EachPassCountsOnce`, `StepsReturn` | 201,496 |
| `Launch` | 3 commands, 2 threads, output files, signal and death at any moment, a middleman that may be killed, a command for which system calls may fail | `OutcomeIsTrue`, `LaunchReturns`, `InterruptStops`, `DeathIsSeen` | 440,786 |
| `Rendezvous` | 3 ranks on three lists of hosts, two losses | `RendezvousInv`, `RanksFitScopes`, `RendezvousEnds` | 301,727 |
| `SparkRun` | 2 tasks on one or two hosts, two losses, a task that dies or a function that raises, deadline | `SparkInv`, `ResultsInRankOrder`, `RunEnds` | 152,746 |
| `Stager` | 3 slaves, 0 to 5 items, all kinds of sources, at both levels | `ProcessedOnce`, `DoneIsComplete`, `FlatIdenticalIsCopied`, `Finishes` | 25,956 |

What they say of the code, in words:

* Whatever the interleaving of submissions with the cycles, whatever is evicted
  or invalidated meanwhile, the caches of all ranks stay identical
  (`CacheConsistent`), the ranks hold the same list of responses (`Agreement`)
  and are never in different collectives of the control plane
  (`CollectivesMeet`), and an outstanding request is at every moment in exactly
  one place (`RequestsConserved`).
* Without join, and for requests of one kind per name, the whole machinery
  implements `Collective`: agreed lists of responses, each covering tensors that
  all ranks have submitted, and an error exactly if the requests do not match.
  `WellFormed` adds that no thread dies there, and that the stall inspector
  remembers nothing that does not wait.
* Threads die only in a cycle in which a rank has joined before a higher one
  (`OnlyEarlyJoinsFail`); see 5.
* The ranks contribute equally many elements to each tensor of a reduction, fused or
  not, except for the zeros of a joined rank in the place of a tensor that was fused
  behind one of another length (`BuffersMatch`); see 5.
* No callback is lost or run twice by one process (`CallbackOnce`), also across
  a shutdown and a second start, and every entry of the table has exactly one
  request (`RequestPerEntry`).
* With the optimizer the replicas stay equal after every iteration, although
  hooks run in any order and passes reach different parameters on different
  ranks (`ReplicasAgree`), and every pass is applied once
  (`EachPassCountsOnce`), with the two exceptions that the properties name: a
  closure, and a second synchronisation of a sum. A program that does what it has
  announced gets no exception, and one that touches what an operation has in hand
  is told (`OptimizerInv`).
* The launcher returns without an exception only if every command has ended, with 0
  or with its middleman killed by a signal. It blames a command only if this has ended
  otherwise, or if `execute` raised for it; and it reports that threads "did not
  complete" exactly if one has died on the output files of its command
  (`OutcomeIsTrue`). It returns when the commands have ended, although their middlemen
  hold each other's output pipes (`LaunchReturns`). A signal ends the job unless there
  is a command that it does not reach: its middleman was not listening yet, was
  killed, or was left behind by an exception (`InterruptStops`). The death of the
  launcher ends the commands unless middlemen hold the death pipes of one another
  (`DeathIsSeen`).
* A worker says that it is finished with a scope only when all addresses of it are
  in the store, and no worker is turned away (`RendezvousInv`), because the server
  never stops, see 5. No two workers use one key of a scope, and ranks fit their
  contexts when hosts are filled evenly (`RanksFitScopes`); every worker has its
  contexts or fails (`RendezvousEnds`).
* `horovod.spark.run` returns what the ranks computed, in their order, except after
  a registration that was served twice or a poll that was given up
  (`ResultsInRankOrder`). It raises only for a reason, and the look-ups it does
  not protect succeed (`SparkInv`); it comes to an end unless it gives up before
  its Spark job has been submitted (`RunEnds`).
* PyStager's master, although it counts anonymous messages, reports the end only
  when every slave is done (`DoneIsComplete`). An item that is listed once is copied
  by one slave and once (`ProcessedOnce`): every sub-directory, and every file of
  whose name there is no other.

Violated on purpose: each of these runs checks a statement that a comment of the
repository makes, and TLC finds the behaviour of the code that contradicts it.

| run | statement | what the code does |
|---|---|---|
| `Stranded` | `AllNotified`; `operations.cc:511` "Notify all outstanding operations that Horovod has been shut down" | the flag is read before the mutex is taken: a submission can be accepted after the queue has been finalised |
| `Orphans` | `AllDieWithLauncher`; `safe_shell_exec.py:92` "Make a pipe for notifying the child that parent has died" | the pipes of both commands exist before the two forks, so each middleman has a copy of the writing end of the other's pipe, and neither reads an end of file |

Deadlock is checked in `Cached`, `Live` and `Rendezvous`. Elsewhere the system
really may stop: in `Three`, `Stager` and `Optimizer` a rank may have been ended by
an exception; in `Process` and `Stranded` all threads may have nothing left to do
after a shutdown; `Launch`, `Orphans` and `SparkRun` come to their end; `Fusion` has
no steps that matter.

Each property of a passing run also has a mutant: an operator next to the
definition it changes, marked "Mutant of", that changes one action or helper as
a plausible bug would. With it TLC finds the property violated, so that no
property holds for want of something to check.

## 4. Bounds and fairness

* `MaxSubmit` (2 to 4 submissions per rank): enough for a tensor to be
  negotiated, cached, hit, invalidated or evicted, and negotiated again. `Three`
  has 2: the second submission meets the cache that the first one has filled.
* `Capacity` 1 makes every second tensor evict the first one; 2 lets two hits
  share a cycle, be reordered and be fused.
* `Threshold` 8 or 16 bytes: two tensors of 4 bytes are fused, or
  three sizes do or do not fit.
* `MaxLen`, `MaxBytes` in `MCFusion`: a head, one response that is skipped and
  one behind it is the shortest list on which look-ahead matters.
* `JoinDescending` in `Live`: ranks join from the highest one downwards, the
  order in which no thread dies; `Three` has every order.
* `MaxHandles` 3, `MaxInits` 2: one tensor served, one left over and one
  submitted late, each before, during or after a shutdown or in the second run.
* `Uses`, `MaxSteps` 2 in `Optimizer`: with two parameters a pass may reach the one,
  the other or both, so that hooks of two ranks cross; the second iteration starts
  with the delays and handles that the first one left. `Programs` are one for every
  style of use and reduction, with more and with fewer passes than announced, a
  schedule that changes their number, and compression.
* `NumProc` 3, `MaxConcurrent` 2 in `Launch`: two forks cross, and one command waits
  for a thread. The code has 1000 threads, so that it starts all commands of a
  smaller job at once. `Killable` {1}, `Raising` {0}: the first command may be dropped
  or its middleman left behind while the second is killed and the third waits for a
  thread, so that each failure meets the other, and signals and the death of the
  launcher. That every thread dies, and that both failures strike one command, are
  covered by the theorem only (`OutcomeAlwaysTrue`).
* `HostLists` in `Rendezvous`: two hosts, the second with a slot left over, with more
  slots than the first, with too few. Their scopes have one, two and three members.
  `MaxTries` 2, `MaxLost` 2: a request succeeds when it is repeated, or is given up
  with both attempts lost, so that those who wait for this worker time out.
* `NumProc` 2, `Retries` 2, `MaxLost` 2 in `SparkRun`: a registration may be answered
  late, and a request may be given up. On one host the second task follows the
  first, on two each has its own command.
* 5 items for 3 slaves: some have two, some one; 2 items leave a slave idle. Files of
  one name among three or four are dealt to the same slave or to two.

Liveness is checked under these assumptions.

* `FairSpec` of `Controller`: every background thread runs again and
  again (weak fairness of its steps), which is what the operating system gives,
  and a collective that all ranks have entered returns (`CollectiveReturns`, which
  is stated on the phases alone, because TLC would otherwise evaluate whole cycles
  just to see whether a step is enabled). Programs are under no obligation.
  `OthersContinue` in `Live` assumes in addition that a waiting tensor is found
  overdue in the end (`StallFairness`): the stall inspector measures elapsed time.
* `Process`: the loop ends some time after `shut_down` is set, which is what
  `ShutdownCompletes` shows of all ranks together; a thread that waits for the
  mutex or for a flag goes on when it can.
* `FairOptimizer`: the program of each rank runs on. An operation is performed when
  the last rank submits it.
* `LaunchFairness`: threads and middlemen run, and a command that is being terminated
  ends, because it is killed after a grace period. Other commands may run for ever,
  that of a killed middleman too, and nobody has to send or to suffer a signal.
* `FairRendezvous`: each worker runs. A worker whose partner has failed gives up
  waiting in the end; its timeout is taken to be longer than living partners need.
* `FairSpark`: processes run, time passes, and the function ends. Spark is under no
  obligation to start a task: this is what the deadline is for.
* `PyStager`: the ranks run and rsync returns.

## 5. Observations in the code

Beyond the violated statements above, modelling brought up the following. Those
marked (m) are in the model.

Controller and process:

* (m) The lookup of the cache compares device, type and shape, never the
  operation (`response_cache.cc:50`), although the negotiation does
  (`controller.cc:383` "Check that all requested operations are the same"): with
  both kinds of requests for one name, a cached sum answers a request for Adasum.
* (m) `torch/mpi_ops.py:498` says that ranks that did not join continue to process
  allreduce operations. The common hits are an intersection over all ranks
  (`response_cache.cc:340`), and a joined rank has none: a cached tensor is put back
  in every cycle until the stall inspector invalidates it, or for ever without it.
* (m) A rank joins before a higher one: `controller.cc:554-557` indexes the
  devices of the requests by rank although joined ranks have none.
* (m) Rank 0 joins first and then fuses: `controller.cc:639-649` looks up tensors
  that it does not have, and `at` throws.
* (m) Zeros that a joined rank contributes to a fused response all have the
  length of the first tensor (`controller.cc:656-659`, `tensor_queue.cc:102`);
  they are right only for the tensors of that length, which is the exception that
  `BuffersMatch` makes and the run `Three` reaches.
* (m) The decision of the stall inspector to shut down, put into `response_list`
  at `controller.cc:157`, is overwritten by the fused list at line 185 in a cycle
  of the fast path that has common hits. It is taken again only after another
  warning time.
* (m) After `horovod_shutdown` the flag is reset but `initialization_done` stays
  set: a submission is accepted and waits for the next start
  (`operations.cc:635-662`).
* (m) A refused submission leaves its handle in the handle manager for ever; a
  handle whose operation failed stays in the Python map, and a second
  `synchronize` of it throws (`torch/mpi_ops.py:488-491`).
* `joined`, `joined_size` and the response cache are global and are not reset by
  a second start.
* `GetTensorDataForAutotuner` reads the table without the mutex.
* The sizes of an allgather are indexed by rank (`controller.cc:443`) while
  joined ranks have sent no request.

Optimizer:

* (m) `step(closure)` of the average optimizer calls the closure after the
  synchronisation (`torch/__init__.py:202`): the gradients it computes are applied
  before they have been reduced, and their operations are still in flight, although
  the documentation (390-391) says that `step()` ensures that all operations are
  finished before gradients are applied.
* (m) `synchronize()` followed by `step()` without `skip_synchronize` sums a sum once
  more with `op=Sum`; the warning at 193-200 speaks of slowness only.
* (m) `step()` of Adasum submits what a hook left for later between two waits, in the
  order of the dictionary (359-365). Ranks whose hooks have run in different orders,
  and not as often as announced, wait for each other.
* (m) `synchronize()` decompresses every gradient with the context of the last one
  (158-166): gradients of two types raise when they are compressed.

Launcher and rendezvous:

* (m) The scope of all ranks is `global` for the server (`http_server.py:145`) and
  `global_` for the workers (`gloo_context.cc:41`). The server therefore waits for
  DELETEs that never come, and runs as a daemon thread until `horovodrun` exits,
  although `http_server.py:151` decides "whether all ranks have confirmed
  rendezvous completion". If the names were the same, a DELETE repeated after a
  lost answer would count twice (118), and the server could close while a worker
  still needs it; the mutant of `SizedScopes` shows this.
* (m) On hosts with unequal numbers of slots a rank may get a cross rank that is not
  below the cross size, because the former is the place of the host in the list and
  the latter the number of hosts with so many slots. The worker then fails.
* (m) A SIGTERM that meets a middleman between its fork and its handlers is lost; the
  handler it has inherited sets an event that nobody waits for.
* (m) `_pad_rank` fails for a single rank (`gloo_run.py:114-116` takes `log10(0)`). This,
  and every other exception over the output files (169-179, 189-193), ends the
  thread; the main thread then says that threads "did not complete successfully"
  (`threads.py:91`), even if a command has failed that it could name.
* (m) `status >> 8` (`safe_shell_exec.py:181`) is 0 when the middleman has been killed by
  a signal: the command counts as successful.
* (m) An exception of `execute` counts as the exit code 1 of the command
  (`gloo_run.py:185-188`), whether it has run or not. If it comes after the fork
  (a thread cannot be started) the middleman is forgotten: nobody waits for it or
  sends it a SIGTERM, and while it runs it keeps the output pipes of the commands
  that were being started, so that their threads wait for it after all.
* More commands than threads (1000) cannot meet in a rendezvous, since a thread is
  busy until its command ends.
* The timeout of the rendezvous is applied by nothing: its handler
  (`http_server.py:165`) is never called, and it would unpack the keys of a
  dictionary.

Spark:

* (m) A registration whose answer is lost is repeated, and the index is appended to
  the list of its host a second time (`driver_service.py:74`), although
  `network.py:154` demands idempotence. The number of slots and `ranks_to_indices`
  are then wrong, and `run()` may return too many results or the wrong ones.
* (m) A task that follows the first task of its host and comes when this has
  returned finds no address that answers, and the job fails without a fault
  (`spark/__init__.py:60-64`).
* (m) The poll of the first task takes every exception for the end of the command
  (`task_service.py:158-165`): a task that cannot be reached for a moment makes its
  follower read a result that is not there yet.
* (m) An exception of the driver before its thread has submitted the job cancels
  nothing (`spark/__init__.py:223`); `run()` then waits for the thread, and with it
  for a job whose tasks wait for a driver that has given up.

PyStager:

* (m) `mpi_stager_v2.py:190` reports "files are identical" when the checksums agree,
  but only the files of the last directory of the walk are hashed
  (`external_function.py:219`); `FlatIdenticalIsCopied` is therefore stated of items
  without sub-directories.
* (m) At the level of files the names listed are base names
  (`external_function.py:48-49`). Two files of one name are one item listed twice: the
  one at the top is copied twice, by two slaves at once perhaps, and the other, whose
  size is taken for that of the first, never.
* (m) The status of rsync is ignored (`mpi_stager_v2.py:183`), and after an
  exception of one rank the others wait for ever.

## 6. What is proved

TLAPS proves what follows for all values of the constants, under the named
assumptions of the modules only, which TLC evaluates in the runs:
`SizeAssumption`, `CapacityAssumption`, `MaxSubmitAssumption`, `RequestsAssumption`
(`Controller`), `MainAssumption`, `NamesAssumption` (`Process`), `PAssumption`,
`SourcesAssumption` (`PyStager`), `SizeAssumption`, `ParamsAssumption`, `UsesAssumption`,
`ProgramsAssumption` (`Optimizer`), `NumProcAssumption` (`Horovodrun`),
`MaxConcurrentAssumption`, `FaultsAssumption` (`Launch`), `HostListsAssumption`,
`RetryAssumption` (`Rendezvous`), `HostsAssumption`, `RetriesAssumption`,
`FaultAssumption` (`SparkRun`) and `BoundsAssumption` (`MCFusion`). Two theorems have
a hypothesis more, which is part of their statement. Every safety property of the
passing runs has a theorem.

What a computation over sequences returns is proved by induction over the numbers up
to the length of the sequence, where the property is the set of the numbers that have
it (`FusionProofs!UpToInduction`, on top of `Recursion`, which gives the function that
a fold computes). `FusionProofs` also holds the facts about lists that several
proofs need: what `FlattenSeq`, `Ascending`, `Tail`, `\o` and selections by place hold,
and in which order.

### Fusion

`FuseArranges` says of `FuseResponses`, for any items and any threshold: the
responses are the items at places that partition the list, increasing within a
response, in the order of their first places; a response of several items is of one
class and fits; an item of the class of a response that comes before it has not been
overtaken. The invariant of the scan over the rest of a list (`Dealt`) is that it
splits the places it has passed into those that it has fused and those that it has
left, that what is left and of the class of the head lies behind all that was fused,
and that the bytes add up. The outer loop keeps `Held`. From this
`MCFusionProofs!FusionLosesNothing`, `FusionFits` and `FusionKeepsOrder` conclude
`NothingLost`, `FitsTheBuffer` and `NoOvertaking` for lists of any length; since names
are the numbers of the items there (`Numbered`), the places can be read off the
responses (`Grouped`). `Controller` uses the lemma for its own lists.

### Controller

* `RanksMeet`: `CollectivesMeet`. The invariant that is inductive (`InStep`) says that
  the ranks agree on whether this cycle is the last one (`StopTogether`) and, with a
  cache, that they enter the negotiation together (`Paths`). The heart is `SameHits`:
  what a rank decides after the bitwise allreduces depends on their results only, not
  on the rank. It holds for any requests, cache and stall inspector.
* `CachesStayIdentical`, `RequestsAreConserved`, `RanksAgree`, `TensorsAreThere`,
  `FailuresNeedEarlyJoins`, `JobIsWellFormed` are one induction (`NegotiationProofs!Inv`),
  because each part needs the others: that the caches are the same in the next cycle needs
  the same list of responses on all ranks; this needs that common hits are the names
  that every rank has in its messages, unchanged since the entry was made (`HitsStand`);
  which needs that the table of a rank has the request of each outstanding name and
  nothing else (`TableOK`), and that it is in one place (`Located`). `Located` says
  where: in the queue, in the messages of the cycle, counted by the coordinator, or in
  the list that is being performed. A list has a name once (`TodoOK`), and the lists of
  two ranks that perform have the same end (`Aligned`). `JoinCount` ties `joined_size`
  to the ranks whose joining request has been counted: without it the coordinator
  could declare a tensor ready that an active rank has not got. `Uncached` says that what
  the coordinator has counted is not a common hit, so that a tensor cannot be answered
  twice, from the cache and by negotiation. `FaultOK` has the two ways of failing; a
  step that fails finds a rank that joined before a higher one
  (`FailuresAreEarlyJoins`). One lemma per action says that `Inv` is kept; those of
  `Sync` and `Coordinate` rest on lemmas about what a cycle computes: what is gathered
  (`WhatArrives`), counted (`WhatIsCounted`), complete (`CompletesOnce`), answered
  (`AnswerIs`), and put into the cache (`PutKeeps`).
* `ZerosFit` (`BuffersMatch`) and `OperationsMatch` (`SameOperation`) stand on a second
  layer: the responses that are being performed fit the requests of the ranks that
  contribute (`Matched`). Of a reduction this says that the one size it tells is that of
  its first tensor, for which fusion must keep the size of the response it starts
  with (`Merged`, from `FuseArranges`). A response from the cache fits because an entry that is hit
  has the shape and type of the request, and one that is negotiated because
  `ConstructResponse` has compared the requests; it stays so because a request cannot
  change while its name is outstanding. `OperationsMatch` assumes `OneOperation`, that
  a name stands for one kind of operation: the look-up of the cache does not compare
  it (section 5), and without the assumption the property is false. `TypesStand`
  is the part of the invariant that needs the assumption.
* `KeepsThePromise`: `Controller` implements `Collective` (`ImplementsCollective`),
  without `join()` and with `OneOperation`. `Enqueue` is `Submit`, `HorovodShutdown` is
  `Ask`, `Coordinate` and the `Sync` of a fast cycle are `Agree`, `Perform` is `Deliver`,
  `Stop` is `Close`, and everything else is a stutter. An agreement is allowed because
  the list fits the requests of all ranks (`FitsAll`: an error exactly for those
  that do not match), the ranks are in the same place of it because of `InStep` and
  `Aligned`, and they decide to close for a reason (`Reasons`).

### Process (`TorchProofs`, part 1)

* `RequestsHaveEntries`: `RequestPerEntry`. Inductive with the types; the lemmas on
  `Append` say what a queue holds and that its elements stay different.
* `CalledBackOnce`: `CallbackOnce`. It needs to know where entries and callbacks can be
  at all (`Places`: entries only while the loop runs, callbacks only during the
  notification) and who owns a handle (`Ownership`: one submission, then one thread).
  One lemma per group of steps; `QueueStep` states once what the steps have in common
  that move handles between table, entries and callbacks.
* `HandlesAreKnown`: `TypeOK`, of which the interesting part is that the handle manager
  knows every handle that will be called back.

### Optimizer (`TorchProofs`, part 2)

Everything turns on where a rank is in its list of calls, and a call occurs in it more
than once. The proofs therefore name the places: a *stage* is a call with what is past
(`first_wait` of a closure, `wait`, `wait_again` of the second synchronisation), and
`StagesFollow` says, for every style and any number of passes, which stage follows which.

* `ExceptionsAreJust`: `OptimizerInv`. Inductive is `CallsInv`: at each stage, the handles
  that are there and the place in the loop over them (`KeysOK`), the delays (`DelaysOK`:
  as announced when gradients are zeroed; during the passes at least the number
  of those still to come, unless the program makes more than it has announced), and
  what has been touched (`TouchesOK`). `OperationOK` ties the ranks together: an operation is
  in flight on a rank exactly if its value is waiting for the others, and never on all.
* `ReplicasStayAlike`, `PassesCountOnce`: `ReplicasAgree`, `EachPassCountsOnce`. Ranks are at
  different stages and even in different iterations, so their parameters cannot be
  compared. What can is the *eventual* value: what a parameter holds and what of the
  outputs and reduced gradients is still to be added to it. `ValuesInv` says that the
  ranks have performed the same number of operations on a parameter (`InRounds`), that
  eventual values are equal (`AllAlike`), and that the passes of a rank are in its eventual
  value or in its gradient (`Accounted`), which until it is reduced holds nothing of the
  others (`OwnGradient`). Between iterations nothing is pending, and eventual values
  are the parameters. When `step(closure)` calls the closure after the synchronisation
  (`ClosureLate`) this is false, as the two properties say (section 5).

### Launcher and rendezvous (`LauncherProofs`)

* `OutcomeAlwaysTrue`: `OutcomeIsTrue`, with `LaunchTypes`. The outcome is drawn from the
  list of results, so the invariant has to follow a command from the queue to this
  list: each command that was taken is with one thread, or in the list, or has cost its
  thread, never two of these (`InOnePlace`); a result is the exit code of a middleman
  that has exited, or the 1 of an exception (`ResultsHold`); results, busy threads and
  dropped commands together are as many as the commands taken (`Counted`); and a thread
  has left only when all are taken or it has dropped one (`Left`). When all threads
  have left, every command has one result, or one has been dropped (`AllResults`).
* `OneThreadNeverCrosses`: with one thread, middlemen never hold the pipes of one
  another, for any number of commands. A command is forked after the earlier ones
  (`OneByOne`), so that the pipe of a middleman is held by later ones only, even if
  it was left behind by an exception. The run `Orphans`
  shows that two threads are enough to lose this.
* `ServerNeverCloses`: `RendezvousInv`. The list of `global` stays empty (`ServesOn`),
  because what a worker names is in `Scopes` (`HereIsScope`), which `global` is not
  (`GlobalIsMissed`); the server asks for at least one DELETE of it, since there is at
  least one rank. That a worker is finished with a scope only when the addresses are
  known needs, as an induction hypothesis, the same of a worker that is about to send
  the DELETE (`DeleteWhenKnown`), and that the store never shrinks.
* `RanksFit`: `RanksFitScopes`. `_allocate` gives each slot to one rank, and those of a
  host from the first one on (`Allocated`), which looks into the flattened list of slots.
  Therefore keys differ in every scope, whatever the hosts, and on even hosts the keys
  of a scope are all the numbers below its size. A worker that has found its rank bad
  has one in the context it is at (`RankIsBad`), which is then not even.

### Spark (`SparkProofs`)

* `SparkIsSound`: `SparkInv`. The plan and the ring of the tasks are made from the lists
  of the hosts, to which a repeated registration may still add. What freezes them is
  the ring: a task answers for its predecessor only when it has passed its own
  registration (`TasksInOrder`), so when all have (`ringed = Tasks`) no request to register
  is left (`Frozen`), and from then on the plan has every task (`PlanCovers`) and the
  first task of a host is the one that runs its command (`MpiInOrder`). That nothing
  raises without a reason is `Reason \/ Undisturbed`: a reason never goes away, and
  a state without one is one in which nobody has raised, failed, or returned before
  the command of the host has ended.
* `ResultsOfRanks`: `ResultsInRankOrder`. Unless a registration was served twice, each
  task is in its list once and is one rank, so that a rank that is done has its own
  result in the task of its index (`Once`); unless a poll was given up or a task
  was lost, a task reads the result only when the MPI job has ended (`ResultsRead`).

### PyStager

* `StagedOnce`: `ProcessedOnce`, of items that are listed once (`ListedOnce`). The deal
  of the items to the slaves is an arithmetic progression of places per slave;
  `OneOwner` shows that two progressions have no place in common, so that a name listed
  once has one owner, and the invariant says that the list of a slave is its share,
  whole until it is received and then the rest of it.
* `NothingIsLeftOut`: `DoneIsComplete`. The master does not look at the messages it
  counts, so the invariant numbers them: those received are a set of pairs of a slave
  and a number (`Received`), its size is what the two loops of the master have counted
  (`Counting`), and a slave has as many messages to send as its share has items, or one if
  it has none (`Due`, `Progress`). When the counts have reached the ends of the loops
  the set is that of all messages. Every item has an owner (`EveryItemIsOwned`).
* `IdenticalMeansCopied`: `FlatIdenticalIsCopied`, inductive as it stands, with the
  type of the verdicts (`Compared`).

### Only model-checked

All liveness properties (`SubmittedIsPerformed`, `JoinReturns`, `OthersContinue`,
`ShutdownCompletes`, `ShutdownAnswers`, `MainReturns`, `StepsReturn`, `LaunchReturns`,
`InterruptStops`, `DeathIsSeen`, `RendezvousEnds`, `RunEnds`, `Finishes`): they rest on
fairness, and so on ENABLED, which the prover does not handle.

## 7. Hazards

`PROJECT.json` lists what is hard to test in this code, each at its line, with
the properties that would catch it. Those without a property say why: four, of
which two belong to autotuning and to a second start of the controller, one is a
use of `join` that the model excludes, and one is the decision of the stall
inspector that the code may lose.

## 8. Not modelled

* The encoding of messages, the fusion buffers, the timeline's file: no protocol.
* The arithmetic of Adasum, the Bayesian optimisation, the training scripts: real
  numbers.
* GPU devices, hierarchical collectives, the DDL and MLSL back ends.
* The TensorFlow, Keras and MXNet bindings: they use the C interface as the
  PyTorch binding does.
* Of `safe_shell_exec`: what happens when the shell cannot be started (the exception then
  unwinds in the middleman, which goes on as a copy of the thread), when the forwarding
  of the output fails, or when a process id is used again.
* Of the launcher: the command line, the discovery of network interfaces that are
  common to all hosts, the cache of host checks, and the key-value server of `run()`.
* `hickle` (vendored), the recipes and reports for EC-Earth, ICON, LFRIC, NEMO,
  OPENIFS and NorESM-CESM.

The share of the repository's Python and notebook lines that definitions are mapped
to is small and cannot be large. Of some 21,000 lines, notebooks with plots of
scaling measurements are 6,700, the build script of Horovod is 1,460, and most of
the others are examples, the vendored `hickle`, data preparation and glue to
frameworks. The core of Horovod, which most of this project is about, is C++.

## 9. Plan

1. *Done*: `Fusion`, `Controller`, `Collective`, `Process`, `PyStager`, `Optimizer`,
   `Launch`, `Rendezvous`, `SparkRun`.
2. `ResponseCache`: the list, the iterators and the name index that implement
   the sequence of `Controller`, as a refinement; capacity changed by the
   autotuner.
3. A second start in `Controller`: joined flags and cache that the first run
   left behind.
4. Callbacks of Keras and TensorFlow: initial broadcast and averages of metrics,
   where ranks may call in different numbers.
5. The services of `run.py`: discovery of the network interfaces, with the same
   requests as `SparkRun`.

------------------------------ MODULE SparkRun ------------------------------
(***************************************************************************)
(* horovod.spark.run: a function on every rank of an MPI job whose daemons *)
(* run inside the tasks of a Spark job (spark/__init__.py).  The driver    *)
(* and every task have a service that answers requests, each in a thread   *)
(* of its own, under one lock (run/common/service, run/common/util/        *)
(* network.py).  A request whose answer does not come is sent again.       *)
(*                                                                         *)
(* Spark, mpirun and orted are external: Spark starts the tasks, collects  *)
(* what they return, and fails and kills all of them when one raises or    *)
(* dies (it is not configured to try again); mpirun fills the hosts in the *)
(* order of the list, starts an orted on each host it uses, and fails when *)
(* a rank or an orted does.                                                *)
(***************************************************************************)
EXTENDS Horovodrun, Sequences, FiniteSets, SequencesExt, Lists

CONSTANTS
    Hosts,      \* host hashes, natural numbers for their order
    Retries,    \* attempts that a client makes: 3 in the code
    MaxLost,    \* bound on the requests and answers that are lost
    MayRaise,   \* whether the function may raise
    MayDie      \* whether a Spark task may die

ASSUME HostsAssumption == Hosts \subseteq Nat /\ Hosts # {} /\ IsFiniteSet(Hosts)
ASSUME RetriesAssumption == Retries \in Nat \ {0} /\ MaxLost \in Nat
ASSUME FaultAssumption == MayRaise \in BOOLEAN /\ MayDie \in BOOLEAN

Tasks == 0..(NumProc - 1)
Ranks == Tasks
NoRank == NumProc       \* the result of a task to which none has been registered

VARIABLES
    hostOf,     \* the host that Spark has chosen for a task
    indices,    \* driver: _task_host_hash_indices
    ringed,     \* driver: the keys of _task_addresses_for_tasks
    ranksToIndices, \* driver: ranks_to_indices
    driver,     \* where run() is
    notified,   \* tasks it has notified, in the order of their indices
    job,        \* the Spark job: "pending", "running", "ok", "failed"
    task,       \* where _task_fn is
    told,       \* tasks with _initial_registration_complete
    command,    \* _command_thread of a task: "none", "running", "ended"
    fnResult,   \* _fn_result of a task: a rank
    value,      \* what _task_fn returns
    mpi,        \* mpirun: "off", "launching", "running", "ok", "failed"
    worker,     \* the process of a rank: "none", "running", "done", "failed"
    asleep,     \* tasks, or NumProc for the driver, that sleep on a condition
    expired,    \* whether start_timeout has passed
    lost,       \* requests and answers lost so far
    fault,      \* what has gone wrong outside: "raised", "died"
    strays      \* histories: tasks that registered twice, gave up their polling, or
                \* came too late; "early" when the job was cancelled before it was there

jobVars == <<job, task, told, command, fnResult, value>>
driverVars == <<indices, ringed, ranksToIndices, driver, notified>>
mpiVars == <<mpi, worker>>
envVars == <<hostOf, expired, lost, fault, strays>>
sparkVars == <<hostOf, indices, ringed, ranksToIndices, driver, notified, job, task, told,
               command, fnResult, value, mpi, worker, asleep, expired, lost, fault, strays>>

SparkInit ==
    /\ hostOf \in [Tasks -> Hosts]
    /\ indices = [h \in Hosts |-> <<>>] /\ ringed = {} /\ ranksToIndices = <<>>
    /\ driver = "registration" /\ notified = 0
    /\ job = "pending"
    /\ task = [t \in Tasks |-> "new"] /\ told = {}
    /\ command = [t \in Tasks |-> "none"]
    /\ fnResult = [t \in Tasks |-> NoRank] /\ value = fnResult
    /\ mpi = "off" /\ worker = [r \in Ranks |-> "none"]
    /\ asleep = {} /\ expired = FALSE /\ lost = 0 /\ fault = {} /\ strays = {}

\* Tasks that have registered, with the service of their index.
Registered == UNION {ToSet(indices[h]) : h \in Hosts}

\* The service of a task answers.
Alive(t) == task[t] \notin {"new", "returned", "raised", "killed"}
First(h) == Head(indices[h])

-----------------------------------------------------------------------------
(* Waiting on a condition until a deadline: who finds it true goes on; who   *)
(* has slept looks at the clock first.                                       *)

Found(who, condition) == condition /\ (who \in asleep => ~expired)
TimesOut(who) == who \in asleep /\ expired
FallsAsleep(who, condition) == ~condition /\ who \notin asleep /\ asleep' = asleep \cup {who}

-----------------------------------------------------------------------------
(* _task_fn *)

SubmitJob ==
    /\ job = "pending" /\ job' = "running"
    /\ UNCHANGED <<driverVars, task, told, command, fnResult, value, mpiVars, asleep, envVars>>

StartTask(t) ==
    /\ job = "running" /\ task[t] = "new"
    /\ task' = [task EXCEPT ![t] = "register"]
    /\ UNCHANGED <<driverVars, job, told, command, fnResult, value, mpiVars, asleep, envVars>>

\* The driver handles a RegisterTaskRequest: append and sort.  The list was sorted
\* before, so the task comes behind those that are not larger.
RegisterTask(t) ==
    LET list == indices[hostOf[t]]
        before == Cardinality({i \in DOMAIN list : list[i] <= t})
    IN  indices' = [indices EXCEPT ![hostOf[t]] = InsertAt(list, before + 1, t)]

Register(t) ==
    /\ task[t] = "register"
    /\ RegisterTask(t)
    /\ task' = [task EXCEPT ![t] = "initial"]
    /\ UNCHANGED <<ringed, ranksToIndices, driver, notified, job, told, command, fnResult,
                   value, mpiVars, asleep, envVars>>

\* The answer is lost, and the request will be sent again.
RegisterUnanswered(t) ==
    /\ task[t] = "register" /\ lost < MaxLost
    /\ RegisterTask(t)
    /\ lost' = lost + 1
    /\ strays' = strays \cup {<<"twice", t>>}
    /\ UNCHANGED <<ringed, ranksToIndices, driver, notified, jobVars, mpiVars, asleep,
                   hostOf, expired, fault>>

Raises(t) == task' = [task EXCEPT ![t] = "raised"]

\* A task waits for NotifyInitialRegistrationComplete, or for RunCommand.
AwaitedBy(t) == IF task[t] = "initial" THEN t \in told ELSE command[t] # "none"

Await(t) ==
    /\ task[t] \in {"initial", "command"}
    /\ \/ /\ Found(t, AwaitedBy(t))
          /\ task' = [task EXCEPT ![t] = IF @ = "initial" THEN "ring" ELSE "run"]
          /\ asleep' = asleep \ {t}
       \/ FallsAsleep(t, AwaitedBy(t)) /\ UNCHANGED task
       \/ TimesOut(t) /\ Raises(t) /\ UNCHANGED asleep
    /\ UNCHANGED <<driverVars, job, told, command, fnResult, value, mpiVars, envVars>>

\* It connects to the next task and reports the addresses to the driver.
Ring(t) ==
    LET next == (t + 1) % NumProc IN
    /\ task[t] = "ring"
    /\ IF next \in Registered /\ Alive(next)
       THEN ringed' = ringed \cup {next} /\ task' = [task EXCEPT ![t] = "group"]
       ELSE Raises(t) /\ UNCHANGED ringed
    /\ UNCHANGED <<indices, ranksToIndices, driver, notified, job, told, command, fnResult,
                   value, mpiVars, asleep, envVars>>

\* The first task of a host waits for the command of mpirun, the others follow it.
Group(t) ==
    /\ task[t] = "group"
    /\ task' = [task EXCEPT ![t] = IF First(hostOf[t]) = t THEN "command" ELSE "follow"]
    /\ UNCHANGED <<driverVars, job, told, command, fnResult, value, mpiVars, asleep, envVars>>

\* A client is made only for a service that answers.
Follow(t) ==
    LET first == First(hostOf[t]) IN
    /\ task[t] = "follow"
    /\ IF Alive(first)
       THEN task' = [task EXCEPT ![t] = "poll"] /\ UNCHANGED strays
       ELSE Raises(t) /\ strays' = strays \cup {<<"late", t>>}
    /\ UNCHANGED <<driverVars, job, told, command, fnResult, value, mpiVars, asleep,
                   hostOf, expired, lost, fault>>

\* Mutant of Poll: a command that has not ended counts as terminated.
Poll_Started(t) ==
    LET first == First(hostOf[t]) IN
    /\ \/ task[t] = "run" /\ command[t] = "ended"
       \/ task[t] = "poll" /\ (command[first] # "none" \/ ~Alive(first))
    /\ value' = [value EXCEPT ![t] = fnResult[t]]
    /\ task' = [task EXCEPT ![t] = "closing"]
    /\ UNCHANGED <<driverVars, job, told, command, fnResult, mpiVars, asleep, envVars>>

\* The command has terminated, or the first task does not answer any more: every
\* exception counts as the end.  The result of the task is read.
Poll(t) ==
    LET first == First(hostOf[t]) IN
    /\ \/ task[t] = "run" /\ command[t] = "ended"
       \/ task[t] = "poll" /\ (command[first] = "ended" \/ ~Alive(first))
    /\ value' = [value EXCEPT ![t] = fnResult[t]]
    /\ task' = [task EXCEPT ![t] = "closing"]
    /\ UNCHANGED <<driverVars, job, told, command, fnResult, mpiVars, asleep, envVars>>

\* All attempts at a poll are lost.
GiveUpPolling(t) ==
    /\ task[t] = "poll" /\ lost + Retries <= MaxLost
    /\ lost' = lost + Retries
    /\ value' = [value EXCEPT ![t] = fnResult[t]]
    /\ task' = [task EXCEPT ![t] = "closing"]
    /\ strays' = strays \cup {<<"gave up", t>>}
    /\ UNCHANGED <<driverVars, job, told, command, fnResult, mpiVars, asleep, hostOf,
                   expired, fault>>

\* task.shutdown()
CloseTask(t) ==
    /\ task[t] = "closing"
    /\ task' = [task EXCEPT ![t] = "returned"]
    /\ UNCHANGED <<driverVars, job, told, command, fnResult, value, mpiVars, asleep, envVars>>

\* All attempts at another request of a task are lost.
GiveUp(t) ==
    /\ task[t] \in {"register", "ring", "group", "follow"} /\ lost + Retries <= MaxLost
    /\ lost' = lost + Retries
    /\ Raises(t)
    /\ UNCHANGED <<driverVars, job, told, command, fnResult, value, mpiVars, asleep,
                   hostOf, expired, fault, strays>>

Die(t) ==
    /\ MayDie /\ fault = {} /\ Alive(t)
    /\ fault' = {"died"}
    /\ Raises(t)
    /\ UNCHANGED <<driverVars, job, told, command, fnResult, value, mpiVars, asleep,
                   hostOf, expired, lost, strays>>

-----------------------------------------------------------------------------
(* The Spark job, seen by the thread that submits it. *)

Kill == task' = [t \in Tasks |-> IF task[t] \in {"returned", "raised"} THEN task[t] ELSE "killed"]

\* collect() raises, and the thread notifies the driver.
JobFails ==
    /\ job = "running" /\ \E t \in Tasks : task[t] = "raised"
    /\ job' = "failed" /\ Kill
    /\ UNCHANGED <<driverVars, told, command, fnResult, value, mpiVars, asleep, envVars>>

\* collect() returns; the results are queued.
JobReturns ==
    /\ job = "running" /\ \A t \in Tasks : task[t] = "returned"
    /\ job' = "ok"
    /\ UNCHANGED <<driverVars, task, told, command, fnResult, value, mpiVars, asleep, envVars>>

-----------------------------------------------------------------------------
(* run() on the driver *)

\* Mutant of Cancel: the job is left running.
Cancel_Nothing == driver' = "failing" /\ UNCHANGED <<job, task, strays>>

\* An exception in run(): the job is cancelled if it is there.
Cancel ==
    /\ driver' = "failing"
    /\ IF job = "running" THEN job' = "failed" /\ Kill ELSE UNCHANGED <<job, task>>
    /\ strays' = IF job = "pending" THEN strays \cup {<<"early", NumProc>>} ELSE strays

\* Mutant of AllRegistered: registrations are counted instead of tasks.
AllRegistered_Counted == Len(FlattenSeq(SetToSeq({indices[h] : h \in Hosts}))) >= NumProc

AllRegistered == Registered = Tasks

\* Both waits of the driver, which look for a failure of the job before they sleep.
AwaitTasks ==
    LET done == IF driver = "registration" THEN AllRegistered ELSE ringed = Tasks
        notices == job = "failed" /\ ~done
    IN  /\ driver \in {"registration", "ring"}
        /\ \/ /\ Found(NumProc, done)
              /\ driver' = IF driver = "registration" THEN "notify" ELSE "plan"
              /\ asleep' = asleep \ {NumProc} /\ UNCHANGED <<job, task, strays>>
           \/ FallsAsleep(NumProc, done) /\ ~notices /\ UNCHANGED <<driver, job, task, strays>>
           \/ (TimesOut(NumProc) \/ notices) /\ Cancel /\ UNCHANGED asleep
    /\ UNCHANGED <<indices, ringed, ranksToIndices, notified, told, command, fnResult, value,
                   mpiVars, hostOf, expired, lost, fault>>

\* notify_initial_registration_complete, to one task after the other, when clients
\* for all of them have been made
Notify ==
    /\ driver = "notify" /\ notified < NumProc
    /\ IF Alive(notified) /\ (notified = 0 => \A t \in Tasks : Alive(t))
       THEN /\ told' = told \cup {notified} /\ notified' = notified + 1
            /\ driver' = IF notified + 1 = NumProc THEN "ring" ELSE driver
            /\ UNCHANGED <<job, task, strays>>
       ELSE Cancel /\ UNCHANGED <<told, notified>>
    /\ UNCHANGED <<indices, ringed, ranksToIndices, command, fnResult, value, mpiVars, asleep,
                   hostOf, expired, lost, fault>>

\* host_hashes: sorted, and rotated until index 0 is on the first host.
HostList ==
    LET used == {h \in Hosts : indices[h] # <<>>}
        sorted == Ascending(used)
        first == CHOOSE i \in DOMAIN sorted : 0 \in ToSet(indices[sorted[i]])
    IN  SubSeq(sorted, first, Len(sorted)) \o SubSeq(sorted, 1, first - 1)

\* The hosts and their numbers of slots, as mpirun fills them with ranks.
Slots(hosts) == FlattenSeq([i \in DOMAIN hosts |-> [j \in DOMAIN indices[hosts[i]] |-> hosts[i]]])
HostOfRank(r) == Slots(HostList)[r + 1]
UsedHosts == {HostOfRank(r) : r \in Ranks}

PlanRanks ==
    /\ driver = "plan"
    /\ ranksToIndices' = FlattenSeq([i \in DOMAIN HostList |-> indices[HostList[i]]])
    /\ driver' = "mpi" /\ mpi' = "launching"
    /\ UNCHANGED <<indices, ringed, notified, jobVars, worker, asleep, envVars>>

\* mpi_run returns or raises.
AfterMpi ==
    /\ driver = "mpi" /\ mpi \in {"ok", "failed"}
    /\ IF mpi = "ok" THEN driver' = "joining" /\ UNCHANGED <<job, task, strays>> ELSE Cancel
    /\ UNCHANGED <<indices, ringed, ranksToIndices, notified, told, command, fnResult, value,
                   mpiVars, asleep, hostOf, expired, lost, fault>>

\* spark_thread.join(), and after that the check for a failure of the job.
Join ==
    /\ driver \in {"joining", "failing"} /\ job \in {"ok", "failed"}
    /\ driver' = IF driver = "joining" /\ job = "ok" THEN "returned" ELSE "raised"
    /\ UNCHANGED <<indices, ringed, ranksToIndices, notified, jobVars, mpiVars, asleep, envVars>>

-----------------------------------------------------------------------------
(* mpirun, mpirun_rsh and the processes of the ranks *)

MpiFails == mpi' = "failed"

\* The orted processes, and with them the commands, end.
CommandsEnd == command' = [t \in Tasks |-> IF command[t] = "running" THEN "ended" ELSE command[t]]

\* mpirun_rsh on behalf of a host: RunCommand to its first task, which runs only
\* one command however often it is told.
RunCommand(h) ==
    /\ mpi = "launching" /\ h \in UsedHosts /\ command[First(h)] = "none"
    /\ IF Alive(First(h))
       THEN command' = [command EXCEPT ![First(h)] = "running"] /\ UNCHANGED mpi
       ELSE MpiFails /\ CommandsEnd
    /\ UNCHANGED <<driverVars, job, task, told, fnResult, value, worker, asleep, envVars>>

StartWorkers ==
    /\ mpi = "launching" /\ \A h \in UsedHosts : command[First(h)] = "running"
    /\ mpi' = "running" /\ worker' = [r \in Ranks |-> "running"]
    /\ UNCHANGED <<driverVars, jobVars, asleep, envVars>>

\* mpirun_exec_fn: the result goes to the task of the rank's index, which must
\* answer.
RunFn(r) ==
    LET t == ranksToIndices[r + 1] IN
    /\ mpi = "running" /\ worker[r] = "running"
    /\ IF Alive(t)
       THEN fnResult' = [fnResult EXCEPT ![t] = r] /\ worker' = [worker EXCEPT ![r] = "done"]
       ELSE worker' = [worker EXCEPT ![r] = "failed"] /\ UNCHANGED fnResult
    /\ UNCHANGED <<driverVars, job, task, told, command, value, mpi, asleep, envVars>>

FnRaises(r) ==
    /\ MayRaise /\ fault = {} /\ mpi = "running" /\ worker[r] = "running"
    /\ worker' = [worker EXCEPT ![r] = "failed"] /\ fault' = {"raised"}
    /\ UNCHANGED <<driverVars, jobVars, mpi, asleep, hostOf, expired, lost, strays>>

\* A rank has failed, or the orted of a host has gone with its task, or all
\* ranks have ended.
MpiEnds ==
    /\ mpi \in {"launching", "running"}
    /\ \/ /\ \/ \E r \in Ranks : worker[r] = "failed"
             \/ \E h \in UsedHosts : command[First(h)] = "running" /\ ~Alive(First(h))
          /\ MpiFails
       \/ (\A r \in Ranks : worker[r] = "done") /\ mpi' = "ok"
    /\ CommandsEnd
    /\ UNCHANGED <<driverVars, job, task, told, fnResult, value, worker, asleep, envVars>>

Expire ==
    /\ ~expired /\ expired' = TRUE
    /\ UNCHANGED <<driverVars, jobVars, mpiVars, asleep, hostOf, lost, fault, strays>>

-----------------------------------------------------------------------------
TaskStep(t) ==
    \/ Register(t) \/ Await(t) \/ Ring(t) \/ Group(t) \/ Follow(t) \/ Poll(t) \/ CloseTask(t)

DriverStep == AwaitTasks \/ Notify \/ PlanRanks \/ AfterMpi \/ Join

MpiStep == (\E h \in Hosts : RunCommand(h)) \/ StartWorkers \/ (\E r \in Ranks : RunFn(r)) \/ MpiEnds

SparkNext ==
    \/ SubmitJob \/ JobFails \/ JobReturns
    \/ \E t \in Tasks :
          \/ StartTask(t) \/ Register(t) \/ RegisterUnanswered(t) \/ Await(t) \/ Ring(t)
          \/ Group(t) \/ Follow(t) \/ Poll(t) \/ GiveUpPolling(t) \/ CloseTask(t)
          \/ GiveUp(t) \/ Die(t)
    \/ AwaitTasks \/ Notify \/ PlanRanks \/ AfterMpi \/ Join
    \/ \E h \in Hosts : RunCommand(h)
    \/ \E r \in Ranks : RunFn(r) \/ FnRaises(r)
    \/ StartWorkers \/ MpiEnds \/ Expire

SparkSpec == SparkInit /\ [][SparkNext]_sparkVars

\* Processes run, time passes and the function ends; but Spark may never have
\* the resources to start a task.
FairSpark ==
    /\ SparkSpec
    /\ WF_sparkVars(SubmitJob) /\ WF_sparkVars(JobFails) /\ WF_sparkVars(JobReturns)
    /\ \A t \in Tasks : WF_sparkVars(TaskStep(t))
    /\ WF_sparkVars(DriverStep) /\ WF_sparkVars(MpiStep) /\ WF_sparkVars(Expire)

-----------------------------------------------------------------------------
(* Properties *)

SparkTypeOK ==
    /\ hostOf \in [Tasks -> Hosts]
    /\ indices \in [Hosts -> Seq(Tasks)] /\ ringed \subseteq Tasks
    /\ ranksToIndices \in Seq(Tasks)
    /\ driver \in {"registration", "notify", "ring", "plan", "mpi", "joining", "failing",
                   "returned", "raised"}
    /\ notified \in 0..NumProc
    /\ job \in {"pending", "running", "ok", "failed"}
    /\ task \in [Tasks -> {"new", "register", "initial", "ring", "group", "command", "run",
                           "follow", "poll", "closing", "returned", "raised", "killed"}]
    /\ told \subseteq Tasks
    /\ command \in [Tasks -> {"none", "running", "ended"}]
    /\ fnResult \in [Tasks -> 0..NumProc] /\ value \in [Tasks -> 0..NumProc]
    /\ mpi \in {"off", "launching", "running", "ok", "failed"}
    /\ worker \in [Ranks -> {"none", "running", "done", "failed"}]
    /\ asleep \subseteq 0..NumProc
    /\ expired \in BOOLEAN /\ lost \in 0..MaxLost /\ fault \subseteq {"raised", "died"}

Happened(what) == \E t \in Tasks : <<what, t>> \in strays

\* [results[index] for index in ranks_to_indices]
Results == [i \in DOMAIN ranksToIndices |-> value[ranksToIndices[i]]]

\* run() returns the result of every rank, in the order of the ranks, unless a
\* task has been registered twice or has read its result before it was there,
\* because it could not reach the first task of its host.
ResultsInRankOrder ==
    driver = "returned" =>
        \/ Results = [i \in 1..NumProc |-> i - 1]
        \/ Happened("twice") \/ Happened("gave up")

\* run() raises only for a reason: something was lost, died, raised or came too
\* late, or a task found that the first task of its host had already finished.
RaisesForAReason ==
    driver = "raised" => lost > 0 \/ fault # {} \/ expired \/ Happened("late")

\* All tasks have registered when the driver goes on, so that the addresses it
\* looks up are there; a task that asks for its host finds itself in the list,
\* and one orted at most runs on a host.
LookupsSucceed ==
    /\ driver \notin {"registration", "failing", "raised"} => Registered = Tasks
    /\ \A t \in Tasks : task[t] \in {"group", "command", "follow", "poll", "run"} =>
           t \in ToSet(indices[hostOf[t]])
    /\ \A s, t \in Tasks :
           command[s] # "none" /\ command[t] # "none" /\ hostOf[s] = hostOf[t] => s = t

\* The state is of its type, the lookups succeed, and an exception has a reason.
SparkInv == SparkTypeOK /\ LookupsSucceed /\ RaisesForAReason

\* run() returns or raises, unless it gave up before its thread had submitted the
\* job, which then nobody cancels.
RunEnds ==
    <>(driver \in {"returned", "raised"} \/ <<"early", NumProc>> \in strays)
=============================================================================

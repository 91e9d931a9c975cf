------------------------------- MODULE Launch -------------------------------
(***************************************************************************)
(* How horovodrun runs the commands of a job (_launch_jobs in              *)
(* run/gloo_run.py): a pool of threads (run/util/threads.py) takes the     *)
(* commands from a queue and executes each with safe_shell_exec.execute:   *)
(* the thread makes three pipes, forks a "middleman" that starts the       *)
(* command in a shell and watches for the death of its parent, and waits   *)
(* for the middleman and for the end of its output.                        *)
(*                                                                         *)
(* The pipes are the point.  A fork copies every descriptor that is open   *)
(* in the process at that moment, those of the other threads too, and the  *)
(* middleman, which does not exec, closes one of them: the writing end of  *)
(* its own death pipe.  An end of file needs all copies to be closed.      *)
(*                                                                         *)
(* What can go wrong in a thread: with output files, making them, before   *)
(* execute, or closing them, after it, fails and ends the thread without a *)
(* result; a failure inside execute, before it waits, is turned into a     *)
(* result of 1, whether or not the middleman exists.  And a middleman may  *)
(* itself be killed by a signal, which its wait status tells in the low    *)
(* byte, the one that execute shifts out.                                  *)
(***************************************************************************)
EXTENDS Horovodrun, Sequences, FiniteSets

CONSTANTS
    MaxConcurrent,   \* max_concurrent_executions: 1000 in the code
    OutputFiles,     \* whether settings.output_filename is given
    Interruptible,   \* whether horovodrun may get SIGINT or SIGTERM
    MayDie,          \* whether horovodrun may be killed, or end
    Killable,        \* commands whose middleman may be killed by a signal
    Raising          \* commands for which system calls of horovodrun may fail

\* The commands, one per rank.
Jobs == 0..(NumProc - 1)

ASSUME MaxConcurrentAssumption == MaxConcurrent \in Nat \ {0}
ASSUME FaultsAssumption ==
    /\ OutputFiles \in BOOLEAN /\ Interruptible \in BOOLEAN /\ MayDie \in BOOLEAN
    /\ Killable \subseteq Jobs /\ Raising \subseteq Jobs

NumThreads == IF MaxConcurrent < NumProc THEN MaxConcurrent ELSE NumProc
Threads == 1..NumThreads

VARIABLES
    taken,      \* commands taken from worker_queue: 0..taken-1
    job,        \* the command a thread is busy with
    pc,         \* where a thread is
    middleman,  \* the state of the middleman of a command
    status,     \* the wait status of a middleman that has ended
    doomed,     \* commands that a thread of their middleman is terminating
    deathHeld,  \* by command: middlemen with a copy of the writing end of its death pipe
    outHeld,    \* by command: other middlemen with a copy of the writing end of its output
    event,      \* the event that the signal handlers set
    warned,     \* commands whose middleman has been sent SIGTERM
    unheard,    \* those of them that were not yet listening
    results,    \* result_queue: commands and exit codes in the order of their time stamps
    raised,     \* commands for which execute has raised an exception
    dropped,    \* commands whose thread has died of an exception, without a result
    alive,      \* whether horovodrun lives
    outcome     \* what _launch_jobs has come to

middlemanVars == <<middleman, status, doomed, deathHeld, outHeld>>
signalVars == <<event, warned, unheard>>
threadVars == <<taken, job, pc, results, raised, dropped>>
mainVars == <<alive, outcome>>
launchVars == <<threadVars, middlemanVars, signalVars, mainVars>>

NoJob == NumProc
Unfinished == [state |-> "running", job |-> NoJob]

LaunchInit ==
    /\ taken = 0
    /\ job = [t \in Threads |-> NoJob]
    /\ pc = [t \in Threads |-> "idle"]
    /\ middleman = [j \in Jobs |-> "none"]
    /\ status = [j \in Jobs |-> 0]
    /\ doomed = {}
    /\ deathHeld = [j \in Jobs |-> {}]
    /\ outHeld = [j \in Jobs |-> {}]
    /\ event = FALSE
    /\ warned = {}
    /\ unheard = {}
    /\ results = <<>>
    /\ raised = {}
    /\ dropped = {}
    /\ alive = TRUE
    /\ outcome = Unfinished

\* Commands that a middleman watches, and those whose middleman was killed.
Living == {j \in Jobs : middleman[j] \in {"young", "watching"}}
Orphaned == {j \in Jobs : middleman[j] = "orphaned"}
Running == Living \cup Orphaned

\* A wait status: 256 times the code of a process that exits, or the number of the
\* signal (SIGKILL) that has ended it.  status >> 8 is the exit code of execute.
Exited(c) == 256 * c
Killed == 9
ExitCode(s) == s \div 256

Without(held, j) == [k \in Jobs |-> held[k] \ {j}]

-----------------------------------------------------------------------------
(* The threads of horovodrun. *)

\* The thread takes the next command, opens its output files and makes its pipes.
\* With a single process _pad_rank takes the logarithm of 0 for their name.
Take(t) ==
    /\ alive /\ pc[t] = "idle" /\ taken < NumProc
    /\ OutputFiles => NumProc # 1
    /\ taken' = taken + 1
    /\ job' = [job EXCEPT ![t] = taken]
    /\ pc' = [pc EXCEPT ![t] = "piped"]
    /\ UNCHANGED <<results, raised, dropped, middlemanVars, signalVars, mainVars>>

\* Naming, making or opening the output files fails, which nobody catches.
OutputFails(t) ==
    /\ alive /\ pc[t] = "idle" /\ taken < NumProc
    /\ OutputFiles /\ (NumProc = 1 \/ taken \in Raising)
    /\ taken' = taken + 1
    /\ pc' = [pc EXCEPT ![t] = "dead"]
    /\ dropped' = dropped \cup {taken}
    /\ UNCHANGED <<job, results, raised, middlemanVars, signalVars, mainVars>>

\* Mutant of Leave: get() waits for another command.
Leave_Blocks(t) ==
    /\ alive /\ pc[t] = "idle" /\ taken = NumProc
    /\ UNCHANGED launchVars

\* The queue is empty.
Leave(t) ==
    /\ alive /\ pc[t] = "idle" /\ taken = NumProc
    /\ pc' = [pc EXCEPT ![t] = "done"]
    /\ UNCHANGED <<taken, job, results, raised, dropped, middlemanVars, signalVars, mainVars>>

\* Commands whose writing end of the output is open in horovodrun.
OutputOpen == {job[t] : t \in {u \in Threads : pc[u] \in {"piped", "forked"}}}

\* Mutant of Fork: the child does not close the writing end of its own death pipe.
Fork_KeepsOwnEnd(t) ==
    LET j == job[t] IN
    /\ alive /\ pc[t] = "piped"
    /\ pc' = [pc EXCEPT ![t] = "forked"]
    /\ middleman' = [middleman EXCEPT ![j] = "young"]
    /\ deathHeld' = [k \in Jobs |-> IF k < taken THEN deathHeld[k] \cup {j} ELSE deathHeld[k]]
    /\ UNCHANGED <<taken, job, results, raised, dropped, status, doomed, outHeld, signalVars,
                   mainVars>>

\* The fork.  horovodrun never closes the writing end of a death pipe, so the
\* child has those of all commands taken so far.
Fork(t) ==
    LET j == job[t] IN
    /\ alive /\ pc[t] = "piped"
    /\ pc' = [pc EXCEPT ![t] = "forked"]
    /\ middleman' = [middleman EXCEPT ![j] = "young"]
    /\ deathHeld' = [k \in Jobs |->
                        IF k < taken /\ k # j THEN deathHeld[k] \cup {j} ELSE deathHeld[k]]
    /\ outHeld' = [k \in Jobs |->
                      IF k \in OutputOpen \ {j} THEN outHeld[k] \cup {j} ELSE outHeld[k]]
    /\ UNCHANGED <<taken, job, results, raised, dropped, status, doomed, signalVars, mainVars>>

\* The thread closes its copies of the output and starts the threads that
\* forward it and the one that waits for the event.
CloseOutput(t) ==
    /\ alive /\ pc[t] = "forked"
    /\ pc' = [pc EXCEPT ![t] = "waiting"]
    /\ UNCHANGED <<taken, job, results, raised, dropped, middlemanVars, signalVars, mainVars>>

\* _exec_command closes the output files; the result is stamped and queued.
Deliver(t, exitCode) ==
    /\ pc' = [pc EXCEPT ![t] = "idle"]
    /\ job' = [job EXCEPT ![t] = NoJob]
    /\ results' = Append(results, [job |-> job[t], exitCode |-> exitCode])
    /\ UNCHANGED dropped

\* Closing the output files fails (the disk is full), which nobody catches.
CloseFails(t) ==
    /\ OutputFiles /\ job[t] \in Raising
    /\ pc' = [pc EXCEPT ![t] = "dead"]
    /\ job' = [job EXCEPT ![t] = NoJob]
    /\ dropped' = dropped \cup {job[t]}
    /\ UNCHANGED results

\* Mutant of Collect: the thread does not wait for the middleman.
Collect_NoWait(t) ==
    /\ alive /\ pc[t] = "waiting" /\ outHeld[job[t]] = {}
    /\ Deliver(t, ExitCode(status[job[t]])) \/ CloseFails(t)
    /\ UNCHANGED <<taken, raised, middlemanVars, signalVars, mainVars>>

\* waitpid returns, and join() of the forwarding threads: the end of file of the
\* output comes when nobody holds it, the shell of a killed middleman included.
Collect(t) ==
    /\ alive /\ pc[t] = "waiting"
    /\ middleman[job[t]] = "exited" /\ outHeld[job[t]] = {}
    /\ Deliver(t, ExitCode(status[job[t]])) \/ CloseFails(t)
    /\ UNCHANGED <<taken, raised, middlemanVars, signalVars, mainVars>>

\* execute raises: a pipe or the fork fails, or the start of a thread after the
\* fork, where a middleman stays behind of which horovodrun knows nothing.
ExecRaises(t) ==
    /\ alive /\ pc[t] \in {"piped", "forked"} /\ job[t] \in Raising
    /\ raised' = raised \cup {job[t]}
    /\ Deliver(t, 1) \/ CloseFails(t)
    /\ UNCHANGED <<taken, middlemanVars, signalVars, mainVars>>

\* Mutant of Warn: the first thread that sees the event clears it.
Warn_First(j) ==
    /\ alive /\ event /\ warned = {}
    /\ j \in {job[t] : t \in {u \in Threads : pc[u] = "waiting"}}
    /\ warned' = {j}
    /\ doomed' = IF middleman[j] = "watching" THEN doomed \cup {j} ELSE doomed
    /\ unheard' = IF middleman[j] = "young" THEN unheard \cup {j} ELSE unheard
    /\ UNCHANGED <<threadVars, middleman, status, deathHeld, outHeld, event, mainVars>>

\* The threads that wait for the event send SIGTERM once each.  A middleman
\* that has not installed its handlers runs the one inherited from horovodrun,
\* which sets a copy of the event that nobody waits for.  (To a middleman that
\* has been waited for the signal cannot be sent, which is ignored.)
Warn(j) ==
    /\ alive /\ event /\ j \notin warned
    /\ j \in {job[t] : t \in {u \in Threads : pc[u] = "waiting"}}
    /\ warned' = warned \cup {j}
    /\ doomed' = IF middleman[j] = "watching" THEN doomed \cup {j} ELSE doomed
    /\ unheard' = IF middleman[j] = "young" THEN unheard \cup {j} ELSE unheard
    /\ UNCHANGED <<threadVars, middleman, status, deathHeld, outHeld, event, mainVars>>

\* The main thread has joined all threads: it raises for want of a result, or with
\* the failure that has the earliest time stamp, or returns.
Finish ==
    /\ alive /\ outcome = Unfinished
    /\ \A t \in Threads : pc[t] \in {"done", "dead"}
    /\ IF Len(results) # NumProc
       THEN outcome' = [state |-> "incomplete", job |-> NoJob]
       ELSE \/ /\ \A i \in 1..NumProc : results[i].exitCode = 0
               /\ outcome' = [state |-> "ok", job |-> NoJob]
            \/ \E i \in 1..NumProc :
                  /\ results[i].exitCode # 0
                  /\ \A k \in 1..(i - 1) : results[k].exitCode = 0
                  /\ outcome' = [state |-> "failed", job |-> results[i].job]
    /\ UNCHANGED <<threadVars, middlemanVars, signalVars, alive>>

-----------------------------------------------------------------------------
(* Signals to horovodrun, and the middlemen. *)

\* set_event_on_sigterm
Interrupt ==
    /\ Interruptible /\ alive /\ ~event /\ outcome = Unfinished
    /\ event' = TRUE
    /\ UNCHANGED <<threadVars, middlemanVars, warned, unheard, mainVars>>

\* horovodrun is killed, or ends when it has an outcome.
Die ==
    /\ MayDie /\ alive
    /\ alive' = FALSE
    /\ UNCHANGED <<threadVars, middlemanVars, signalVars, outcome>>

\* The middleman starts the shell, installs its handlers and starts its threads.
Watch(j) ==
    /\ middleman[j] = "young"
    /\ middleman' = [middleman EXCEPT ![j] = "watching"]
    /\ UNCHANGED <<threadVars, status, doomed, deathHeld, outHeld, signalVars, mainVars>>

\* read(r) returns: horovodrun is dead and nobody else has the writing end.
SeeDeath(j) ==
    /\ middleman[j] = "watching" /\ j \notin doomed
    /\ ~alive /\ deathHeld[j] = {}
    /\ doomed' = doomed \cup {j}
    /\ UNCHANGED <<threadVars, middleman, status, deathHeld, outHeld, signalVars, mainVars>>

\* The shell ends, of itself or terminated, and with it the middleman, whose
\* descriptors are closed.  A negative return code makes os._exit(c) leave 256 + c.
End(j, c) ==
    /\ middleman[j] = "watching"
    /\ middleman' = [middleman EXCEPT ![j] = "exited"]
    /\ status' = [status EXCEPT ![j] = Exited(c)]
    /\ deathHeld' = Without(deathHeld, j)
    /\ outHeld' = Without(outHeld, j)
    /\ UNCHANGED <<threadVars, doomed, signalVars, mainVars>>

\* The middleman is killed, and its threads with it.  The shell runs on, and holds
\* the output, unless it had not been started.
Kill(j) ==
    /\ j \in Killable /\ j \in Living
    /\ \/ middleman' = [middleman EXCEPT ![j] = "orphaned"]
       \/ middleman[j] = "young" /\ middleman' = [middleman EXCEPT ![j] = "exited"]
    /\ status' = [status EXCEPT ![j] = Killed]
    /\ doomed' = doomed \ {j}
    /\ deathHeld' = Without(deathHeld, j)
    /\ outHeld' = Without(outHeld, j)
    /\ UNCHANGED <<threadVars, signalVars, mainVars>>

\* The shell of a middleman that was killed ends.
ShellEnds(j) ==
    /\ middleman[j] = "orphaned"
    /\ middleman' = [middleman EXCEPT ![j] = "exited"]
    /\ UNCHANGED <<threadVars, status, doomed, deathHeld, outHeld, signalVars, mainVars>>

ThreadStep(t) ==
    \/ Take(t) \/ OutputFails(t) \/ Leave(t)
    \/ Fork(t) \/ CloseOutput(t) \/ Collect(t) \/ ExecRaises(t)

LaunchNext ==
    \/ \E t \in Threads : ThreadStep(t)
    \/ \E j \in Jobs : Warn(j) \/ Watch(j) \/ SeeDeath(j) \/ Kill(j) \/ ShellEnds(j)
    \/ \E j \in Jobs : \E c \in {0, 1} : End(j, c)
    \/ Finish \/ Interrupt \/ Die

LaunchSpec == LaunchInit /\ [][LaunchNext]_launchVars

\* Threads and processes are scheduled; a command that is being terminated ends
\* (after GRACEFUL_TERMINATION_TIME_S it is killed).  Others may run for ever.
LaunchFairness ==
    /\ \A t \in Threads : WF_launchVars(ThreadStep(t))
    /\ \A j \in Jobs : /\ WF_launchVars(Warn(j)) /\ WF_launchVars(Watch(j))
                       /\ WF_launchVars(SeeDeath(j))
                       /\ WF_launchVars(j \in doomed /\ \E c \in {0, 1} : End(j, c))
    /\ WF_launchVars(Finish)

FairLaunch == LaunchSpec /\ LaunchFairness

-----------------------------------------------------------------------------
(* Properties *)

Result == [job : Jobs, exitCode : {0, 1}]

LaunchTypeOK ==
    /\ taken \in 0..NumProc
    /\ job \in [Threads -> 0..NumProc]
    /\ pc \in [Threads -> {"idle", "piped", "forked", "waiting", "done", "dead"}]
    /\ middleman \in [Jobs -> {"none", "young", "watching", "orphaned", "exited"}]
    /\ status \in [Jobs -> {Exited(0), Exited(1), Killed}]
    /\ doomed \subseteq Jobs /\ warned \subseteq Jobs /\ unheard \subseteq Jobs
    /\ raised \subseteq Jobs /\ dropped \subseteq Jobs
    /\ deathHeld \in [Jobs -> SUBSET Jobs] /\ outHeld \in [Jobs -> SUBSET Jobs]
    /\ event \in BOOLEAN /\ alive \in BOOLEAN
    /\ results \in Seq(Result)
    /\ outcome \in [state : {"running", "ok", "failed", "incomplete"}, job : 0..NumProc]

\* _launch_jobs returns normally only when all commands have been run and have
\* ended, and each with 0 or with its middleman killed by a signal, which status >> 8
\* takes for 0.  It names a command only when this has ended with another code, or
\* execute has raised an exception for it, which is reported as an exit code of 1.
\* It raises the error of threads.py:91 when, and only when, a thread has died on the
\* output files of its command, whatever became of the other commands.
OutcomeIsTrue ==
    /\ outcome.state = "ok" =>
           \A j \in Jobs : middleman[j] = "exited" /\ status[j] \in {Exited(0), Killed}
    /\ outcome.state = "failed" =>
           \/ outcome.job \in raised
           \/ middleman[outcome.job] = "exited" /\ status[outcome.job] \notin {Exited(0), Killed}
    /\ outcome # Unfinished => (outcome.state = "incomplete" <=> dropped # {})

\* When from some time on no command runs the launcher returns: however the forks
\* have mixed the output pipes, and whatever has failed in its threads, nobody waits
\* for ever, for an end of file, for a command to take or for a result.
LaunchReturns == <>[](Running = {}) => <>(outcome # Unfinished \/ ~alive)

\* Commands that no SIGTERM reaches: the middleman was not yet listening, has been
\* killed, or was left behind when execute raised after the fork.
Untold == unheard \cup Orphaned \cup (raised \cap Living)

\* After SIGINT or SIGTERM the job comes to an end, also the commands that had
\* not been started, unless there is a command that the signal does not reach.
InterruptStops == event ~> (outcome # Unfinished \/ ~alive \/ Untold # {})

\* Middlemen that keep each other from seeing that horovodrun has died.
Crossed(S) == S # {} /\ \A j \in S : deathHeld[j] \cap (S \ {j}) # {}

\* When horovodrun is killed, or ends, the commands that a middleman watches are
\* terminated, those of which it knew nothing too, by one middleman after the other
\* closing the pipes that it holds of others, unless two or more middlemen have got
\* the pipes of one another.
DeathIsSeen ==
    ~alive ~> (Living = {} \/ \E S \in SUBSET Living : Crossed(S))

\* What safe_shell_exec.py:92 ("Make a pipe for notifying the child that parent
\* has died") and run.py:191 ("In case, the horovodrun process dies, all the ssh
\* sessions and all the task servers will die as well") say.
AllDieWithLauncher == ~alive ~> Living = {}
=============================================================================

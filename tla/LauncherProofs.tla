--------------------------- MODULE LauncherProofs ---------------------------
(***************************************************************************)
(* Proofs about the two parts of horovodrun.                               *)
(*                                                                         *)
(* Launch, for any number of commands and of threads: what the launcher    *)
(* says of the job is true, with the exceptions that the property names,   *)
(* however the threads, the middlemen, the signals and the failures of     *)
(* system calls interleave: every command that has been taken is with one  *)
(* thread, or has one result, or has ended its thread.                     *)
(*                                                                         *)
(* Rendezvous, for any number of ranks, any list of hosts and any losses:  *)
(* the server is never closed, because no worker names the scope "global", *)
(* and a worker says that it has finished with a scope only when all       *)
(* addresses of the scope are in the store, where they stay; and no two    *)
(* workers use the same key in a scope, because _allocate gives each slot  *)
(* to one of them, from the first slot of a host on.                       *)
(***************************************************************************)
EXTENDS Launch, Rendezvous, FusionProofs

Taken == 0..(taken - 1)

\* Threads that are busy with a command.
Busy == {t \in Threads : pc[t] \in {"piped", "forked", "waiting"}}

Queued(j) == \E i \in 1..Len(results) : results[i].job = j

\* A command that has been taken is with one thread, or in the result queue, or has
\* cost its thread.
InOnePlace ==
    /\ \A t \in Busy : job[t] \in Taken /\ ~Queued(job[t]) /\ job[t] \notin dropped
    /\ \A t, u \in Busy : job[t] = job[u] => t = u
    /\ \A j \in Taken : (\E t \in Busy : job[t] = j) \/ Queued(j) \/ j \in dropped
    /\ dropped \subseteq Taken

\* A result is the exit code of a command that has ended, or the 1 of an exception.
IsResult(res) ==
    /\ res.job \in Taken
    /\ \/ res.job \in raised /\ res.exitCode = 1
       \/ middleman[res.job] = "exited" /\ res.exitCode = ExitCode(status[res.job])

ResultsHold == \A i \in 1..Len(results) : IsResult(results[i])

\* No result is queued twice, and none of a command that is dropped.
Counted == Len(results) + Cardinality(Busy) + Cardinality(dropped) = taken

\* A thread leaves when all commands are taken or when it has dropped one, the main
\* thread when they have left; it names a command of the job.
Left ==
    /\ \A t \in Threads : pc[t] = "done" => taken = NumProc
    /\ (\E t \in Threads : pc[t] = "dead") => dropped # {}
    /\ outcome # Unfinished => \A t \in Threads : pc[t] \in {"done", "dead"}
    /\ outcome.state = "failed" => outcome.job \in Jobs

LaunchIInv ==
    LaunchTypeOK /\ InOnePlace /\ ResultsHold /\ Counted /\ Left /\ OutcomeIsTrue

-----------------------------------------------------------------------------
\* The threads are a finite set, and not none.
LEMMA ThreadsFinite ==
    /\ NumThreads \in Nat \ {0}
    /\ IsFiniteSet(Threads) /\ 1 \in Threads
<1>1. NumThreads \in Nat \ {0}
  BY NumProcAssumption, MaxConcurrentAssumption DEF NumThreads
<1> QED BY <1>1, FS_Interval DEF Threads

\* So are the busy ones.
LEMMA BusyFinite == IsFiniteSet(Busy) /\ Cardinality(Busy) \in Nat
<1>1. Busy \in SUBSET Threads BY DEF Busy
<1>2. IsFiniteSet(Busy) BY <1>1, ThreadsFinite, FS_Subset
<1> QED BY <1>2, FS_CardinalityType

\* And the commands that have been dropped.
LEMMA DroppedFinite ==
    ASSUME dropped \subseteq Jobs
    PROVE  /\ IsFiniteSet(dropped) /\ Cardinality(dropped) \in Nat
           /\ Cardinality(dropped) = 0 <=> dropped = {}
<1>1. IsFiniteSet(Jobs) BY NumProcAssumption, FS_Interval DEF Jobs
<1>2. IsFiniteSet(dropped) BY <1>1, FS_Subset
<1> QED BY <1>2, FS_CardinalityType, FS_EmptySet

\* The exit code that execute takes from a wait status: that of a signal counts as 0.
LEMMA ExitCodes ==
    /\ ExitCode(Exited(0)) = 0 /\ ExitCode(Exited(1)) = 1 /\ ExitCode(Killed) = 0
    /\ Exited(1) # Exited(0) /\ Exited(1) # Killed
<1>1. Exited(0) = 0 /\ Exited(1) = 256 /\ Killed = 9 BY DEF Exited, Killed
<1>2. 0 \div 256 = 0 /\ 256 \div 256 = 1 /\ 9 \div 256 = 0 OBVIOUS
<1> QED BY <1>1, <1>2 DEF ExitCode

\* Results are of commands of the job.
LEMMA ResultTypes ==
    ASSUME LaunchTypeOK
    PROVE  Len(results) \in Nat /\ \A i \in 1..Len(results) : results[i].job \in Jobs
<1>1. results \in Seq(Result) BY DEF LaunchTypeOK
<1>2. Len(results) \in Nat /\ \A i \in 1..Len(results) : results[i] \in Result BY <1>1
<1>3. \A r \in Result : r.job \in Jobs BY DEF Result
<1> QED BY <1>2, <1>3

\* When the threads have left, there is a result of every command, or a dropped one.
LEMMA AllResults ==
    ASSUME LaunchIInv, \A t \in Threads : pc[t] \in {"done", "dead"}
    PROVE  /\ Len(results) = NumProc <=> dropped = {}
           /\ dropped = {} => \A j \in Jobs : Queued(j)
<1>1. Busy = {} BY DEF Busy
<1>2. Cardinality(Busy) = 0 BY <1>1, FS_EmptySet
<1>3. /\ Len(results) \in Nat /\ taken \in 0..NumProc /\ dropped \subseteq Jobs
      /\ Len(results) + Cardinality(Busy) + Cardinality(dropped) = taken
  BY DEF LaunchIInv, LaunchTypeOK, Counted
<1>4. dropped = {} => taken = NumProc BY ThreadsFinite DEF LaunchIInv, Left
<1>5. Len(results) = NumProc <=> dropped = {}
  <2>1. Cardinality(dropped) \in Nat /\ (Cardinality(dropped) = 0 <=> dropped = {})
    BY <1>3, DroppedFinite
  <2> QED BY <1>2, <1>3, <1>4, <2>1, NumProcAssumption
<1>6. dropped = {} => Taken = Jobs BY <1>4 DEF Taken, Jobs
<1> QED BY <1>1, <1>5, <1>6 DEF LaunchIInv, InOnePlace

\* The initial state satisfies the invariant.
LEMMA LaunchInitially == LaunchInit => LaunchIInv
<1> SUFFICES ASSUME LaunchInit PROVE LaunchIInv OBVIOUS
<1> USE DEF LaunchInit, Unfinished
<1>1. LaunchTypeOK
  <2>1. NoJob \in 0..NumProc /\ taken \in 0..NumProc BY NumProcAssumption DEF NoJob
  <2>2. job \in [Threads -> 0..NumProc] BY <2>1
  <2>3. outcome \in [state : {"running", "ok", "failed", "incomplete"}, job : 0..NumProc]
    BY <2>1
  <2>4. deathHeld \in [Jobs -> SUBSET Jobs] /\ outHeld \in [Jobs -> SUBSET Jobs] OBVIOUS
  <2>5. /\ doomed \subseteq Jobs /\ warned \subseteq Jobs /\ unheard \subseteq Jobs
        /\ raised \subseteq Jobs /\ dropped \subseteq Jobs
        /\ event \in BOOLEAN /\ alive \in BOOLEAN
    OBVIOUS
  <2>6. /\ pc \in [Threads -> {"idle", "piped", "forked", "waiting", "done", "dead"}]
        /\ middleman \in [Jobs -> {"none", "young", "watching", "orphaned", "exited"}]
        /\ status \in [Jobs -> {Exited(0), Exited(1), Killed}]
    BY DEF Exited
  <2>7. results \in Seq(Result) OBVIOUS
  <2> QED BY <2>1, <2>2, <2>3, <2>4, <2>5, <2>6, <2>7 DEF LaunchTypeOK
<1>2. Busy = {} BY DEF Busy
<1>3. Taken = {} /\ Len(results) = 0 BY DEF Taken
<1>4. Counted
  <2>1. Cardinality(Busy) = 0 /\ Cardinality(dropped) = 0 BY <1>2, FS_EmptySet
  <2> QED BY <1>3, <2>1 DEF Counted
<1>5. InOnePlace /\ ResultsHold BY <1>2, <1>3 DEF InOnePlace, ResultsHold
<1>6. Left /\ OutcomeIsTrue BY DEF Left, OutcomeIsTrue
<1> QED BY <1>1, <1>4, <1>5, <1>6 DEF LaunchIInv

\* A thread is busy with a command of the job, and no other has the same.
LEMMA BusyJob ==
    ASSUME LaunchIInv, NEW t \in Busy
    PROVE  /\ t \in Threads /\ job[t] \in Taken /\ job[t] \in Jobs
           /\ outcome = Unfinished /\ ~Queued(job[t]) /\ job[t] \notin dropped
<1>1. t \in Threads /\ pc[t] \notin {"done", "dead"} BY DEF Busy
<1>2. job[t] \in Taken /\ ~Queued(job[t]) /\ job[t] \notin dropped
  BY DEF LaunchIInv, InOnePlace
<1>3. job[t] \in Jobs
  BY <1>2, NumProcAssumption DEF Taken, Jobs, LaunchIInv, LaunchTypeOK
<1> QED BY <1>1, <1>2, <1>3 DEF LaunchIInv, Left

\* What a thread makes of the end of its command: a result, or none.
LEMMA EndingTypes ==
    ASSUME LaunchIInv, NEW t \in Busy, NEW c \in {0, 1}, Deliver(t, c) \/ CloseFails(t)
    PROVE  /\ pc' \in [Threads -> {"idle", "piped", "forked", "waiting", "done", "dead"}]
           /\ job' \in [Threads -> 0..NumProc]
           /\ results' \in Seq(Result)
           /\ dropped' \subseteq Jobs
<1>1. job[t] \in Jobs /\ NoJob \in 0..NumProc BY BusyJob, NumProcAssumption DEF NoJob
<1>2. [job |-> job[t], exitCode |-> c] \in Result BY <1>1 DEF Result
<1>3. job \in [Threads -> 0..NumProc] /\ dropped \subseteq Jobs
      /\ pc \in [Threads -> {"idle", "piped", "forked", "waiting", "done", "dead"}]
      /\ results \in Seq(Result)
  BY DEF LaunchIInv, LaunchTypeOK
<1> HIDE DEF Jobs
<1>4. CASE Deliver(t, c)
  <2>1. results' = Append(results, [job |-> job[t], exitCode |-> c]) BY <1>4 DEF Deliver
  <2>2. \A r \in Result : Append(results, r) \in Seq(Result) BY <1>3
  <2>3. results' \in Seq(Result) BY <1>2, <2>1, <2>2
  <2> QED BY <1>1, <1>3, <1>4, <2>3 DEF Deliver
<1>5. CASE CloseFails(t) BY <1>1, <1>3, <1>5 DEF CloseFails
<1> QED BY <1>4, <1>5

\* The exit code of a wait status is one of a result.
LEMMA StatusCode ==
    ASSUME LaunchTypeOK, NEW j \in Jobs
    PROVE  /\ ExitCode(status[j]) \in {0, 1}
           /\ ExitCode(status[j]) = 0 => status[j] \in {Exited(0), Killed}
           /\ ExitCode(status[j]) # 0 => status[j] \notin {Exited(0), Killed}
<1>1. status[j] \in {Exited(0), Exited(1), Killed} BY DEF LaunchTypeOK
<1> QED BY <1>1, ExitCodes

\* Every step keeps the types.
LEMMA TypesKept ==
    ASSUME LaunchIInv, [LaunchNext]_launchVars
    PROVE  LaunchTypeOK'
<1> USE NumProcAssumption DEF LaunchIInv, LaunchTypeOK, threadVars, middlemanVars,
                              signalVars, mainVars
<1>1. ASSUME NEW t \in Threads, Take(t) PROVE LaunchTypeOK'
  BY <1>1 DEF Take
<1>2. ASSUME NEW t \in Threads, OutputFails(t) PROVE LaunchTypeOK'
  <2>1. taken \in Jobs BY <1>2 DEF OutputFails, Jobs
  <2> QED BY <1>2, <2>1 DEF OutputFails
<1>3. ASSUME NEW t \in Threads, Leave(t) PROVE LaunchTypeOK'
  BY <1>3 DEF Leave
<1>4. ASSUME NEW t \in Threads, Fork(t) PROVE LaunchTypeOK'
  <2>1. t \in Busy BY <1>4 DEF Fork, Busy
  <2>2. job[t] \in Jobs BY <2>1, BusyJob
  <2>3. deathHeld' \in [Jobs -> SUBSET Jobs] BY <1>4, <2>2 DEF Fork
  <2>4. outHeld' \in [Jobs -> SUBSET Jobs] BY <1>4, <2>2 DEF Fork
  <2> QED BY <1>4, <2>3, <2>4 DEF Fork
<1>5. ASSUME NEW t \in Threads, CloseOutput(t) PROVE LaunchTypeOK'
  BY <1>5 DEF CloseOutput
<1>6. ASSUME NEW t \in Threads, Collect(t) PROVE LaunchTypeOK'
  <2>1. t \in Busy BY <1>6 DEF Collect, Busy
  <2>2. ExitCode(status[job[t]]) \in {0, 1} BY <2>1, BusyJob, StatusCode
  <2>3. /\ pc' \in [Threads -> {"idle", "piped", "forked", "waiting", "done", "dead"}]
        /\ job' \in [Threads -> 0..NumProc]
        /\ results' \in Seq(Result)
        /\ dropped' \subseteq Jobs
    BY <1>6, <2>1, <2>2, EndingTypes DEF Collect
  <2> QED BY <1>6, <2>3 DEF Collect
<1>7. ASSUME NEW t \in Threads, ExecRaises(t) PROVE LaunchTypeOK'
  <2>1. t \in Busy BY <1>7 DEF ExecRaises, Busy
  <2>2. job[t] \in Jobs BY <2>1, BusyJob
  <2>3. /\ pc' \in [Threads -> {"idle", "piped", "forked", "waiting", "done", "dead"}]
        /\ job' \in [Threads -> 0..NumProc]
        /\ results' \in Seq(Result)
        /\ dropped' \subseteq Jobs
    BY <1>7, <2>1, EndingTypes DEF ExecRaises
  <2> QED BY <1>7, <2>2, <2>3 DEF ExecRaises
<1>8. ASSUME NEW j \in Jobs, Warn(j) PROVE LaunchTypeOK'
  BY <1>8 DEF Warn
<1>9. ASSUME NEW j \in Jobs, Watch(j) \/ ShellEnds(j) PROVE LaunchTypeOK'
  BY <1>9 DEF Watch, ShellEnds
<1>10. ASSUME NEW j \in Jobs, SeeDeath(j) PROVE LaunchTypeOK'
  BY <1>10 DEF SeeDeath
<1>11. \A held \in [Jobs -> SUBSET Jobs] : \A j \in Jobs : Without(held, j) \in [Jobs -> SUBSET Jobs]
  BY DEF Without
<1>12. ASSUME NEW j \in Jobs, NEW c \in {0, 1}, End(j, c) PROVE LaunchTypeOK'
  <2>1. Exited(c) \in {Exited(0), Exited(1), Killed} BY DEF Exited
  <2>2. status' \in [Jobs -> {Exited(0), Exited(1), Killed}] BY <1>12, <2>1 DEF End
  <2> QED BY <1>11, <1>12, <2>2 DEF End
<1>13. ASSUME NEW j \in Jobs, Kill(j) PROVE LaunchTypeOK'
  <2>1. status' \in [Jobs -> {Exited(0), Exited(1), Killed}] BY <1>13 DEF Kill
  <2> QED BY <1>11, <1>13, <2>1 DEF Kill
<1>14. ASSUME Finish PROVE LaunchTypeOK'
  <2>1. \A i \in 1..NumProc : Len(results) = NumProc => results[i].job \in 0..NumProc
    <3>1. \A i \in 1..Len(results) : results[i].job \in Jobs BY ResultTypes
    <3> QED BY <3>1 DEF Jobs
  <2>2. outcome' \in [state : {"running", "ok", "failed", "incomplete"}, job : 0..NumProc]
    BY <1>14, <2>1 DEF Finish, NoJob
  <2> QED BY <1>14, <2>2 DEF Finish
<1>15. ASSUME Interrupt \/ Die \/ UNCHANGED launchVars PROVE LaunchTypeOK'
  BY <1>15 DEF Interrupt, Die, launchVars
<1> QED
  BY <1>1, <1>2, <1>3, <1>4, <1>5, <1>6, <1>7, <1>8, <1>9, <1>10, <1>12, <1>13, <1>14, <1>15
  DEF LaunchNext, ThreadStep

\* Steps that change neither the threads nor the results, and leave middlemen that
\* have exited as they are.
LEMMA OthersKeep ==
    ASSUME LaunchIInv, UNCHANGED <<threadVars, outcome>>,
           \A j \in Jobs : middleman[j] = "exited" =>
               middleman'[j] = "exited" /\ status'[j] = status[j]
    PROVE  (InOnePlace /\ ResultsHold /\ Counted /\ Left /\ OutcomeIsTrue)'
<1> USE DEF threadVars
<1>1. Busy' = Busy /\ Taken' = Taken BY DEF Busy, Taken
<1>2. \A j : Queued(j)' <=> Queued(j) BY DEF Queued
<1>3. InOnePlace' BY <1>1, <1>2 DEF LaunchIInv, InOnePlace
<1>4. ResultsHold'
  BY <1>1, ResultTypes DEF LaunchIInv, ResultsHold, IsResult
<1>5. Counted' BY <1>1 DEF LaunchIInv, Counted
<1>6. Left' BY DEF LaunchIInv, Left, Unfinished
<1>7. OutcomeIsTrue' BY DEF LaunchIInv, Left, OutcomeIsTrue, Unfinished
<1> QED BY <1>3, <1>4, <1>5, <1>6, <1>7

\* A thread goes on with the command that it has, of which there is no result.
LEMMA BusyGoesOn ==
    ASSUME LaunchIInv, NEW t \in Threads, CloseOutput(t) \/ Fork(t)
    PROVE  (InOnePlace /\ ResultsHold /\ Counted /\ Left /\ OutcomeIsTrue)'
<1>1. t \in Busy BY DEF CloseOutput, Fork, Busy
<1>2. outcome = Unfinished /\ ~Queued(job[t]) BY <1>1, BusyJob
<1>3. /\ UNCHANGED <<taken, job, results, raised, dropped, outcome, status>>
      /\ \A u \in Threads : u # t => pc'[u] = pc[u]
      /\ pc'[t] \in {"forked", "waiting"}
      /\ \A j \in Jobs : j # job[t] => middleman'[j] = middleman[j]
  BY DEF CloseOutput, Fork, LaunchIInv, LaunchTypeOK, middlemanVars, mainVars
<1>4. Busy' = Busy /\ Taken' = Taken BY <1>1, <1>3 DEF Busy, Taken
<1>5. \A j : Queued(j)' <=> Queued(j) BY <1>3 DEF Queued
<1>6. InOnePlace' BY <1>3, <1>4, <1>5 DEF LaunchIInv, InOnePlace
<1>7. ResultsHold'
  <2> SUFFICES ASSUME NEW i \in 1..Len(results) PROVE IsResult(results[i])'
    BY <1>3 DEF ResultsHold
  <2>1. results[i].job # job[t] BY <1>2 DEF Queued
  <2>2. results[i].job \in Jobs BY ResultTypes DEF LaunchIInv
  <2>3. IsResult(results[i]) BY DEF LaunchIInv, ResultsHold
  <2> QED BY <1>3, <1>4, <2>1, <2>2, <2>3 DEF IsResult
<1>8. Counted' BY <1>3, <1>4 DEF LaunchIInv, Counted
<1>9. Left' BY <1>2, <1>3 DEF LaunchIInv, Left, Unfinished
<1>10. OutcomeIsTrue' BY <1>2, <1>3 DEF OutcomeIsTrue, Unfinished
<1> QED BY <1>6, <1>7, <1>8, <1>9, <1>10

\* A thread that takes a command is the only one with it.
LEMMA TakeKeeps ==
    ASSUME LaunchIInv, NEW t \in Threads, Take(t)
    PROVE  (InOnePlace /\ ResultsHold /\ Counted /\ Left /\ OutcomeIsTrue)'
<1> USE NumProcAssumption
<1>1. /\ t \notin Busy /\ taken \in Nat /\ taken' = taken + 1 /\ taken < NumProc
      /\ UNCHANGED <<middleman, status, results, raised, dropped, outcome>>
      /\ job'[t] = taken /\ pc'[t] = "piped"
      /\ \A u \in Threads : u # t => job'[u] = job[u] /\ pc'[u] = pc[u]
  BY DEF Take, Busy, LaunchIInv, LaunchTypeOK, middlemanVars, mainVars
<1>2. Busy' = Busy \cup {t} BY <1>1 DEF Busy
<1>3. Taken' = Taken \cup {taken} /\ taken \notin Taken BY <1>1 DEF Taken
<1>4. \A j : Queued(j)' <=> Queued(j) BY <1>1 DEF Queued
<1>5. outcome = Unfinished BY DEF Take, LaunchIInv, Left
<1>6. ~Queued(taken) /\ taken \notin dropped
  BY <1>3 DEF LaunchIInv, ResultsHold, IsResult, Queued, InOnePlace
<1>7. Busy \subseteq Threads /\ \A u \in Busy : job[u] \in Taken /\ u # t
  BY <1>1 DEF Busy, LaunchIInv, InOnePlace
<1>8. InOnePlace'
  <2>1. (\A u \in Busy : job[u] \in Taken /\ ~Queued(job[u]) /\ job[u] \notin dropped)'
    BY <1>1, <1>2, <1>3, <1>4, <1>6, <1>7 DEF LaunchIInv, InOnePlace
  <2>2. (\A u, w \in Busy : job[u] = job[w] => u = w)'
    BY <1>1, <1>2, <1>3, <1>7 DEF LaunchIInv, InOnePlace
  <2>3. (\A j \in Taken : (\E u \in Busy : job[u] = j) \/ Queued(j) \/ j \in dropped)'
    BY <1>1, <1>2, <1>3, <1>4, <1>7 DEF LaunchIInv, InOnePlace
  <2>4. (dropped \subseteq Taken)' BY <1>1, <1>3 DEF LaunchIInv, InOnePlace
  <2> QED BY <2>1, <2>2, <2>3, <2>4 DEF InOnePlace
<1>9. ResultsHold' BY <1>1, <1>3 DEF LaunchIInv, ResultsHold, IsResult
<1>10. Counted'
  <2>1. Cardinality(Busy') = Cardinality(Busy) + 1 BY <1>1, <1>2, BusyFinite, FS_AddElement
  <2>2. Len(results) \in Nat /\ Cardinality(dropped) \in Nat
    BY DroppedFinite DEF LaunchIInv, LaunchTypeOK
  <2>3. Len(results) + (Cardinality(Busy) + 1) + Cardinality(dropped) = taken + 1
    BY <1>1, <2>2, BusyFinite DEF LaunchIInv, Counted
  <2> QED BY <1>1, <2>1, <2>3 DEF Counted
<1>11. Left' BY <1>1, <1>5 DEF LaunchIInv, Left, Unfinished
<1>12. OutcomeIsTrue' BY <1>1, <1>5 DEF OutcomeIsTrue, Unfinished
<1> QED BY <1>8, <1>9, <1>10, <1>11, <1>12

\* A thread that dies on the output files of a command has dropped this one.
LEMMA OutputFailsKeeps ==
    ASSUME LaunchIInv, NEW t \in Threads, OutputFails(t)
    PROVE  (InOnePlace /\ ResultsHold /\ Counted /\ Left /\ OutcomeIsTrue)'
<1> USE NumProcAssumption
<1>1. /\ taken \in Nat /\ taken' = taken + 1 /\ taken < NumProc /\ taken \in Jobs
      /\ UNCHANGED <<job, middleman, status, results, raised, outcome>>
      /\ dropped' = dropped \cup {taken} /\ pc[t] = "idle" /\ pc'[t] = "dead"
      /\ \A u \in Threads : u # t => pc'[u] = pc[u]
  BY DEF OutputFails, LaunchIInv, LaunchTypeOK, middlemanVars, mainVars, Jobs
<1>2. Busy' = Busy BY <1>1 DEF Busy
<1>3. Taken' = Taken \cup {taken} /\ taken \notin Taken BY <1>1 DEF Taken
<1>4. \A j : Queued(j)' <=> Queued(j) BY <1>1 DEF Queued
<1>5. outcome = Unfinished BY <1>1 DEF LaunchIInv, Left
<1>6. taken \notin dropped BY <1>3 DEF LaunchIInv, InOnePlace
<1>7. InOnePlace'
  <2>1. (\A u \in Busy : job[u] \in Taken /\ ~Queued(job[u]) /\ job[u] \notin dropped)'
    BY <1>1, <1>2, <1>3, <1>4 DEF LaunchIInv, InOnePlace
  <2>2. (\A u, w \in Busy : job[u] = job[w] => u = w)'
    BY <1>1, <1>2 DEF LaunchIInv, InOnePlace
  <2>3. (\A j \in Taken : (\E u \in Busy : job[u] = j) \/ Queued(j) \/ j \in dropped)'
    BY <1>1, <1>2, <1>3, <1>4 DEF LaunchIInv, InOnePlace
  <2>4. (dropped \subseteq Taken)' BY <1>1, <1>3 DEF LaunchIInv, InOnePlace
  <2> QED BY <2>1, <2>2, <2>3, <2>4 DEF InOnePlace
<1>8. ResultsHold' BY <1>1, <1>3 DEF LaunchIInv, ResultsHold, IsResult
<1>9. Counted'
  <2>1. IsFiniteSet(dropped) /\ Cardinality(dropped) \in Nat /\ Len(results) \in Nat
    BY DroppedFinite DEF LaunchIInv, LaunchTypeOK
  <2>2. Cardinality(dropped') = Cardinality(dropped) + 1 BY <1>1, <1>6, <2>1, FS_AddElement
  <2>3. Len(results) + Cardinality(Busy) + (Cardinality(dropped) + 1) = taken + 1
    BY <1>1, <2>1, BusyFinite DEF LaunchIInv, Counted
  <2> QED BY <1>1, <1>2, <2>2, <2>3 DEF Counted
<1>10. Left' BY <1>1, <1>5 DEF LaunchIInv, Left, Unfinished
<1>11. OutcomeIsTrue' BY <1>1, <1>5 DEF OutcomeIsTrue, Unfinished
<1> QED BY <1>7, <1>8, <1>9, <1>10, <1>11

\* What a thread has ended with passes from it to the results, or is dropped with it.
LEMMA EndingKeeps ==
    ASSUME LaunchIInv, NEW t \in Threads, NEW c \in {0, 1}, t \in Busy,
           Deliver(t, c) \/ CloseFails(t),
           UNCHANGED <<taken, middleman, status, outcome>>, raised \subseteq raised',
           \/ job[t] \in raised' /\ c = 1
           \/ middleman[job[t]] = "exited" /\ c = ExitCode(status[job[t]])
    PROVE  (InOnePlace /\ ResultsHold /\ Counted /\ Left /\ OutcomeIsTrue)'
<1>1. /\ job[t] \in Jobs /\ job[t] \in Taken /\ outcome = Unfinished
      /\ ~Queued(job[t]) /\ job[t] \notin dropped
  BY BusyJob
<1>2. /\ pc'[t] \in {"idle", "dead"}
      /\ \A u \in Threads : u # t => job'[u] = job[u] /\ pc'[u] = pc[u]
  BY DEF Deliver, CloseFails, LaunchIInv, LaunchTypeOK
<1>3. Busy' = Busy \ {t} /\ Taken' = Taken /\ Busy \subseteq Threads
  BY <1>2 DEF Busy, Taken
<1>4. \A u \in Busy' : job'[u] = job[u] /\ job[u] # job[t]
  BY <1>2, <1>3 DEF LaunchIInv, InOnePlace
<1>5. Cardinality(Busy') = Cardinality(Busy) - 1
  BY <1>3, BusyFinite, FS_RemoveElement
<1>6. /\ IsFiniteSet(dropped) /\ Cardinality(dropped) \in Nat /\ Len(results) \in Nat
      /\ taken \in Nat
      /\ Len(results) + Cardinality(Busy) + Cardinality(dropped) = taken
  BY DroppedFinite, NumProcAssumption DEF LaunchIInv, LaunchTypeOK, Counted
<1>7. CASE Deliver(t, c)
  <2>1. /\ Len(results') = Len(results) + 1
        /\ results'[Len(results) + 1] = [job |-> job[t], exitCode |-> c]
        /\ \A i \in 1..Len(results) : results'[i] = results[i]
        /\ dropped' = dropped /\ pc'[t] = "idle"
    BY <1>1, <1>7 DEF Deliver, LaunchIInv, LaunchTypeOK
  <2>2. \A j : Queued(j)' <=> Queued(j) \/ j = job[t] BY <1>6, <2>1 DEF Queued
  <2>3. InOnePlace'
    <3>1. (\A u \in Busy : job[u] \in Taken /\ ~Queued(job[u]) /\ job[u] \notin dropped)'
      BY <1>3, <1>4, <2>1, <2>2 DEF LaunchIInv, InOnePlace
    <3>2. (\A u, w \in Busy : job[u] = job[w] => u = w)'
      BY <1>3, <1>4 DEF LaunchIInv, InOnePlace
    <3>3. (\A j \in Taken : (\E u \in Busy : job[u] = j) \/ Queued(j) \/ j \in dropped)'
      BY <1>2, <1>3, <2>1, <2>2 DEF LaunchIInv, InOnePlace
    <3>4. (dropped \subseteq Taken)' BY <1>3, <2>1 DEF LaunchIInv, InOnePlace
    <3> QED BY <3>1, <3>2, <3>3, <3>4 DEF InOnePlace
  <2>4. ResultsHold'
    <3>1. \A i \in 1..Len(results) : IsResult(results[i]) BY DEF LaunchIInv, ResultsHold
    <3> SUFFICES ASSUME NEW i \in 1..(Len(results) + 1) PROVE IsResult(results[i])'
      BY <2>1 DEF ResultsHold
    <3>2. CASE i \in 1..Len(results)
      <4>1. results'[i] = results[i] /\ IsResult(results[i]) BY <2>1, <3>1, <3>2
      <4> QED BY <1>3, <4>1 DEF IsResult
    <3>3. CASE i = Len(results) + 1
      <4>1. results'[i].job = job[t] /\ results'[i].exitCode = c BY <2>1, <3>3
      <4> QED BY <1>1, <1>3, <4>1 DEF IsResult
    <3> QED BY <1>6, <3>2, <3>3
  <2>5. Counted'
    <3>1. (Len(results) + 1) + (Cardinality(Busy) - 1) + Cardinality(dropped) = taken
      BY <1>6, BusyFinite
    <3> QED BY <1>5, <2>1, <3>1 DEF Counted
  <2>6. Left' BY <1>1, <1>2, <2>1 DEF LaunchIInv, Left, Unfinished
  <2>7. OutcomeIsTrue' BY <1>1 DEF OutcomeIsTrue, Unfinished
  <2> QED BY <2>3, <2>4, <2>5, <2>6, <2>7
<1>8. CASE CloseFails(t)
  <2>1. results' = results /\ dropped' = dropped \cup {job[t]} BY <1>8 DEF CloseFails
  <2>2. \A j : Queued(j)' <=> Queued(j) BY <2>1 DEF Queued
  <2>3. InOnePlace'
    <3>1. (\A u \in Busy : job[u] \in Taken /\ ~Queued(job[u]) /\ job[u] \notin dropped)'
      BY <1>3, <1>4, <2>1, <2>2 DEF LaunchIInv, InOnePlace
    <3>2. (\A u, w \in Busy : job[u] = job[w] => u = w)'
      BY <1>3, <1>4 DEF LaunchIInv, InOnePlace
    <3>3. (\A j \in Taken : (\E u \in Busy : job[u] = j) \/ Queued(j) \/ j \in dropped)'
      BY <1>2, <1>3, <2>1, <2>2 DEF LaunchIInv, InOnePlace
    <3>4. (dropped \subseteq Taken)' BY <1>1, <1>3, <2>1 DEF LaunchIInv, InOnePlace
    <3> QED BY <3>1, <3>2, <3>3, <3>4 DEF InOnePlace
  <2>4. ResultsHold' BY <1>3, <2>1 DEF LaunchIInv, ResultsHold, IsResult
  <2>5. Counted'
    <3>1. Cardinality(dropped') = Cardinality(dropped) + 1 BY <1>1, <1>6, <2>1, FS_AddElement
    <3>2. Len(results) + (Cardinality(Busy) - 1) + (Cardinality(dropped) + 1) = taken
      BY <1>6, BusyFinite
    <3> QED BY <1>5, <2>1, <3>1, <3>2 DEF Counted
  <2>6. Left' BY <1>1, <1>2, <2>1 DEF LaunchIInv, Left, Unfinished
  <2>7. OutcomeIsTrue' BY <1>1 DEF OutcomeIsTrue, Unfinished
  <2> QED BY <2>3, <2>4, <2>5, <2>6, <2>7
<1> QED BY <1>7, <1>8

\* So does what it collects, and an exception that execute raises.
LEMMA CollectKeeps ==
    ASSUME LaunchIInv, NEW t \in Threads, Collect(t) \/ ExecRaises(t)
    PROVE  (InOnePlace /\ ResultsHold /\ Counted /\ Left /\ OutcomeIsTrue)'
<1>1. t \in Busy BY DEF Collect, ExecRaises, Busy
<1>2. job[t] \in Jobs BY <1>1, BusyJob
<1>3. CASE Collect(t)
  <2>1. ExitCode(status[job[t]]) \in {0, 1} BY <1>2, StatusCode DEF LaunchIInv
  <2>2. /\ Deliver(t, ExitCode(status[job[t]])) \/ CloseFails(t)
        /\ UNCHANGED <<taken, middleman, status, outcome, raised>>
        /\ middleman[job[t]] = "exited"
    BY <1>3 DEF Collect, middlemanVars, mainVars
  <2> QED BY <1>1, <2>1, <2>2, EndingKeeps
<1>4. CASE ExecRaises(t)
  <2>1. /\ Deliver(t, 1) \/ CloseFails(t)
        /\ UNCHANGED <<taken, middleman, status, outcome>>
        /\ raised \subseteq raised' /\ job[t] \in raised'
    BY <1>4 DEF ExecRaises, middlemanVars, mainVars
  <2> QED BY <1>1, <2>1, EndingKeeps
<1> QED BY <1>3, <1>4

\* A thread leaves when there is nothing more to take.
LEMMA LeaveKeeps ==
    ASSUME LaunchIInv, NEW t \in Threads, Leave(t)
    PROVE  (InOnePlace /\ ResultsHold /\ Counted /\ Left /\ OutcomeIsTrue)'
<1>1. /\ UNCHANGED <<taken, job, middleman, status, results, raised, dropped, outcome>>
      /\ taken = NumProc /\ pc[t] = "idle" /\ pc'[t] = "done"
      /\ \A u \in Threads : u # t => pc'[u] = pc[u]
  BY DEF Leave, LaunchIInv, LaunchTypeOK, middlemanVars, mainVars
<1>2. Busy' = Busy /\ Taken' = Taken BY <1>1 DEF Busy, Taken
<1>3. \A j : Queued(j)' <=> Queued(j) BY <1>1 DEF Queued
<1>4. InOnePlace' BY <1>1, <1>2, <1>3 DEF LaunchIInv, InOnePlace
<1>5. ResultsHold' BY <1>1, <1>2 DEF LaunchIInv, ResultsHold, IsResult
<1>6. Counted' BY <1>1, <1>2 DEF LaunchIInv, Counted
<1>7. Left' /\ OutcomeIsTrue'
  BY <1>1 DEF LaunchIInv, Left, OutcomeIsTrue, Unfinished
<1> QED BY <1>4, <1>5, <1>6, <1>7

\* The launcher says the truth: it has all the results, or there is a dropped command.
LEMMA FinishKeeps ==
    ASSUME LaunchIInv, Finish
    PROVE  (InOnePlace /\ ResultsHold /\ Counted /\ Left /\ OutcomeIsTrue)'
<1>1. /\ UNCHANGED <<taken, job, pc, middleman, status, results, raised, dropped>>
      /\ \A t \in Threads : pc[t] \in {"done", "dead"}
  BY DEF Finish, threadVars, middlemanVars
<1>2. /\ Len(results) = NumProc <=> dropped = {}
      /\ dropped = {} => \A j \in Jobs : Queued(j)
  BY <1>1, AllResults
<1>3. Busy' = Busy /\ Taken' = Taken BY <1>1 DEF Busy, Taken
<1>4. \A j : Queued(j)' <=> Queued(j) BY <1>1 DEF Queued
<1>5. InOnePlace' BY <1>1, <1>3, <1>4 DEF LaunchIInv, InOnePlace
<1>6. ResultsHold' BY <1>1, <1>3 DEF LaunchIInv, ResultsHold, IsResult
<1>7. Counted' BY <1>1, <1>3 DEF LaunchIInv, Counted
<1>8. CASE Len(results) # NumProc
  <2>1. outcome' = [state |-> "incomplete", job |-> NoJob] /\ dropped # {}
    BY <1>2, <1>8 DEF Finish
  <2>2. Left' BY <1>1, <2>1 DEF LaunchIInv, Left
  <2>3. OutcomeIsTrue' BY <1>1, <2>1 DEF OutcomeIsTrue
  <2> QED BY <1>5, <1>6, <1>7, <2>2, <2>3
<1>9. CASE Len(results) = NumProc
  <2>1. dropped = {} /\ \A j \in Jobs : Queued(j) BY <1>2, <1>9
  <2>2. \A i \in 1..NumProc : /\ results[i].job \in Jobs /\ IsResult(results[i])
    BY <1>9, ResultTypes DEF LaunchIInv, ResultsHold
  <2>3. CASE /\ \A i \in 1..NumProc : results[i].exitCode = 0
             /\ outcome' = [state |-> "ok", job |-> NoJob]
    <3>1. ASSUME NEW j \in Jobs
          PROVE  middleman[j] = "exited" /\ status[j] \in {Exited(0), Killed}
      <4>1. PICK i \in 1..NumProc : results[i].job = j BY <1>9, <2>1 DEF Queued
      <4>2. IsResult(results[i]) /\ results[i].exitCode = 0 BY <2>2, <2>3
      <4>3. middleman[j] = "exited" /\ ExitCode(status[j]) = 0
        BY <4>1, <4>2 DEF IsResult
      <4> QED BY <4>3, StatusCode DEF LaunchIInv
    <3>2. Left' BY <1>1, <2>3 DEF LaunchIInv, Left
    <3>3. OutcomeIsTrue' BY <1>1, <2>1, <2>3, <3>1 DEF OutcomeIsTrue
    <3> QED BY <1>5, <1>6, <1>7, <3>2, <3>3
  <2>4. CASE \E i \in 1..NumProc :
                /\ results[i].exitCode # 0
                /\ outcome' = [state |-> "failed", job |-> results[i].job]
    <3>1. PICK i \in 1..NumProc :
                /\ results[i].exitCode # 0
                /\ outcome' = [state |-> "failed", job |-> results[i].job]
      BY <2>4
    <3> DEFINE j == results[i].job
    <3>2. j \in Jobs /\ IsResult(results[i]) BY <2>2
    <3>3. \/ j \in raised
          \/ middleman[j] = "exited" /\ status[j] \notin {Exited(0), Killed}
      BY <3>1, <3>2, StatusCode DEF IsResult, LaunchIInv
    <3>4. Left' BY <1>1, <3>1, <3>2 DEF LaunchIInv, Left
    <3>5. OutcomeIsTrue' BY <1>1, <2>1, <3>1, <3>3 DEF OutcomeIsTrue
    <3> QED BY <1>5, <1>6, <1>7, <3>4, <3>5
  <2> QED BY <1>9, <2>3, <2>4 DEF Finish
<1> QED BY <1>8, <1>9

\* Every step keeps the invariant.
LEMMA LaunchStep == LaunchIInv /\ [LaunchNext]_launchVars => LaunchIInv'
<1> SUFFICES ASSUME LaunchIInv, [LaunchNext]_launchVars PROVE LaunchIInv' OBVIOUS
<1> DEFINE Rest == InOnePlace /\ ResultsHold /\ Counted /\ Left /\ OutcomeIsTrue
<1>1. ASSUME NEW t \in Threads, ThreadStep(t) PROVE Rest'
  BY <1>1, BusyGoesOn, TakeKeeps, OutputFailsKeeps, CollectKeeps, LeaveKeeps DEF ThreadStep
<1>2. ASSUME Finish PROVE Rest' BY <1>2, FinishKeeps
<1>3. ASSUME NEW j \in Jobs, Warn(j) \/ Watch(j) \/ SeeDeath(j) \/ ShellEnds(j) PROVE Rest'
  <2>1. UNCHANGED <<threadVars, outcome, status>>
    BY <1>3 DEF Warn, Watch, SeeDeath, ShellEnds, mainVars
  <2>2. \A k \in Jobs : middleman[k] = "exited" => middleman'[k] = "exited"
    BY <1>3 DEF Warn, Watch, SeeDeath, ShellEnds, LaunchIInv, LaunchTypeOK
  <2> QED BY <2>1, <2>2, OthersKeep
<1>4. ASSUME NEW j \in Jobs, (\E c \in {0, 1} : End(j, c)) \/ Kill(j) PROVE Rest'
  <2>1. UNCHANGED <<threadVars, outcome>> BY <1>4 DEF End, Kill, mainVars
  <2>2. middleman[j] # "exited" BY <1>4 DEF End, Kill, Living
  <2>3. \A k \in Jobs : middleman[k] = "exited" =>
            middleman'[k] = "exited" /\ status'[k] = status[k]
    BY <1>4, <2>2 DEF End, Kill, LaunchIInv, LaunchTypeOK
  <2> QED BY <2>1, <2>3, OthersKeep
<1>5. ASSUME Interrupt \/ Die \/ UNCHANGED launchVars PROVE Rest'
  <2>1. UNCHANGED <<threadVars, outcome, middleman, status>>
    BY <1>5 DEF Interrupt, Die, launchVars, middlemanVars, mainVars
  <2> QED BY <2>1, OthersKeep
<1>6. Rest' BY <1>1, <1>2, <1>3, <1>4, <1>5 DEF LaunchNext
<1>7. LaunchTypeOK' BY TypesKept
<1> QED BY <1>6, <1>7 DEF LaunchIInv

\* The state is of its type.
THEOREM LaunchTypes == LaunchSpec => []LaunchTypeOK
<1>1. LaunchIInv => LaunchTypeOK BY DEF LaunchIInv
<1> QED BY LaunchInitially, LaunchStep, <1>1, PTL DEF LaunchSpec

\* horovodrun succeeds only if every command has ended, with 0 or with its middleman
\* killed by a signal; it reports as the one that failed a command that has ended
\* otherwise or for which execute has raised an exception; and it misses results
\* exactly when a thread has died on the output files of its command.
THEOREM OutcomeAlwaysTrue == LaunchSpec => []OutcomeIsTrue
<1>1. LaunchIInv => OutcomeIsTrue BY DEF LaunchIInv
<1> QED BY LaunchInitially, LaunchStep, <1>1, PTL DEF LaunchSpec

-----------------------------------------------------------------------------
(* With a single thread nobody is kept from seeing that horovodrun has died: *)
(* it is threads that fork at the same time who mix up the death pipes.      *)

NeverCrossed == \A S \in SUBSET Jobs : ~Crossed(S)

\* The middlemen that hold a death pipe belong to later commands.
LaterHold == \A k \in Jobs : \A j \in deathHeld[k] : k < j

OneByOne == LaterHold /\ \A t \in Busy : job[t] = taken - 1

LEMMA LaterHoldNotCrossed ==
    ASSUME LaunchIInv, LaterHold
    PROVE  NeverCrossed
<1> SUFFICES ASSUME NEW S \in SUBSET Jobs, Crossed(S) PROVE FALSE
  BY DEF NeverCrossed
<1> DEFINE Back == {NumProc - j : j \in S}
<1>1. Back \subseteq Nat /\ Back # {}
  <2>1. \A j \in S : NumProc - j \in Nat BY NumProcAssumption DEF Jobs
  <2>2. PICK j \in S : TRUE BY DEF Crossed
  <2>3. NumProc - j \in Back BY <2>2
  <2> QED BY <2>1, <2>3
<1>2. PICK n \in Back : \A m \in Back : n <= m
  <2> DEFINE Less == OpToRel(<, Nat)
  <2>1. \A m, k \in Nat : m < k => <<m, k>> \in Less BY DEF OpToRel
  <2> HIDE DEF Less, Back
  <2>2. IsWellFoundedOn(Less, Nat) BY NatLessThanWellFounded DEF Less
  <2>3. \E n \in Back : \A m \in Back : <<m, n>> \notin Less BY <1>1, <2>2, WFMin
  <2>4. PICK n \in Back : \A m \in Back : <<m, n>> \notin Less BY <2>3
  <2>5. \A m \in Back : m \in Nat /\ n \in Nat /\ ~(m < n) BY <1>1, <2>1, <2>4
  <2>6. \A m \in Back : n <= m BY <2>5
  <2> QED BY <2>6
<1>3. PICK j \in S : n = NumProc - j BY <1>2
<1>4. PICK k \in S : k \in deathHeld[j] BY DEF Crossed
<1>5. j < k /\ NumProc - k \in Back BY <1>4 DEF LaterHold
<1> QED BY <1>2, <1>3, <1>5, NumProcAssumption DEF Jobs

LEMMA OneByOneKept ==
    ASSUME MaxConcurrent = 1, LaunchIInv, OneByOne, [LaunchNext]_launchVars
    PROVE  OneByOne'
<1> USE DEF threadVars, middlemanVars
<1>1. Threads = {1}
  BY NumProcAssumption DEF Threads, NumThreads
<1>2. CASE \E t \in Threads : Take(t)
  <2>1. Take(1) BY <1>1, <1>2
  <2>2. UNCHANGED deathHeld /\ taken' = taken + 1 /\ job'[1] = taken
    BY <1>1, <2>1 DEF Take, LaunchIInv, LaunchTypeOK
  <2>3. taken \in Nat BY NumProcAssumption DEF LaunchIInv, LaunchTypeOK
  <2> QED BY <1>1, <2>2, <2>3 DEF OneByOne, LaterHold, Busy
<1>3. CASE \E t \in Threads : Fork(t)
  <2>1. Fork(1) /\ 1 \in Busy BY <1>1, <1>3 DEF Fork, Busy
  <2>2. job[1] = taken - 1 /\ UNCHANGED <<job, taken>> BY <2>1 DEF Fork, OneByOne
  <2>3. \A k \in Jobs : \A j \in deathHeld'[k] :
            j \in deathHeld[k] \/ (j = job[1] /\ k < taken /\ k # job[1])
    BY <2>1 DEF Fork, LaunchIInv, LaunchTypeOK
  <2>4. LaterHold'
    BY <2>2, <2>3, NumProcAssumption DEF OneByOne, LaterHold, Jobs, LaunchIInv, LaunchTypeOK
  <2> QED BY <1>1, <2>2, <2>4 DEF OneByOne, Busy
<1>4. CASE \E t \in Threads : Leave(t) \/ CloseOutput(t) \/ Collect(t) \/ ExecRaises(t)
  <2>1. UNCHANGED <<deathHeld, taken>>
    BY <1>4 DEF Leave, CloseOutput, Collect, ExecRaises
  <2>2. \A t \in Busy' : t \in Busy /\ job'[t] = job[t]
    BY <1>1, <1>4 DEF Leave, CloseOutput, Collect, ExecRaises, Deliver, CloseFails, Busy,
                      LaunchIInv, LaunchTypeOK
  <2> QED BY <2>1, <2>2 DEF OneByOne, LaterHold
<1>5. CASE \E t \in Threads : OutputFails(t)
  <2>1. OutputFails(1) BY <1>1, <1>5
  <2>2. UNCHANGED deathHeld /\ Busy' = {}
    BY <1>1, <2>1 DEF OutputFails, Busy, LaunchIInv, LaunchTypeOK
  <2> QED BY <2>2 DEF OneByOne, LaterHold
<1>6. CASE \E j \in Jobs : (\E c \in {0, 1} : End(j, c)) \/ Kill(j)
  <2>1. UNCHANGED <<pc, job, taken>> BY <1>6 DEF End, Kill
  <2>2. \A k \in Jobs : deathHeld'[k] \subseteq deathHeld[k] BY <1>6 DEF End, Kill, Without
  <2> QED BY <2>1, <2>2 DEF OneByOne, LaterHold, Busy
<1>7. CASE (\E j \in Jobs : Warn(j) \/ Watch(j) \/ SeeDeath(j) \/ ShellEnds(j))
           \/ Finish \/ Interrupt \/ Die \/ UNCHANGED launchVars
  <2>1. UNCHANGED <<pc, job, taken, deathHeld>>
    BY <1>7 DEF Warn, Watch, SeeDeath, ShellEnds, Finish, Interrupt, Die, launchVars
  <2> QED BY <2>1 DEF OneByOne, LaterHold, Busy
<1> QED BY <1>2, <1>3, <1>4, <1>5, <1>6, <1>7 DEF LaunchNext, ThreadStep

\* When the commands are started by one thread, there are never middlemen that keep
\* the death pipes of one another open, for any number of commands.
THEOREM OneThreadNeverCrosses == MaxConcurrent = 1 /\ LaunchSpec => []NeverCrossed
<1> SUFFICES ASSUME MaxConcurrent = 1 PROVE LaunchSpec => []NeverCrossed OBVIOUS
<1>1. LaunchInit => LaunchIInv /\ OneByOne
  BY LaunchInitially DEF LaunchInit, OneByOne, LaterHold, Busy
<1>2. LaunchIInv /\ OneByOne /\ [LaunchNext]_launchVars => (LaunchIInv /\ OneByOne)'
  BY LaunchStep, OneByOneKept
<1>3. LaunchIInv /\ OneByOne => NeverCrossed BY LaterHoldNotCrossed DEF OneByOne
<1> QED BY <1>1, <1>2, <1>3, PTL DEF LaunchSpec

-----------------------------------------------------------------------------
(* Rendezvous                                                              *)

Keys(s) == {Key(plan, r, s) : r \in Members(plan, s)}

Complete(s) == 0..(ScopeSize(plan, s) - 1) \subseteq store[s]

\* A client gives up at the last attempt and starts with none.
TriesLeft == \A r \in Ranks : doing[r] # "too many tries" => tries[r] < MaxTries

\* Who is about to say that it has finished knows all addresses.
DeleteWhenKnown == \A r \in Ranks : scope[r] \in 1..3 /\ doing[r] = "delete" => Complete(Here(r))

\* Nobody has finished with "global", so that the server goes on.
ServesOn == server # "closed" /\ finished[<<"global", 0>>] = <<>>

RendezvousIInv ==
    RendezvousTypeOK /\ TriesLeft /\ DeleteWhenKnown /\ FinishedWhenKnown /\ ServesOn

-----------------------------------------------------------------------------
\* The scopes of a worker are scopes of the store, not "global", and it is a
\* member of them.
LEMMA HereIsScope ==
    ASSUME NEW r \in Ranks, scope[r] \in 1..3
    PROVE  /\ Here(r) \in Scopes(plan) /\ Here(r) # <<"global", 0>>
           /\ r \in Members(plan, Here(r)) /\ HereKey(r) \in Keys(Here(r))
<1>1. CASE scope[r] = 1
  BY <1>1 DEF Here, HereKey, Keys, ScopesOf, Scopes, Members
<1>2. CASE scope[r] = 2
  BY <1>2 DEF Here, HereKey, Keys, ScopesOf, Scopes, PartScopes, Members
<1>3. CASE scope[r] = 3
  BY <1>3 DEF Here, HereKey, Keys, ScopesOf, Scopes, PartScopes, Members
<1> QED BY <1>1, <1>2, <1>3

\* The server goes on as long as nobody has finished with "global".
LEMMA GlobalIsMissed ==
    ASSUME NEW list, list[<<"global", 0>>] = <<>>
    PROVE  ShouldContinue(list)
<1> DEFINE s == <<"global", 0>>
<1>1. IsFiniteSet(Ranks) /\ Cardinality(Ranks) = NumProc
  BY NumProcAssumption, FS_Interval DEF Ranks
<1>2. ScopeSize(plan, s) = NumProc BY <1>1 DEF ScopeSize, Members
<1>3. Len(list[s]) = 0 OBVIOUS
<1>4. ScopeSize(plan, s) > Len(list[s]) BY <1>2, <1>3, NumProcAssumption
<1> QED BY <1>4 DEF ShouldContinue, SizedScopes

-----------------------------------------------------------------------------
\* The initial state satisfies the invariant.
LEMMA RendezvousInitially == RendezvousInit => RendezvousIInv
<1> SUFFICES ASSUME RendezvousInit PROVE RendezvousIInv OBVIOUS
<1>1. /\ server \in {"none", "open"}
      /\ store = [s \in Scopes(plan) |-> {}]
      /\ finished = [s \in Scopes(plan) \cup SizedScopes(plan) |-> <<>>]
      /\ scope = [r \in Ranks |-> 1]
      /\ doing = [r \in Ranks |-> Create(plan, r, 1)]
      /\ tries = [r \in Ranks |-> 0] /\ lost = 0
  BY DEF RendezvousInit
<1>2. /\ \A s \in Scopes(plan) : store[s] = {}
      /\ \A s \in Scopes(plan) \cup SizedScopes(plan) : finished[s] = <<>>
  BY <1>1
<1>3. DOMAIN store = Scopes(plan) /\ DOMAIN finished = Scopes(plan) \cup SizedScopes(plan)
  BY <1>1
<1>4. \A S : <<>> \in Seq(S) OBVIOUS
<1>5. \A r \in Ranks : doing[r] \in {"put", "bad rank"} BY <1>1 DEF Create
<1>6. doing \in [Ranks -> {"none", "put", "get", "delete"} \cup Failures]
  BY <1>1, <1>5 DEF Failures
<1>7. RendezvousTypeOK BY <1>1, <1>2, <1>3, <1>4, <1>6, RetryAssumption DEF RendezvousTypeOK
<1>8. TriesLeft
  <2>1. 0 < MaxTries BY RetryAssumption
  <2>2. ASSUME NEW r \in Ranks PROVE tries[r] < MaxTries BY <1>1, <2>1
  <2> QED BY <2>2, Zenon DEF TriesLeft
<1>9. DeleteWhenKnown
  <2>1. ASSUME NEW r \in Ranks PROVE doing[r] # "delete" BY <1>5
  <2> QED BY <2>1, Zenon DEF DeleteWhenKnown
<1>10. <<"global", 0>> \in SizedScopes(plan) BY DEF SizedScopes
<1>11. FinishedWhenKnown /\ ServesOn BY <1>1, <1>2, <1>10 DEF FinishedWhenKnown, ServesOn
<1> QED BY <1>7, <1>8, <1>9, <1>11 DEF RendezvousIInv

\* The part of the invariant that is about the server.
ServerPart ==
    /\ server \in {"none", "open", "closed"}
    /\ DOMAIN store = Scopes(plan) /\ DOMAIN finished = Scopes(plan) \cup SizedScopes(plan)
    /\ \A s \in Scopes(plan) : store[s] \subseteq Keys(s)
    /\ \A s \in DOMAIN finished : finished[s] \in Seq(Keys(s))
    /\ FinishedWhenKnown
    /\ ServesOn

\* The part that is about the workers.
WorkerPart ==
    /\ scope \in [Ranks -> 1..4]
    /\ doing \in [Ranks -> {"none", "put", "get", "delete"} \cup Failures]
    /\ tries \in [Ranks -> 0..MaxTries]
    /\ lost \in 0..MaxLost
    /\ TriesLeft

LEMMA Parts == RendezvousIInv <=> ServerPart /\ WorkerPart /\ DeleteWhenKnown
BY DEF RendezvousIInv, RendezvousTypeOK, ServerPart, WorkerPart, Keys

\* What a request does to the server: nothing is taken out of the store, and a
\* DELETE comes from a worker that knows all addresses.
LEMMA HandleKeeps ==
    ASSUME RendezvousIInv, UNCHANGED plan, NEW r \in Ranks, ~HasAll(r), Handle(r)
    PROVE  /\ ServerPart'
           /\ \A s \in Scopes(plan) : store[s] \subseteq store'[s]
<1> USE DEF RendezvousIInv
<1>0. ServerPart BY Parts
<1>1. scope[r] \in 1..3 BY DEF RendezvousTypeOK, HasAll
<1>2. /\ Here(r) \in Scopes(plan) /\ HereKey(r) \in Keys(Here(r))
      /\ Here(r) # <<"global", 0>>
  BY <1>1, HereIsScope
<1>3. /\ Scopes(plan)' = Scopes(plan) /\ SizedScopes(plan)' = SizedScopes(plan)
      /\ \A s : Keys(s)' = Keys(s) /\ ScopeSize(plan, s)' = ScopeSize(plan, s)
  BY DEF Keys
<1>4. /\ DOMAIN store' = Scopes(plan)
      /\ \A s \in Scopes(plan) : store'[s] \subseteq Keys(s) /\ store[s] \subseteq store'[s]
  BY <1>0, <1>2 DEF Handle, ServerPart
<1>5. /\ DOMAIN finished' = DOMAIN finished
      /\ \A s \in DOMAIN finished : s # Here(r) => finished'[s] = finished[s]
      /\ doing[r] # "delete" => finished' = finished
      /\ finished'[Here(r)] \in {finished[Here(r)], Append(finished[Here(r)], HereKey(r))}
  BY <1>0, <1>2 DEF Handle, ServerPart
<1>6. ASSUME NEW s \in DOMAIN finished PROVE finished'[s] \in Seq(Keys(s))
  <2>1. finished[s] \in Seq(Keys(s)) BY <1>0 DEF ServerPart
  <2>2. CASE s = Here(r)
    <3>1. Append(finished[s], HereKey(r)) \in Seq(Keys(s)) BY <1>2, <2>1, <2>2
    <3> QED BY <1>5, <2>1, <2>2, <3>1
  <2>3. CASE s # Here(r) BY <1>5, <2>1, <2>3
  <2> QED BY <2>2, <2>3
<1>7. FinishedWhenKnown'
  <2> SUFFICES ASSUME NEW s \in Scopes(plan), finished'[s] # <<>>
               PROVE  0..(ScopeSize(plan, s) - 1) \subseteq store'[s]
    BY <1>3 DEF FinishedWhenKnown
  <2>1. s \in DOMAIN finished BY <1>0 DEF ServerPart
  <2>2. CASE finished'[s] = finished[s]
    BY <1>0, <1>4, <2>2 DEF ServerPart, FinishedWhenKnown
  <2>3. CASE finished'[s] # finished[s]
    <3>1. s = Here(r) /\ doing[r] = "delete" BY <1>5, <2>1, <2>3
    <3>2. Complete(s) BY <1>1, <3>1 DEF DeleteWhenKnown
    <3> QED BY <1>4, <3>2 DEF Complete
  <2> QED BY <2>2, <2>3
<1>8. finished'[<<"global", 0>>] = <<>>
  <2>1. <<"global", 0>> \in DOMAIN finished BY <1>0 DEF ServerPart, SizedScopes
  <2> QED BY <1>0, <1>2, <1>5, <2>1 DEF ServerPart, ServesOn
<1>9. server' = "open"
  <2>1. ShouldContinue(finished') BY <1>8, GlobalIsMissed
  <2> QED BY <2>1 DEF Handle, ServerAfter
<1>10. ServesOn' BY <1>8, <1>9 DEF ServesOn
<1> QED BY <1>0, <1>3, <1>4, <1>5, <1>6, <1>7, <1>9, <1>10 DEF ServerPart

\* Every step keeps the part about the server, and what is in the store.
LEMMA ServerKept ==
    ASSUME RendezvousIInv, [RendezvousNext]_rendezvousVars
    PROVE  /\ ServerPart' /\ UNCHANGED plan
           /\ \A s \in Scopes(plan) : store[s] \subseteq store'[s]
<1>1. ServerPart BY Parts
<1>2. ASSUME UNCHANGED <<plan, server, store, finished>>
      PROVE  ServerPart' /\ \A s \in Scopes(plan) : store[s] \subseteq store'[s]
  <2>1. \A s : Keys(s)' = Keys(s) BY <1>2 DEF Keys
  <2>2. FinishedWhenKnown' /\ ServesOn'
    BY <1>1, <1>2 DEF ServerPart, FinishedWhenKnown, ServesOn
  <2> QED BY <1>1, <1>2, <2>1, <2>2 DEF ServerPart
<1>3. ASSUME NEW r \in Ranks, Lose(r)
      PROVE  /\ ServerPart' /\ UNCHANGED plan
             /\ \A s \in Scopes(plan) : store[s] \subseteq store'[s]
  <2>1. UNCHANGED plan /\ ~HasAll(r) BY <1>3 DEF Lose
  <2>2. Handle(r) \/ UNCHANGED <<server, store, finished>> BY <1>3 DEF Lose
  <2> QED BY <1>2, <2>1, <2>2, HandleKeeps
<1>4. ASSUME NEW r \in Ranks, Exchange(r)
      PROVE  /\ ServerPart' /\ UNCHANGED plan
             /\ \A s \in Scopes(plan) : store[s] \subseteq store'[s]
  BY <1>4, HandleKeeps DEF Exchange
<1>5. ASSUME NEW r \in Ranks, AskAgain(r) \/ WaitTimesOut(r)
      PROVE  UNCHANGED <<plan, server, store, finished>>
  BY <1>5 DEF AskAgain, WaitTimesOut, rendezvousVars
<1>6. ASSUME RendezvousOver \/ UNCHANGED rendezvousVars
      PROVE  UNCHANGED <<plan, server, store, finished>>
  BY <1>6 DEF RendezvousOver, rendezvousVars
<1> QED BY <1>2, <1>3, <1>4, <1>5, <1>6 DEF RendezvousNext

\* Every step keeps the part about the workers.
LEMMA WorkersKept ==
    ASSUME RendezvousIInv, [RendezvousNext]_rendezvousVars
    PROVE  WorkerPart'
<1>1. WorkerPart BY Parts
<1>10. /\ scope \in [Ranks -> 1..4] /\ tries \in [Ranks -> 0..MaxTries]
       /\ lost \in 0..MaxLost /\ MaxLost \in Nat /\ MaxTries \in Nat
  BY <1>1, RetryAssumption DEF WorkerPart
<1>11. \A r \in Ranks : doing[r] # "too many tries" => tries[r] < MaxTries
  BY <1>1 DEF WorkerPart, TriesLeft
<1>12. MaxTries > 0 BY RetryAssumption
<1> USE DEF WorkerPart, TriesLeft, Failures, HasAll
<1>3. ASSUME NEW r \in Ranks, Exchange(r) PROVE WorkerPart'
  <2>1. \A k : Create(plan, r, k) \in {"put", "bad rank"} BY DEF Create
  <2>2. /\ doing'[r] \in {"get", "delete", "put", "bad rank", "none"} /\ DOMAIN doing' = Ranks
        /\ \A q \in Ranks : q # r => doing'[q] = doing[q]
    BY <1>1, <1>3, <2>1 DEF Exchange
  <2>3. scope' \in [Ranks -> 1..4]
    <3>1. scope[r] \in 1..4 /\ scope[r] # 4 BY <1>3, <1>10 DEF Exchange
    <3>3. scope[r] + 1 \in 1..4 BY <3>1
    <3>2. scope' \in {scope, [scope EXCEPT ![r] = scope[r] + 1]} BY <1>3 DEF Exchange
    <3> QED BY <1>10, <3>2, <3>3
  <2>4. tries' \in [Ranks -> 0..MaxTries] /\ tries'[r] = 0
        /\ \A q \in Ranks : q # r => tries'[q] = tries[q]
    <3>1. tries' = [tries EXCEPT ![r] = 0] BY <1>3 DEF Exchange
    <3>2. 0 \in 0..MaxTries BY <1>10
    <3> QED BY <1>10, <3>1, <3>2
  <2>5. doing' \in [Ranks -> {"none", "put", "get", "delete"} \cup Failures]
    BY <1>1, <2>2, <1>3 DEF Exchange
  <2>6. UNCHANGED lost BY <1>3 DEF Exchange
  <2>7. TriesLeft' BY <1>11, <1>12, <2>2, <2>4
  <2> QED BY <1>1, <2>3, <2>4, <2>5, <2>6, <2>7
<1>4. ASSUME NEW r \in Ranks, Lose(r) PROVE WorkerPart'
  <2>2. /\ lost' \in 0..MaxLost /\ UNCHANGED scope
        /\ doing[r] \in {"put", "get", "delete"}
    <3>1. /\ lost' = lost + 1 /\ lost < MaxLost /\ UNCHANGED scope
          /\ doing[r] \in {"put", "get", "delete"}
      BY <1>4 DEF Lose
    <3> QED BY <1>10, <3>1
  <2>3. /\ tries' = [tries EXCEPT ![r] = @ + 1]
        /\ doing' = IF tries[r] + 1 = MaxTries
                    THEN [doing EXCEPT ![r] = "too many tries"] ELSE doing
    BY <1>4 DEF Lose, FailedAttempt
  <2>4. tries[r] \in 0..MaxTries /\ tries[r] < MaxTries BY <1>1, <2>2
  <2>5. tries' \in [Ranks -> 0..MaxTries]
    <3>1. tries[r] + 1 \in 0..MaxTries BY <1>10, <2>4
    <3> QED BY <1>1, <2>3, <3>1
  <2>6. doing' \in [Ranks -> {"none", "put", "get", "delete"} \cup Failures]
    BY <1>1, <2>3
  <2>7. TriesLeft'
    <3>1. \A q \in Ranks : q # r => tries'[q] = tries[q] /\ doing'[q] = doing[q]
      BY <1>1, <2>3
    <3>2. tries'[r] = tries[r] + 1 /\ (tries[r] + 1 = MaxTries => doing'[r] = "too many tries")
      BY <1>1, <2>3
    <3>3. tries[r] + 1 # MaxTries => tries[r] + 1 < MaxTries BY <1>10, <2>4
    <3> QED BY <1>11, <3>1, <3>2, <3>3
  <2> QED BY <1>1, <2>2, <2>5, <2>6, <2>7
<1>5. ASSUME NEW r \in Ranks, AskAgain(r) PROVE WorkerPart'
  BY <1>1, <1>5 DEF AskAgain, rendezvousVars
<1>6. ASSUME NEW r \in Ranks, WaitTimesOut(r) PROVE WorkerPart'
  BY <1>1, <1>6 DEF WaitTimesOut
<1>7. ASSUME RendezvousOver \/ UNCHANGED rendezvousVars PROVE WorkerPart'
  BY <1>1, <1>7 DEF RendezvousOver, rendezvousVars
<1> QED BY <1>3, <1>4, <1>5, <1>6, <1>7 DEF RendezvousNext

\* A worker comes to its DELETE only when it knows the addresses, and these stay.
LEMMA DeletesKept ==
    ASSUME RendezvousIInv, [RendezvousNext]_rendezvousVars
    PROVE  DeleteWhenKnown'
<1>1. UNCHANGED plan /\ \A s \in Scopes(plan) : store[s] \subseteq store'[s] BY ServerKept
<1>2. WorkerPart BY Parts
<1> SUFFICES ASSUME NEW q \in Ranks, scope'[q] \in 1..3, doing'[q] = "delete"
             PROVE  Complete(Here(q))'
  BY DEF DeleteWhenKnown
<1>3. ASSUME scope'[q] = scope[q], Complete(Here(q)) PROVE Complete(Here(q))'
  <2>1. Here(q)' = Here(q) /\ Here(q) \in Scopes(plan) BY <1>1, <1>3, HereIsScope DEF Here
  <2> QED BY <1>1, <1>3, <2>1 DEF Complete
<1>4. ASSUME scope'[q] = scope[q], doing[q] = "delete" PROVE Complete(Here(q))'
  <2>1. Complete(Here(q)) BY <1>4 DEF RendezvousIInv, DeleteWhenKnown
  <2> QED BY <1>3, <1>4, <2>1
<1>5. ASSUME NEW r \in Ranks, Exchange(r) PROVE Complete(Here(q))'
  <2>1. CASE q # r BY <1>2, <1>4, <1>5, <2>1 DEF Exchange, WorkerPart
  <2>2. CASE q = r
    <3>1. doing[q] = "get" BY <1>2, <1>5, <2>2 DEF Exchange, WorkerPart, Create
    <3>2. scope'[q] = scope[q] /\ AddressesKnown(q) BY <1>5, <2>2, <3>1 DEF Exchange
    <3> QED BY <1>3, <3>2 DEF AddressesKnown, Complete
  <2> QED BY <2>1, <2>2
<1>6. ASSUME NEW r \in Ranks, Lose(r) \/ AskAgain(r) \/ WaitTimesOut(r)
      PROVE  Complete(Here(q))'
  <2>1. scope'[q] = scope[q] /\ doing[q] = "delete"
    BY <1>2, <1>6 DEF Lose, FailedAttempt, AskAgain, WaitTimesOut, rendezvousVars, WorkerPart
  <2> QED BY <1>4, <2>1
<1>7. ASSUME RendezvousOver \/ UNCHANGED rendezvousVars PROVE Complete(Here(q))'
  BY <1>4, <1>7 DEF RendezvousOver, rendezvousVars
<1> QED BY <1>5, <1>6, <1>7 DEF RendezvousNext

\* Together: the invariant is inductive.
LEMMA InvariantKept ==
    ASSUME RendezvousIInv, [RendezvousNext]_rendezvousVars
    PROVE  RendezvousIInv'
<1> SUFFICES (ServerPart /\ WorkerPart /\ DeleteWhenKnown)'
  BY DEF RendezvousIInv, RendezvousTypeOK, ServerPart, WorkerPart, Keys
<1> QED BY ServerKept, WorkersKept, DeletesKept

\* The server never stops, whatever is repeated, and no worker says that it has
\* finished with a scope before all members of the scope have told their address.
THEOREM ServerNeverCloses == RendezvousSpec => []RendezvousInv
<1>1. RendezvousIInv /\ [RendezvousNext]_rendezvousVars => RendezvousIInv'
  BY InvariantKept
<1>2. RendezvousIInv => RendezvousInv
  BY DEF RendezvousInv, RendezvousIInv, ServesOn
<1> QED BY RendezvousInitially, <1>1, <1>2, PTL DEF RendezvousSpec

-----------------------------------------------------------------------------
(* Which ranks meet in a scope.                                            *)

\* A finite set of numbers that has with a number all smaller ones.
LEMMA FromZero ==
    ASSUME NEW S \in SUBSET Nat, IsFiniteSet(S), \A k \in S : k > 0 => k - 1 \in S
    PROVE  S = 0 .. Cardinality(S) - 1
<1> DEFINE c == Cardinality(S)
           D == {k \in Nat : k \in S => 0 .. k \subseteq S}
<1>1. c \in Nat BY FS_CardinalityType
<1>2. Nat \subseteq D
  <2>1. 0 \in D OBVIOUS
  <2>2. ASSUME NEW k \in Nat, k \in D PROVE k + 1 \in D
    <3> SUFFICES ASSUME k + 1 \in S, NEW x \in 0 .. k + 1 PROVE x \in S
      OBVIOUS
    <3>1. k \in S
      <4>1. k + 1 > 0 /\ (k + 1) - 1 = k OBVIOUS
      <4> QED BY <4>1
    <3>2. 0 .. k \subseteq S BY <2>2, <3>1
    <3>3. x \in 0 .. k \/ x = k + 1 OBVIOUS
    <3> QED BY <3>2, <3>3
  <2> HIDE DEF D
  <2> QED BY <2>1, <2>2, NatSetInduction
<1>3. ASSUME NEW k \in S PROVE k \in 0 .. c - 1
  <2>1. 0 .. k \subseteq S BY <1>2
  <2>2. 0 \in Int /\ k \in Int /\ k >= 0 OBVIOUS
  <2>3. IsFiniteSet(0 .. k) /\ Cardinality(0 .. k) = k + 1 BY <2>2, FS_Interval
  <2>4. Cardinality(0 .. k) <= c BY <2>1, FS_Subset
  <2> QED BY <1>1, <2>2, <2>3, <2>4
<1>4. IsFiniteSet(0 .. c - 1) /\ Cardinality(0 .. c - 1) = c
  <2>1. 0 \in Int /\ c - 1 \in Int BY <1>1
  <2> QED BY <1>1, <2>1, FS_Interval
<1>5. S \subseteq 0 .. c - 1 BY <1>3
<1> QED BY <1>4, <1>5, FS_Subset

\* A rank has a slot for itself, and the slots of a host are given out from the
\* first on.
Allocated(p) ==
    /\ \A r \in Ranks : p[r].cross \in Nat /\ p[r].local \in Nat
    /\ \A q, r \in Ranks : p[q].cross = p[r].cross /\ p[q].local = p[r].local => q = r
    /\ \A r \in Ranks : p[r].local > 0 => \E q \in Ranks :
            p[q].cross = p[r].cross /\ p[q].local = p[r].local - 1

\* _allocate does that.
LEMMA PlanAllocates ==
    ASSUME NEW hosts \in Seq(Nat), Fits(hosts)
    PROVE  Allocated(Plan(hosts))
<1> DEFINE Slot == [cross : Nat, local : Nat]
           n == Len(hosts)
           parts == [h \in DOMAIN hosts |-> [l \in 1..hosts[h] |-> [cross |-> h - 1, local |-> l - 1]]]
           slots == AllSlots(hosts)
           p == Plan(hosts)
<1>1. n \in Nat /\ DOMAIN hosts = 1 .. n /\ \A h \in 1 .. n : hosts[h] \in Nat OBVIOUS
<1>2. ASSUME NEW h \in 1 .. n
      PROVE  /\ parts[h] \in Seq(Slot) /\ Len(parts[h]) = hosts[h]
             /\ \A l \in 1 .. hosts[h] : parts[h][l] = [cross |-> h - 1, local |-> l - 1]
  <2>1. parts[h] = [l \in 1 .. hosts[h] |-> [cross |-> h - 1, local |-> l - 1]] BY <1>1
  <2>2. hosts[h] \in Nat /\ h - 1 \in Nat /\ \A l \in 1 .. hosts[h] : l - 1 \in Nat BY <1>1
  <2>3. parts[h] \in [1 .. hosts[h] -> Slot] BY <2>1, <2>2
  <2>4. \A S : \A c \in Nat : \A f \in [1 .. c -> S] : f \in Seq(S) /\ Len(f) = c OBVIOUS
  <2> HIDE DEF parts, Slot, n
  <2>5. parts[h] \in Seq(Slot) /\ Len(parts[h]) = hosts[h] BY <2>2, <2>3, <2>4, Zenon
  <2> QED BY <2>1, <2>5
<1>3. parts \in Seq(Seq(Slot)) /\ Len(parts) = n
  <2>1. DOMAIN parts = 1 .. n BY <1>1
  <2>2. parts = [h \in 1 .. n |-> parts[h]] BY <2>1
  <2> HIDE DEF parts, Slot
  <2>3. parts \in [1 .. n -> Seq(Slot)] BY <1>2, <2>2
  <2> QED BY <1>1, <2>1, <2>3
<1>4. slots \in Seq(Slot) /\ LaidOut(parts, slots)
  <2>1. slots = FlattenSeq(parts) BY DEF AllSlots
  <2> HIDE DEF parts, Slot, slots
  <2> QED BY <1>3, <2>1, FlattenLayout
<1>5. NumProc \in Nat /\ NumProc <= Len(slots) /\ Len(slots) \in Nat
  BY <1>4, NumProcAssumption DEF Fits
<1>6. \A r \in Ranks : p[r] = slots[r + 1] /\ r + 1 \in 1 .. Len(slots) /\ r \in Nat
  BY <1>5 DEF Plan, Ranks
<1> HIDE DEF parts, slots, p, Slot
<1>7. PICK off \in [0 .. Len(parts) -> Nat] :
        /\ \A a \in 1 .. Len(parts) : \A k \in 1 .. Len(parts[a]) :
              /\ off[a - 1] + k \in 1 .. Len(slots)
              /\ slots[off[a - 1] + k] = parts[a][k]
        /\ \A j \in 1 .. Len(slots) :
              \E a \in 1 .. Len(parts) : \E k \in 1 .. Len(parts[a]) : j = off[a - 1] + k
  BY <1>4 DEF LaidOut
<1> DEFINE Slotted(r, a, k) == /\ a \in 1 .. n /\ k \in 1 .. hosts[a] /\ r + 1 = off[a - 1] + k
                           /\ p[r] = [cross |-> a - 1, local |-> k - 1]
<1>8. ASSUME NEW r \in Ranks PROVE \E a, k : Slotted(r, a, k)
  <2>1. r + 1 \in 1 .. Len(slots) BY <1>6
  <2>2. PICK a \in 1 .. n : \E k \in 1 .. Len(parts[a]) : r + 1 = off[a - 1] + k BY <1>3, <1>7, <2>1
  <2>3. PICK k \in 1 .. Len(parts[a]) : r + 1 = off[a - 1] + k BY <2>2
  <2>4. slots[off[a - 1] + k] = parts[a][k] BY <1>3, <1>7
  <2>5. p[r] = [cross |-> a - 1, local |-> k - 1] BY <1>2, <1>6, <2>3, <2>4
  <2> QED BY <1>2, <2>3, <2>5
<1>9. \A r \in Ranks : p[r].cross \in Nat /\ p[r].local \in Nat
  <2> TAKE r \in Ranks
  <2>1. PICK a, k : Slotted(r, a, k) BY <1>8
  <2>2. a - 1 \in Nat /\ k - 1 \in Nat BY <1>1, <2>1
  <2> QED BY <2>1, <2>2
<1>10. ASSUME NEW q \in Ranks, NEW r \in Ranks, p[q].cross = p[r].cross, p[q].local = p[r].local
       PROVE  q = r
  <2>1. PICK a, k : Slotted(q, a, k) BY <1>8
  <2>2. PICK b, l : Slotted(r, b, l) BY <1>8
  <2>3. a - 1 = b - 1 /\ k - 1 = l - 1 BY <1>10, <2>1, <2>2
  <2>4. a \in Nat /\ b \in Nat /\ k \in Nat /\ l \in Nat BY <1>1, <2>1, <2>2
  <2>5. a = b /\ k = l BY <2>3, <2>4
  <2>6. q + 1 = r + 1 BY <2>1, <2>2, <2>5
  <2>7. q \in Nat /\ r \in Nat BY <1>6
  <2> QED BY <2>6, <2>7
<1>11. ASSUME NEW r \in Ranks, p[r].local > 0
       PROVE  \E q \in Ranks : p[q].cross = p[r].cross /\ p[q].local = p[r].local - 1
  <2>1. PICK a, k : Slotted(r, a, k) BY <1>8
  <2>2. k \in Nat /\ k - 1 > 0 /\ hosts[a] \in Nat BY <1>1, <1>11, <2>1
  <2>3. k - 1 \in 1 .. hosts[a] BY <2>1, <2>2
  <2>4. off[a - 1] + (k - 1) \in 1 .. Len(slots) /\ slots[off[a - 1] + (k - 1)] = parts[a][k - 1]
    BY <1>2, <1>3, <1>7, <2>1, <2>3
  <2>5. off[a - 1] \in Nat
    <3>1. n \in Nat /\ a \in 1 .. n /\ Len(parts) = n BY <1>1, <1>3, <2>1
    <3> HIDE DEF n
    <3>2. a - 1 \in 0 .. n BY <3>1
    <3> QED BY <3>1, <3>2
  <2>6. off[a - 1] + (k - 1) = r
    <3>1. r \in Nat BY <1>6
    <3>2. r + 1 = off[a - 1] + k BY <2>1
    <3>3. \A o, i, j \in Nat : i + 1 = o + j => o + (j - 1) = i OBVIOUS
    <3> DEFINE o == off[a - 1]
    <3>4. o \in Nat BY <2>5
    <3>5. r + 1 = o + k BY <3>2
    <3>6. k \in Nat BY <2>2
    <3> HIDE DEF Slotted, o
    <3>7. o + (k - 1) = r BY <3>1, <3>4, <3>5, <3>6
    <3> QED BY <3>7 DEF o
  <2>7. r - 1 \in Ranks /\ (r - 1) + 1 = r
    <3>1. r \in 1 .. Len(slots) BY <2>4, <2>6
    <3> QED BY <1>5, <3>1 DEF Ranks
  <2>8. p[r - 1] = parts[a][k - 1] BY <1>6, <2>4, <2>6, <2>7
  <2>9. p[r - 1] = [cross |-> a - 1, local |-> (k - 1) - 1] BY <1>2, <2>1, <2>3, <2>8
  <2>10. p[r - 1].cross = p[r].cross /\ p[r - 1].local = p[r].local - 1 BY <2>1, <2>9
  <2> QED BY <2>7, <2>10
<1>12. Allocated(p) BY <1>9, <1>10, <1>11 DEF Allocated
<1> QED BY <1>12 DEF p

\* One-to-one images have as many elements.
LEMMA SameSize ==
    ASSUME NEW M, IsFiniteSet(M), NEW f, DOMAIN f = M,
           \A x, y \in M : f[x] = f[y] => x = y
    PROVE  LET K == {f[x] : x \in M}
           IN  IsFiniteSet(K) /\ Cardinality(K) = Cardinality(M)
<1> DEFINE K == {f[x] : x \in M}
           g == [x \in M |-> f[x]]
<1>1. g \in [M -> K] /\ DOMAIN g = M /\ \A x \in M : g[x] = f[x] OBVIOUS
<1>2. \A k \in K : \E x \in M : g[x] = k BY <1>1
<1>3. \A x, y \in M : g[x] = g[y] => x = y BY <1>1
<1> HIDE DEF g, K
<1>4. g \in Injection(M, K) /\ g \in Surjection(M, K)
  <2>1. g \in Injection(M, K) BY <1>1, <1>3 DEF Injection, IsInjective
  <2>2. g \in Surjection(M, K) BY <1>1, <1>2 DEF Surjection
  <2> QED BY <2>1, <2>2
<1>5. ExistsBijection(M, K) BY <1>4 DEF ExistsBijection, Bijection
<1>6. IsFiniteSet(K) /\ Cardinality(K) = Cardinality(M) BY <1>5, FS_Bijection
<1> QED BY <1>6 DEF K

LEMMA RanksAreFinite == IsFiniteSet(Ranks) /\ Ranks \subseteq Nat
<1>1. 0 \in Int /\ NumProc - 1 \in Int BY NumProcAssumption
<1> QED BY <1>1, FS_Interval DEF Ranks

\* In a scope the keys differ.
LEMMA KeysDiffer ==
    ASSUME NEW p, Allocated(p), NEW s \in Scopes(p)
    PROVE  /\ Members(p, s) \subseteq Ranks
           /\ \A r \in Members(p, s) : Key(p, r, s) \in Nat
           /\ \A q, r \in Members(p, s) : Key(p, q, s) = Key(p, r, s) => q = r
<1> DEFINE KeysApart ==
        /\ Members(p, s) \subseteq Ranks
        /\ \A r \in Members(p, s) : Key(p, r, s) \in Nat
        /\ \A q, r \in Members(p, s) : Key(p, q, s) = Key(p, r, s) => q = r
<1>1. CASE s = <<"global_", 0>>
  <2>1. Members(p, s) = Ranks /\ \A r : Key(p, r, s) = r BY <1>1 DEF Members, Key
  <2>2. \A r \in Ranks : r \in Nat BY RanksAreFinite
  <2>3. \A r \in Members(p, s) : Key(p, r, s) \in Nat BY <2>1, <2>2
  <2>4. \A q, r \in Members(p, s) : Key(p, q, s) = Key(p, r, s) => q = r BY <2>1
  <2>5. Members(p, s) \subseteq Ranks BY <2>1
  <2> QED BY <2>3, <2>4, <2>5
<1>2. ASSUME NEW t \in Ranks, s = <<"local_", p[t].cross>> PROVE KeysApart
  <2>1. Members(p, s) = {r \in Ranks : p[r].cross = p[t].cross} BY <1>2 DEF Members
  <2>2. \A r : Key(p, r, s) = p[r].local BY <1>2 DEF Key
  <2> QED BY <2>1, <2>2 DEF Allocated
<1>3. ASSUME NEW t \in Ranks, s = <<"cross_", p[t].local>> PROVE KeysApart
  <2>1. Members(p, s) = {r \in Ranks : p[r].local = p[t].local} BY <1>3 DEF Members
  <2>2. \A r : Key(p, r, s) = p[r].cross BY <1>3 DEF Key
  <2> QED BY <2>1, <2>2 DEF Allocated
<1> QED BY <1>1, <1>2, <1>3 DEF Scopes, PartScopes

\* On even hosts the keys of a scope are the numbers up to its size.
LEMMA KeysFill ==
    ASSUME NEW p, Allocated(p), Even(p), NEW s \in Scopes(p)
    PROVE  {Key(p, r, s) : r \in Members(p, s)} = 0 .. ScopeSize(p, s) - 1
<1> DEFINE M == Members(p, s)
           f == [r \in M |-> Key(p, r, s)]
           K == {f[r] : r \in M}
<1>2. M \subseteq Ranks /\ IsFiniteSet(M)
  <2>1. M \subseteq Ranks BY KeysDiffer
  <2> QED BY <2>1, RanksAreFinite, FS_Subset
<1>3. \A q, r \in M : f[q] = f[r] => q = r BY KeysDiffer
<1>4. K \subseteq Nat BY KeysDiffer
<1>5. IsFiniteSet(K) /\ Cardinality(K) = Cardinality(M)
  <2> HIDE DEF M
  <2>1. DOMAIN f = M OBVIOUS
  <2> HIDE DEF f
  <2> QED BY <1>2, <1>3, <2>1, SameSize
<1>6. ASSUME NEW r \in M, f[r] > 0 PROVE \E q \in M : f[q] = f[r] - 1
  <2>1. r \in Ranks BY <1>2
  <2>2. CASE s = <<"global_", 0>>
    <3>1. M = Ranks /\ \A x \in M : f[x] = x BY <2>2 DEF Members, Key
    <3>2. r \in 0 .. NumProc - 1 /\ r > 0 BY <1>6, <2>1, <3>1 DEF Ranks
    <3>3. r - 1 \in 0 .. NumProc - 1 BY <3>2, NumProcAssumption
    <3>4. r - 1 \in M BY <3>1, <3>3 DEF Ranks
    <3> QED BY <3>1, <3>4
  <2>3. ASSUME NEW t \in Ranks, s = <<"local_", p[t].cross>>
        PROVE  \E q \in M : f[q] = f[r] - 1
    <3>1. M = {x \in Ranks : p[x].cross = p[t].cross} BY <2>3 DEF Members
    <3>2. \A x \in M : f[x] = p[x].local BY <2>3 DEF Key
    <3> HIDE DEF M, f
    <3>3. PICK q \in Ranks : p[q].cross = p[r].cross /\ p[q].local = p[r].local - 1
      BY <1>6, <2>1, <3>2 DEF Allocated
    <3> QED BY <3>1, <3>2, <3>3
  <2>4. ASSUME NEW t \in Ranks, s = <<"cross_", p[t].local>>
        PROVE  \E q \in M : f[q] = f[r] - 1
    <3>1. M = {x \in Ranks : p[x].local = p[t].local} BY <2>4 DEF Members
    <3>2. \A x \in M : f[x] = p[x].cross BY <2>4 DEF Key
    <3> HIDE DEF M, f
    <3>3. p[r].cross \in Nat /\ p[r].cross > 0 BY <1>6, <2>1, <3>2 DEF Allocated
    <3>4. p[r].cross - 1 \in 0 .. p[r].cross BY <3>3
    <3>5. PICK q \in Ranks : p[q].cross = p[r].cross - 1 /\ p[q].local = p[r].local
      BY <2>1, <3>4 DEF Even
    <3> QED BY <3>1, <3>2, <3>5
  <2> QED BY <2>2, <2>3, <2>4 DEF Scopes, PartScopes
<1>7. K = 0 .. Cardinality(M) - 1
  <2>1. ASSUME NEW k \in K, k > 0 PROVE k - 1 \in K
    <3>1. PICK r \in M : k = f[r] OBVIOUS
    <3> QED BY <1>6, <2>1, <3>1
  <2> HIDE DEF K
  <2>2. K = 0 .. Cardinality(K) - 1 BY <1>4, <1>5, <2>1, FromZero
  <2> QED BY <1>5, <2>2
<1>8. K = {Key(p, r, s) : r \in M} OBVIOUS
<1> HIDE DEF K, f
<1> QED BY <1>7, <1>8 DEF ScopeSize

-----------------------------------------------------------------------------
\* A worker that has a bad rank has one in the context that it is at.
RankIsBad ==
    \A r \in Ranks : doing[r] = "bad rank" =>
        scope[r] \in 1 .. 3 /\ Create(plan, r, scope[r]) = "bad rank"

RanksIInv == RendezvousIInv /\ Allocated(plan) /\ RankIsBad

LEMMA RanksInitially == RendezvousInit => RanksIInv
<1> SUFFICES ASSUME RendezvousInit PROVE RanksIInv OBVIOUS
<1>1. RendezvousIInv BY RendezvousInitially
<1>2. Allocated(plan)
  <2>1. PICK hosts \in HostLists :
            plan = IF Fits(hosts) THEN Plan(hosts)
                   ELSE [r \in Ranks |-> [cross |-> 0, local |-> r]]
    BY DEF RendezvousInit
  <2>2. CASE Fits(hosts) BY <2>1, <2>2, PlanAllocates, HostListsAssumption
  <2>3. CASE ~Fits(hosts)
    <3>1. \A r \in Ranks : plan[r].cross = 0 /\ plan[r].local = r BY <2>1, <2>3
    <3>2. ASSUME NEW r \in Ranks, r > 0 PROVE r - 1 \in Ranks
      BY <3>2, NumProcAssumption DEF Ranks
    <3>3. Ranks \subseteq Nat BY DEF Ranks
    <3> QED BY <3>1, <3>2, <3>3 DEF Allocated
  <2> QED BY <2>2, <2>3
<1>3. RankIsBad
  <2>1. scope = [r \in Ranks |-> 1] /\ doing = [r \in Ranks |-> Create(plan, r, 1)]
    BY DEF RendezvousInit
  <2>2. \A r \in Ranks : scope[r] = 1 /\ doing[r] = Create(plan, r, 1) BY <2>1
  <2>3. 1 \in 1 .. 3 OBVIOUS
  <2> QED BY <2>2, <2>3, Zenon DEF RankIsBad
<1> QED BY <1>1, <1>2, <1>3 DEF RanksIInv

LEMMA Steps ==
    /\ \A k \in 1 .. 4 : k < 3 => k + 1 \in 1 .. 3
    /\ \A n \in Nat : \A k \in 0 .. n - 1 : k < n
OBVIOUS

\* A worker starts a context at the step that brings it there.
LEMMA BadRankKept ==
    ASSUME RanksIInv, [RendezvousNext]_rendezvousVars
    PROVE  RankIsBad'
<1>1. UNCHANGED plan BY ServerKept DEF RanksIInv
<1>2. WorkerPart BY Parts DEF RanksIInv
<1>3. /\ doing \in [Ranks -> {"none", "put", "get", "delete"} \cup Failures]
      /\ scope \in [Ranks -> 1 .. 4]
  BY <1>2 DEF WorkerPart
<1> SUFFICES ASSUME NEW q \in Ranks, doing'[q] = "bad rank"
             PROVE  scope'[q] \in 1 .. 3 /\ Create(plan, q, scope'[q]) = "bad rank"
  BY <1>1 DEF RankIsBad
<1>4. ASSUME scope'[q] = scope[q], doing[q] = "bad rank"
      PROVE  scope'[q] \in 1 .. 3 /\ Create(plan, q, scope'[q]) = "bad rank"
  BY <1>4 DEF RanksIInv, RankIsBad
<1>5. ASSUME NEW r \in Ranks, Exchange(r)
      PROVE  scope'[q] \in 1 .. 3 /\ Create(plan, q, scope'[q]) = "bad rank"
  <2>1. CASE q # r BY <1>3, <1>4, <1>5, <2>1 DEF Exchange
  <2>2. CASE q = r
    <3>1. doing[q] = "delete" /\ scope[q] < 3 BY <1>3, <1>5, <2>2 DEF Exchange
    <3>2. scope'[q] = scope[q] + 1 /\ doing'[q] = Create(plan, q, scope[q] + 1)
      BY <1>3, <1>5, <2>2, <3>1 DEF Exchange
    <3>3. scope[q] \in 1 .. 4 BY <1>3
    <3>4. scope[q] + 1 \in 1 .. 3 BY <3>1, <3>3, Steps, Zenon
    <3> QED BY <3>2, <3>4
  <2> QED BY <2>1, <2>2
<1>6. ASSUME NEW r \in Ranks, Lose(r) \/ AskAgain(r) \/ WaitTimesOut(r)
      PROVE  scope'[q] = scope[q] /\ doing[q] = "bad rank"
  BY <1>3, <1>6 DEF Lose, FailedAttempt, AskAgain, WaitTimesOut, rendezvousVars
<1>7. ASSUME RendezvousOver \/ UNCHANGED rendezvousVars
      PROVE  scope'[q] = scope[q] /\ doing[q] = "bad rank"
  BY <1>7 DEF RendezvousOver, rendezvousVars
<1> QED BY <1>4, <1>5, <1>6, <1>7 DEF RendezvousNext

\* A worker with a bad rank shows that the hosts are not even.
LEMMA EvenHostsFit ==
    ASSUME RanksIInv, Even(plan), NEW r \in Ranks
    PROVE  doing[r] # "bad rank"
<1> SUFFICES ASSUME doing[r] = "bad rank" PROVE FALSE OBVIOUS
<1>1. scope[r] \in 1 .. 3 /\ Create(plan, r, scope[r]) = "bad rank"
  BY DEF RanksIInv, RankIsBad
<1>2. Here(r) \in Scopes(plan) /\ r \in Members(plan, Here(r)) BY <1>1, HereIsScope
<1>3. HereKey(r) \in 0 .. ScopeSize(plan, Here(r)) - 1
  BY <1>2, KeysFill DEF RanksIInv, HereKey
<1>4. IsFiniteSet(Members(plan, Here(r)))
  <2>1. Members(plan, Here(r)) \subseteq Ranks BY <1>2, KeysDiffer DEF RanksIInv
  <2> QED BY <2>1, RanksAreFinite, FS_Subset
<1>5. ScopeSize(plan, Here(r)) \in Nat BY <1>4, FS_CardinalityType DEF ScopeSize
<1>6. HereKey(r) < ScopeSize(plan, Here(r)) BY <1>3, <1>5, Steps, Zenon
<1> QED BY <1>1, <1>6 DEF Create, Here, HereKey

\* Whatever the hosts are, no two members of a scope store their address under
\* one key; on even hosts the keys are those that the others wait for, and no
\* worker is told that its rank is not one of its context.
THEOREM RanksFit == RendezvousSpec => []RanksFitScopes
<1>1. RanksIInv /\ [RendezvousNext]_rendezvousVars => RanksIInv'
  <2> SUFFICES ASSUME RanksIInv, [RendezvousNext]_rendezvousVars PROVE RanksIInv' OBVIOUS
  <2>1. RendezvousIInv' BY InvariantKept DEF RanksIInv
  <2>2. UNCHANGED plan BY ServerKept DEF RanksIInv
  <2>3. Allocated(plan)' BY <2>2 DEF RanksIInv, Allocated
  <2> QED BY <2>1, <2>3, BadRankKept DEF RanksIInv
<1>2. RanksIInv => RanksFitScopes
  <2> SUFFICES ASSUME RanksIInv PROVE RanksFitScopes OBVIOUS
  <2>1. ASSUME NEW s \in Scopes(plan)
        PROVE  /\ \A q, r \in Members(plan, s) : Key(plan, q, s) = Key(plan, r, s) => q = r
               /\ Even(plan) =>
                      {Key(plan, r, s) : r \in Members(plan, s)} = 0..(ScopeSize(plan, s) - 1)
    BY KeysFill, KeysDiffer DEF RanksIInv
  <2>2. (\E r \in Ranks : doing[r] = "bad rank") => ~Even(plan) BY EvenHostsFit
  <2> QED BY <2>1, <2>2 DEF RanksFitScopes
<1> QED BY RanksInitially, <1>1, <1>2, PTL DEF RendezvousSpec
=============================================================================

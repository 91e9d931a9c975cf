------------------------------- MODULE PyStager -------------------------------
(***************************************************************************)
(* PyStager: an MPI program that copies a directory with rsync.  Rank 0,   *)
(* the master, scans the source, deals its items out to the slave ranks in *)
(* turn, and waits for one message from every idle slave and one for every *)
(* item.  A slave copies its items one after another, compares checksums   *)
(* if asked to, and confirms each.                                         *)
(*                                                                         *)
(* An item is a sub-directory (Load_Level = 0) or a file (Load_Level = 1). *)
(* Files are listed by their base names, those of sub-directories too, so  *)
(* that a name is listed as often as there are files of this name.         *)
(* MPI is external: messages between two ranks arrive in order, those of   *)
(* different slaves in any order.  The master looks at no message it gets, *)
(* so what counts is how many of a slave's messages it has not received.   *)
(***************************************************************************)
EXTENDS Integers, Sequences

CONSTANTS
    p,                \* number of ranks
    Sources,          \* what the source directory may be like:
                      \*   load_level  the level at which it is copied
                      \*   exists      is there one?
                      \*   items       the names to process, in order
                      \*   others      plain files beside the sub-directories
                      \*   shape       per item: "flat", no sub-directories, or
                      \*               a file at the top; "hollow", sub-directories
                      \*               without files; "deep", files in every
                      \*               sub-directory, or a file not at the top
    Rsync_Status,
    Checksum_Status

ASSUME PAssumption == p \in Nat \ {0}
ASSUME SourcesAssumption ==
    \A s \in Sources : /\ s.exists \in BOOLEAN /\ s.load_level \in {0, 1}
                       /\ s.others \in Nat
                       /\ s.items \in Seq(DOMAIN s.shape)
                       /\ s.load_level = 0 =>
                            \A i, j \in DOMAIN s.items :
                              s.items[i] = s.items[j] => i = j
                       /\ \A n \in DOMAIN s.shape :
                              \E i \in DOMAIN s.items : s.items[i] = n

Slaves == 1 .. p - 1

VARIABLES
    source,           \* the source directory of this run
    \* the master
    master,           \* "scan", "send", "receive", "done", "exit", "dead"
    nodes,            \* the next slave to send a list to
    transfer_dict,    \* per slave, its items
    idle_counter,
    message_counter,
    \* the slaves
    slave,            \* "start", "recv", "work", "exit", "dead"
    job_list,         \* items that are still to be processed
    unread,           \* messages sent to the master and not received yet
    \* the file system
    destination,      \* per item, how much of it has been copied
    verdict           \* per item, what the checksums were said to show

masterVars == <<master, nodes, transfer_dict, idle_counter, message_counter>>
slaveVars  == <<slave, job_list>>
files      == <<destination, verdict>>
vars == <<source, masterVars, slaveVars, unread, files>>

Load_Level == source.load_level
items == source.items
Items == DOMAIN source.shape

-----------------------------------------------------------------------------
(* The master.                                                             *)

\* directory_scanner raises at file level if no file of a name is at the top,
\* where its size is looked up (such a name has shape "deep").  load_distributor
\* raises without slaves, and at directory level if it counts more entries than
\* there are sub-directories.
ScanRaises == Load_Level = 1 /\ \E n \in Items : source.shape[n] = "deep"
DistributionRaises ==
    \/ p = 1 /\ Len(items) + source.others > 0
    \/ Load_Level = 0 /\ source.others > 0

\* Number of items that slave s gets when they are dealt out in turn.
Load(s) == (Len(items) - s + p - 1) \div (p - 1)

\* Mutant of Assigned: the counter starts again too late, after node p.
Assigned_Late(s) == [k \in 1 .. Load(s) |->
    IF (k - 1) * p + s <= Len(items) THEN items[(k - 1) * p + s] ELSE items[s]]

\* load_distributor: the items of slave s, every (p - 1)-th from the s-th on.
Assigned(s) == [k \in 1 .. Load(s) |-> items[(k - 1) * (p - 1) + s]]

\* The source does not exist: every rank exits.
MasterExits ==
    /\ master = "scan" /\ ~source.exists
    /\ master' = "exit"
    /\ UNCHANGED <<source, nodes, transfer_dict, idle_counter, message_counter,
                   slaveVars, unread, files>>

\* The master dies of an exception before it has sent anything.
MasterRaises ==
    /\ master = "scan" /\ source.exists
    /\ ScanRaises \/ DistributionRaises
    /\ master' = "dead"
    /\ UNCHANGED <<source, nodes, transfer_dict, idle_counter, message_counter,
                   slaveVars, unread, files>>

MasterDistributes ==
    /\ master = "scan" /\ source.exists
    /\ ~ScanRaises /\ ~DistributionRaises
    /\ master' = "send"
    /\ transfer_dict' = [s \in Slaves |-> Assigned(s)]
    /\ UNCHANGED <<source, nodes, idle_counter, message_counter, slaveVars,
                   unread, files>>

\* Mutant of IdleExpected: the master counts itself as well.
IdleExpected_Master == p - Len(items) + 1

\* The loop for idle slaves runs while this is above one.
IdleExpected == p - Len(items)

\* comm.send of its list to the next slave.
MasterSends ==
    /\ master = "send" /\ nodes < p
    /\ nodes' = nodes + 1
    /\ UNCHANGED <<source, master, transfer_dict, idle_counter,
                   message_counter, slaveVars, unread, files>>

MasterHasSent ==
    /\ master = "send" /\ nodes = p
    /\ master' = "receive"
    /\ idle_counter' = IdleExpected
    /\ UNCHANGED <<source, nodes, transfer_dict, message_counter, slaveVars,
                   unread, files>>

\* comm.recv from any slave.
Receive(s) ==
    /\ unread[s] > 0
    /\ unread' = [unread EXCEPT ![s] = @ - 1]

MasterReceivesIdle(s) ==
    /\ master = "receive" /\ idle_counter > 1
    /\ Receive(s)
    /\ idle_counter' = idle_counter - 1
    /\ UNCHANGED <<source, master, nodes, transfer_dict, message_counter,
                   slaveVars, files>>

\* Mutant of AllConfirmed: the loop ends one message early.
AllConfirmed_Early == message_counter >= Len(items)

AllConfirmed == message_counter > Len(items)

MasterReceivesConfirmation(s) ==
    /\ master = "receive" /\ idle_counter <= 1 /\ ~AllConfirmed
    /\ Receive(s)
    /\ message_counter' = message_counter + 1
    /\ UNCHANGED <<source, master, nodes, transfer_dict, idle_counter,
                   slaveVars, files>>

\* "PyStager is done", exit status 0.
MasterDone ==
    /\ master = "receive" /\ idle_counter <= 1 /\ AllConfirmed
    /\ master' = "done"
    /\ UNCHANGED <<source, nodes, transfer_dict, idle_counter, message_counter,
                   slaveVars, unread, files>>

-----------------------------------------------------------------------------
(* A slave.                                                                *)

SlaveStarts(s) ==
    /\ slave[s] = "start"
    /\ slave' = [slave EXCEPT ![s] = IF source.exists THEN "recv" ELSE "exit"]
    /\ UNCHANGED <<source, masterVars, job_list, unread, files>>

\* A list has been sent to this slave.
HasMail(s) == master \in {"send", "receive", "done"} /\ s < nodes

Confirm(s) == unread' = [unread EXCEPT ![s] = @ + 1]

\* No list: the slave reports that it is idle.
SlaveIsIdle(s) ==
    /\ slave[s] = "recv" /\ HasMail(s) /\ transfer_dict[s] = <<>>
    /\ slave' = [slave EXCEPT ![s] = "exit"]
    /\ Confirm(s)
    /\ UNCHANGED <<source, masterVars, job_list, files>>

SlaveReceives(s) ==
    /\ slave[s] = "recv" /\ HasMail(s) /\ transfer_dict[s] # <<>>
    /\ slave'    = [slave EXCEPT ![s] = "work"]
    /\ job_list' = [job_list EXCEPT ![s] = transfer_dict[s]]
    /\ UNCHANGED <<source, masterVars, unread, files>>

\* Checksums are only taken of sub-directories.
Hashing == Load_Level = 0 /\ Checksum_Status = 1

\* What rsync may leave behind; its exit status is not looked at.  A copy that is
\* there already, of a file whose name is listed again, is replaced at the end only.
RsyncResults(job) ==
    IF Rsync_Status # 1 THEN {"absent"}
    ELSE {"complete"} \cup (IF destination[job] = "complete" THEN {} ELSE {"partial"})

\* Mutant of Verdicts: the source is compared with itself.
Verdicts_SameSide(job, result) == IF Hashing THEN {"identical"} ELSE {"none"}

\* What the comparison of the two hash files may say.  hash_directory takes the
\* files of the directory it has walked last: of a flat one all, in the order
\* of the file system, which may differ between source and destination, and of
\* a hollow one none, unless a partial copy lacks its sub-directories.
Verdicts(job, result) ==
    IF ~Hashing \/ Rsync_Status # 1 THEN {"none"}
    ELSE IF result = "partial" /\ source.shape[job] = "flat" THEN {"unverified"}
    ELSE IF result = "complete" /\ source.shape[job] = "hollow" THEN {"identical"}
    ELSE {"identical", "unverified"}

\* One round of the loop over the job list.
SlaveProcesses(s) ==
    /\ slave[s] = "work"
    /\ LET job == Head(job_list[s])
       IN  /\ ~(Hashing /\ source.shape[job] = "deep")
           /\ \E result \in RsyncResults(job) : \E said \in Verdicts(job, result) :
                /\ destination' = [destination EXCEPT ![job] = result]
                /\ verdict' = [verdict EXCEPT ![job] = said]
    /\ job_list' = [job_list EXCEPT ![s] = Tail(@)]
    /\ slave' = [slave EXCEPT ![s] = IF Tail(job_list[s]) = <<>> THEN "exit" ELSE @]
    /\ Confirm(s)
    /\ UNCHANGED <<source, masterVars>>

\* hash_directory opens a file of the sub-directory walked last at the top.
SlaveRaises(s) ==
    /\ slave[s] = "work"
    /\ Hashing /\ source.shape[Head(job_list[s])] = "deep"
    /\ slave' = [slave EXCEPT ![s] = "dead"]
    /\ UNCHANGED <<source, masterVars, job_list, unread, files>>

Finished == master \in {"done", "exit"} /\ \A s \in Slaves : slave[s] = "exit"

Terminated == Finished /\ UNCHANGED vars

-----------------------------------------------------------------------------
Init ==
    /\ source \in Sources
    /\ master = "scan"
    /\ nodes = 1
    /\ transfer_dict = [s \in Slaves |-> <<>>]
    /\ idle_counter = 0
    /\ message_counter = 1
    /\ slave = [s \in Slaves |-> "start"]
    /\ job_list = [s \in Slaves |-> <<>>]
    /\ unread = [s \in Slaves |-> 0]
    /\ destination = [n \in Items |-> "absent"]
    /\ verdict = [n \in Items |-> "none"]

Master ==
    \/ MasterExits \/ MasterRaises \/ MasterDistributes \/ MasterSends
    \/ MasterHasSent \/ MasterDone
    \/ \E s \in Slaves : MasterReceivesIdle(s) \/ MasterReceivesConfirmation(s)

Slave(s) ==
    SlaveStarts(s) \/ SlaveIsIdle(s) \/ SlaveReceives(s) \/ SlaveProcesses(s)
    \/ SlaveRaises(s)

Next == Master \/ (\E s \in Slaves : Slave(s)) \/ Terminated

Spec == Init /\ [][Next]_vars

\* Every rank is a process that keeps running; rsync returns.
FairSpec == Spec /\ WF_vars(Master) /\ \A s \in Slaves : WF_vars(Slave(s))

-----------------------------------------------------------------------------
(* Properties.                                                             *)

\* The variables have their types.
TypeOK ==
    /\ source \in Sources
    /\ master \in {"scan", "send", "receive", "done", "exit", "dead"}
    /\ nodes \in 1 .. p
    /\ transfer_dict \in [Slaves -> Seq(Items)]
    /\ idle_counter \in Int
    /\ message_counter \in 1 .. Len(items) + 1
    /\ slave \in [Slaves -> {"start", "recv", "work", "exit", "dead"}]
    /\ job_list \in [Slaves -> Seq(Items)]
    /\ unread \in [Slaves -> Nat]
    /\ destination \in [Items -> {"absent", "partial", "complete"}]
    /\ verdict \in [Items -> {"none", "identical", "unverified"}]

\* When the master reports the end, whatever the order in which the messages
\* of idle and of working slaves have arrived, no slave is still at work, no
\* message is unread and no item is left out.  (An item is a name: of the files of
\* one name, at file level, it is the one at the top that is copied each time.)
DoneIsComplete ==
    master = "done" =>
        /\ \A s \in Slaves : slave[s] = "exit" /\ job_list[s] = <<>> /\ unread[s] = 0
        /\ Rsync_Status = 1 => \A n \in Items : destination[n] # "absent"

\* The scan has listed this name once: so it is with every sub-directory, and with
\* a file of whose name there is no other.
ListedOnce(name) == \A i, j \in DOMAIN items : items[i] = name /\ items[j] = name => i = j

\* An item that is listed once is processed by one slave only, and once only: the
\* hash files of an item are named after it and lie in a directory that all slaves
\* share.
ProcessedOnce ==
    \A s \in Slaves : \A i \in DOMAIN job_list[s] :
        ListedOnce(job_list[s][i]) =>
            /\ destination[job_list[s][i]] = "absent"
            /\ \A t \in Slaves : \A j \in DOMAIN job_list[t] :
                    job_list[s][i] = job_list[t][j] => s = t /\ i = j

\* Every rank ends, and the master does not leave before the slaves are idle,
\* unless one of them has died of an exception: the master waits for the
\* messages of a dead slave for ever, the slaves for a list from a dead master.
Finishes ==
    <>(Finished \/ master = "dead" \/ \E s \in Slaves : slave[s] = "dead")

\* "source and destination files are identical" is only said of an item that
\* has been copied completely, if all files of the item lie at its top: only
\* those of the directory that the walk visits last are compared.
FlatIdenticalIsCopied ==
    \A n \in Items : source.shape[n] = "flat" /\ verdict[n] = "identical" =>
        destination[n] = "complete"

=============================================================================

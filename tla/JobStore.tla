------------------------------ MODULE JobStore ------------------------------
(* jobs.rs: the parent's job store. Each thread has a bounded queue and runs  *)
(* at most one job; ended jobs leave receipts, of which the last few stay.    *)
(* The calls come in any order from whoever holds the store: a job may be     *)
(* canceled while its connector runs, and finish then comes late.             *)
EXTENDS Integers, Sequences

CONSTANTS Threads,
          MaxQueueDepth,  \* JobStore::new's arguments
          MaxReceipts,
          MaxSequence,    \* u64::MAX, where next_sequence saturates
          MaxJobs         \* bound: how many jobs are ever enqueued

ASSUME LimitsAssumption == /\ MaxQueueDepth \in Nat /\ MaxReceipts \in Nat
                           /\ MaxSequence \in Nat \ {0}
                           /\ MaxJobs \in Nat

VARIABLES queued, running, receipts, nextSequence,
          issued  \* history: the thread of every job accepted, in order

vars == <<queued, running, receipts, nextSequence, issued>>

JobState == {"Queued", "Running", "Succeeded", "Failed", "Canceled"}

(* A job's id is a fresh UUID, only ever compared: here its number in issued. *)
Job == [id : Nat \ {0}, created : 1..MaxSequence]
NoJob == [id |-> 0, created |-> 0]
Receipt == [job : Nat \ {0}, thread : Threads, state : JobState, sequence : 1..MaxSequence]

Init == /\ queued = [t \in Threads |-> <<>>]
        /\ running = [t \in Threads |-> NoJob]
        /\ receipts = <<>>
        /\ nextSequence = 1
        /\ issued = <<>>

(* Mutant: the counter wraps around.                                          *)
TakeSequenceWraps == nextSequence' = (nextSequence % MaxSequence) + 1

(* take_sequence hands out nextSequence and moves it on with saturating_add.  *)
TakeSequence ==
    nextSequence' = IF nextSequence < MaxSequence THEN nextSequence + 1 ELSE nextSequence

(* Mutants: the limit is off by one; a full queue drops its oldest job.       *)
EnqueueOneMore(t) ==
    /\ Len(issued) < MaxJobs
    /\ Len(queued[t]) <= MaxQueueDepth
    /\ queued' = [queued EXCEPT ![t] =
                    Append(@, [id |-> Len(issued) + 1, created |-> nextSequence])]
    /\ issued' = Append(issued, t)
    /\ TakeSequence
    /\ UNCHANGED <<running, receipts>>

EnqueueDropsOldest(t) ==
    /\ Len(issued) < MaxJobs
    /\ queued' = [queued EXCEPT ![t] =
                    Append(IF Len(@) < MaxQueueDepth THEN @ ELSE Tail(@),
                           [id |-> Len(issued) + 1, created |-> nextSequence])]
    /\ issued' = Append(issued, t)
    /\ TakeSequence
    /\ UNCHANGED <<running, receipts>>

Enqueue(t) ==
    /\ Len(issued) < MaxJobs
    /\ Len(queued[t]) < MaxQueueDepth
    /\ queued' = [queued EXCEPT ![t] =
                    Append(@, [id |-> Len(issued) + 1, created |-> nextSequence])]
    /\ issued' = Append(issued, t)
    /\ TakeSequence
    /\ UNCHANGED <<running, receipts>>

(* Mutant: the youngest job starts.                                           *)
StartLast(t) ==
    /\ running[t] = NoJob
    /\ queued[t] # <<>>
    /\ running' = [running EXCEPT ![t] = queued[t][Len(queued[t])]]
    /\ queued' = [queued EXCEPT ![t] = SubSeq(@, 1, Len(@) - 1)]
    /\ UNCHANGED <<receipts, nextSequence, issued>>

StartNext(t) ==
    /\ running[t] = NoJob
    /\ queued[t] # <<>>
    /\ running' = [running EXCEPT ![t] = Head(queued[t])]
    /\ queued' = [queued EXCEPT ![t] = Tail(@)]
    /\ UNCHANGED <<receipts, nextSequence, issued>>

(* push_receipt: the oldest receipts go until max_receipts are left.          *)
Retain(log) == IF Len(log) > MaxReceipts
               THEN SubSeq(log, Len(log) - MaxReceipts + 1, Len(log))
               ELSE log

(* Mutant: a receipt is written whether or not a job runs.                    *)
SettleAnyway(t, state) ==
    /\ running' = [running EXCEPT ![t] = NoJob]
    /\ receipts' = Retain(Append(receipts,
                     [job |-> running[t].id, thread |-> t, state |-> state,
                      sequence |-> nextSequence]))
    /\ TakeSequence
    /\ UNCHANGED <<queued, issued>>

Settle(t, state) ==
    /\ running[t] # NoJob
    /\ running' = [running EXCEPT ![t] = NoJob]
    /\ receipts' = Retain(Append(receipts,
                     [job |-> running[t].id, thread |-> t, state |-> state,
                      sequence |-> nextSequence]))
    /\ TakeSequence
    /\ UNCHANGED <<queued, issued>>

(* finish looks the job up by its id alone; a job that is not running any     *)
(* more is UnknownJob and nothing changes. The caller chooses the state.      *)
Finish(job, state) == \E t \in Threads : running[t].id = job /\ Settle(t, state)

(* Mutant: a canceled job stays in the running map until it finishes.         *)
CancelKeepsRunning(t) ==
    /\ running[t] # NoJob
    /\ receipts' = Retain(Append(receipts,
                     [job |-> running[t].id, thread |-> t, state |-> "Canceled",
                      sequence |-> nextSequence]))
    /\ TakeSequence
    /\ UNCHANGED <<queued, running, issued>>

CancelRunning(t) == Settle(t, "Canceled")

Next == \/ \E t \in Threads : Enqueue(t) \/ StartNext(t) \/ CancelRunning(t)
        \/ \E job \in 1..Len(issued), state \in JobState : Finish(job, state)

Spec == Init /\ [][Next]_vars

----------------------------------------------------------------------------
TypeOK == /\ queued \in [Threads -> Seq(Job)]
          /\ running \in [Threads -> Job \cup {NoJob}]
          /\ receipts \in Seq(Receipt)
          /\ nextSequence \in 1..MaxSequence
          /\ issued \in Seq(Threads)

(* enqueue and push_receipt: no queue and no history outgrows its limit, the  *)
(* limit 0 included.                                                          *)
Bounded == /\ \A t \in Threads : Len(queued[t]) <= MaxQueueDepth
           /\ Len(receipts) <= MaxReceipts

(* Every queue holds jobs of its own thread, oldest first, and all of them    *)
(* are younger than the job the thread runs: start_next never reorders.       *)
RunsItsOwn == \A t \in Threads : running[t] # NoJob =>
    running[t].id \in 1..Len(issued) /\ issued[running[t].id] = t

QueuesItsOwn == \A t \in Threads : \A i \in 1..Len(queued[t]) :
    queued[t][i].id \in 1..Len(issued) /\ issued[queued[t][i].id] = t

FirstComeFirstRun ==
    /\ RunsItsOwn /\ QueuesItsOwn
    /\ \A t \in Threads : \A i \in 1..Len(queued[t]) : running[t].id < queued[t][i].id
    /\ \A t \in Threads : \A i, k \in 1..Len(queued[t]) :
         i < k => queued[t][i].id < queued[t][k].id

(* A job whose receipt was written is not queued or running any more, and no  *)
(* job gets a second receipt: a finish that comes after a cancel is refused.  *)
ReceiptsOfIssued == \A i \in 1..Len(receipts) :
    receipts[i].job \in 1..Len(issued) /\ issued[receipts[i].job] = receipts[i].thread

EndsOnce ==
    /\ ReceiptsOfIssued
    /\ \A t \in Threads : \A i \in 1..Len(receipts) :
         receipts[i].thread = t =>
           /\ running[t].id # receipts[i].job
           /\ \A k \in 1..Len(queued[t]) : receipts[i].job < queued[t][k].id
    /\ \A i, k \in 1..Len(receipts) : i < k => receipts[i].job # receipts[k].job

(* Receipts are in the order of their sequence numbers, which are distinct    *)
(* until the counter saturates, and a new one comes after all of them.        *)
ReceiptsInOrder ==
    /\ \A i \in 1..Len(receipts) :
         receipts[i].sequence < nextSequence \/ receipts[i].sequence = MaxSequence
    /\ \A i, k \in 1..Len(receipts) :
         i < k => \/ receipts[i].sequence < receipts[k].sequence
                  \/ receipts[i].sequence = MaxSequence

(* The store keeps the lifecycle's promise, also for jobs whose receipts were *)
(* dropped: waiting and busy are the jobs in the queues and the running map.  *)
Waiting == {j \in 1..Len(issued) :
              \E t \in Threads : \E i \in 1..Len(queued[t]) : queued[t][i].id = j}
Busy == {j \in 1..Len(issued) : \E t \in Threads : running[t].id = j}

Lifecycle == INSTANCE JobLifecycle WITH arrivals <- issued, waiting <- Waiting, busy <- Busy

ImplementsLifecycle == Lifecycle!Spec
=============================================================================

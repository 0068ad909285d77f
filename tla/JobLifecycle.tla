---------------------------- MODULE JobLifecycle ----------------------------
(* What the parent promises about jobs (README.md "parent-owned job           *)
(* queue/history primitives"), whatever keeps them: a job waits, runs at most *)
(* once and is over at most once; a thread runs one job at a time and starts  *)
(* its jobs in the order they arrived.                                        *)
EXTENDS Naturals, Sequences

CONSTANT Threads

VARIABLES arrivals,  \* the thread of each job, in order of arrival
          waiting,   \* the jobs queued, by arrival number
          busy       \* the jobs running

vars == <<arrivals, waiting, busy>>

Jobs == 1..Len(arrivals)

Init == arrivals = <<>> /\ waiting = {} /\ busy = {}

Arrive(t) == /\ arrivals' = Append(arrivals, t)
             /\ waiting' = waiting \cup {Len(arrivals) + 1}
             /\ UNCHANGED busy

Start(j) == /\ j \in waiting
            /\ \A k \in waiting : arrivals[k] = arrivals[j] => j <= k
            /\ \A k \in busy : arrivals[k] # arrivals[j]
            /\ waiting' = waiting \ {j}
            /\ busy' = busy \cup {j}
            /\ UNCHANGED arrivals

End(j) == /\ j \in busy
          /\ busy' = busy \ {j}
          /\ UNCHANGED <<arrivals, waiting>>

Next == \/ \E t \in Threads : Arrive(t)
        \/ \E j \in Jobs : Start(j) \/ End(j)

Spec == Init /\ [][Next]_vars
=============================================================================

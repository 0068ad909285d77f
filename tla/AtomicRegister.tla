--------------------------- MODULE AtomicRegister ---------------------------
(* What a caller of atomic_write is promised (docs/CONFIG.md:27, "writes     *)
(* atomically"): a write that succeeds replaced the whole content of its      *)
(* file by its own text in one step, a write that fails left the file as it   *)
(* was, and nothing else changes a file. Nothing is promised of the content   *)
(* of a Shared file, one whose writers do not take turns.                     *)
CONSTANTS Procs, Paths, Contents, Shared

VARIABLES value,  \* what each file holds
          op      \* the last write each process asked for and its outcome

vars == <<value, op>>

Outcome == {"pending", "done", "failed"}

TypeOK == /\ value \in [Paths -> Contents]
          /\ op \in [Procs -> [stage : Outcome, path : Paths, text : Contents]]

Init == /\ value \in [Paths -> Contents]
        /\ op \in [Procs -> [stage : {"done"}, path : Paths, text : Contents]]

Request(p) == /\ op[p].stage # "pending"
              /\ \E x \in Paths, t \in Contents :
                   op' = [op EXCEPT ![p] = [stage |-> "pending", path |-> x, text |-> t]]
              /\ UNCHANGED value

Commit(p) == /\ op[p].stage = "pending"
             /\ \E t \in Contents :
                  /\ op[p].path \notin Shared => t = op[p].text
                  /\ value' = [value EXCEPT ![op[p].path] = t]
             /\ op' = [op EXCEPT ![p].stage = "done"]

Fail(p) == /\ op[p].stage = "pending"
           /\ op' = [op EXCEPT ![p].stage = "failed"]
           /\ UNCHANGED value

Meddle == /\ \E x \in Shared, t \in Contents : value' = [value EXCEPT ![x] = t]
          /\ UNCHANGED op

Next == Meddle \/ \E p \in Procs : Request(p) \/ Commit(p) \/ Fail(p)

Spec == Init /\ [][Next]_vars
=============================================================================

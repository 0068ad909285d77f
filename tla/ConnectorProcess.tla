-------------------------- MODULE ConnectorProcess --------------------------
(* connector::run_json_connector: one request to a connector command over     *)
(* its standard streams. The parent writes the whole request, waits for the   *)
(* process with a timeout and only then reads what the pipes hold. The        *)
(* command is any program, a broken one included, and may leave a helper      *)
(* behind that keeps its stdout and stderr open.                              *)
EXTENDS Naturals

CONSTANTS MaxRequest,   \* bound: the JSON line, in the unit of PipeSize
          PipeSize,     \* what a pipe holds before its writer blocks
          MaxOut,       \* bounds: what a command writes to stdout
          MaxErr,       \* and to stderr
          Habits,       \* how commands treat their stdin
          Helpers,      \* whether commands leave a helper behind
          Killable      \* whether the system lets the parent kill them

ASSUME SizesAssumption == /\ MaxRequest \in Nat \ {0} /\ PipeSize \in Nat \ {0}
                          /\ MaxOut \in Nat /\ MaxErr \in Nat
ASSUME CommandsAssumption == /\ Habits \subseteq {"reads", "logsFirst", "ignores"}
                             /\ Helpers \subseteq BOOLEAN /\ Killable \subseteq BOOLEAN

(* What the command does when nothing stops it: read the request at once,     *)
(* after its log, or never; how much it writes; whether it gets to its end,   *)
(* and can be killed before (one started through sudo, or setuid, cannot). It *)
(* ends with a JSON line in its answer, with noise (no such line, or bytes on *)
(* a stream that are not UTF-8) or with a failure exit status.                *)
Plans == [habit : Habits, out : 0..MaxOut, err : 0..MaxErr, helper : Helpers,
          hangs : BOOLEAN, killable : Killable, outcome : {"json", "noise", "error"}]

VARIABLES parent,                 \* where run_json_connector is
          left,                   \* what it still has to write
          stdin, stdout, stderr,  \* what each pipe holds
          got,                    \* what the parent has read from stdout
          plan, child, helper,    \* the command, the process, its helper
          out, err,               \* what the process still has to write
          late,                   \* timeout_seconds have passed
          result                  \* what the caller gets

vars == <<parent, left, stdin, stdout, stderr, got, plan, child, helper, out, err, late, result>>
pipes == <<left, stdin, stdout, stderr, got>>
command == <<plan, helper, out, err>>

Init == /\ parent = "spawn" /\ result = "none" /\ late = FALSE
        /\ left \in 1..MaxRequest
        /\ stdin = 0 /\ stdout = 0 /\ stderr = 0 /\ got = 0
        /\ plan \in Plans
        /\ child = "none" /\ helper = "none"
        /\ out = plan.out /\ err = plan.err

----------------------------------------------------------------------------
(* The parent.                                                                *)
Return(answer) == parent' = "done" /\ result' = answer

Spawn == /\ parent = "spawn"
         /\ \/ /\ parent' = "write"
               /\ child' = "running"
               /\ helper' = IF plan.helper THEN "running" ELSE "none"
               /\ UNCHANGED result
            \/ Return("failed") /\ UNCHANGED <<child, helper>>
         /\ UNCHANGED <<pipes, plan, out, err, late>>

(* Mutant: a write that returns although the pipe is full.                    *)
WriteUnbounded == /\ parent = "write" /\ left > 0 /\ child = "running"
                  /\ left' = left - 1 /\ stdin' = stdin + 1
                  /\ UNCHANGED <<parent, stdout, stderr, got, child, command, late, result>>

(* write_all has no timeout: it waits for room in the pipe, or for the last   *)
(* reader to go, and then the call is over and nobody waits for the process.  *)
WriteRequest == /\ parent = "write" /\ left > 0
                /\ child = "running" /\ stdin < PipeSize
                /\ left' = left - 1 /\ stdin' = stdin + 1
                /\ UNCHANGED <<parent, stdout, stderr, got, child, command, late, result>>

BrokenPipe == /\ parent = "write" /\ left > 0
              /\ child = "exited"
              /\ Return("brokenPipe")
              /\ UNCHANGED <<pipes, child, command, late>>

CloseStdin == /\ parent = "write" /\ left = 0
              /\ parent' = "wait"
              /\ UNCHANGED <<pipes, child, command, late, result>>

(* wait_timeout                                                               *)
Elapse == /\ parent = "wait" /\ child = "running" /\ ~late
          /\ late' = TRUE
          /\ UNCHANGED <<parent, pipes, child, command, result>>

Exited == /\ parent = "wait" /\ child = "exited"
          /\ child' = "reaped"
          /\ parent' = "readOut"
          /\ UNCHANGED <<pipes, command, late, result>>

(* Mutants: the timeout is not waited for; the killed process is not; the     *)
(* process is never killed.                                                   *)
TimeOutEarly == /\ parent = "wait"
                /\ child' = "reaped"
                /\ Return("timeout")
                /\ UNCHANGED <<pipes, command, late>>

TimeOutUnreaped == /\ parent = "wait" /\ late
                   /\ child' = "exited"
                   /\ Return("timeout")
                   /\ UNCHANGED <<pipes, command, late>>

TimeOutWaits == /\ parent = "wait" /\ late /\ child = "exited"
                /\ child' = "reaped"
                /\ Return("timeout")
                /\ UNCHANGED <<pipes, command, late>>

TimeOut == /\ parent = "wait" /\ late
           /\ plan.killable \/ child = "exited"
           /\ child' = "reaped"
           /\ Return("timeout")
           /\ UNCHANGED <<pipes, command, late>>

(* The result of kill is ignored; where the system refuses it, the wait that  *)
(* follows has no timeout of its own.                                         *)
KillRefused == /\ parent = "wait" /\ late
               /\ child = "running" /\ ~plan.killable
               /\ parent' = "reap"
               /\ UNCHANGED <<pipes, child, command, late, result>>

Reaped == /\ parent = "reap" /\ child = "exited"
          /\ child' = "reaped"
          /\ Return("timeout")
          /\ UNCHANGED <<pipes, command, late>>

(* read_to_string reads to the end of file, which a pipe has when nobody can  *)
(* write to it any more.                                                      *)
ReadOut == /\ parent = "readOut" /\ stdout > 0
           /\ stdout' = stdout - 1 /\ got' = got + 1
           /\ UNCHANGED <<parent, left, stdin, stderr, child, command, late, result>>

(* Mutant: one read instead of reading to the end.                            *)
OutOnce == /\ parent = "readOut" /\ helper # "running"
           /\ parent' = "readErr"
           /\ UNCHANGED <<pipes, child, command, late, result>>

OutEnds == /\ parent = "readOut" /\ stdout = 0 /\ helper # "running"
           /\ \/ parent' = "readErr" /\ UNCHANGED result
              \/ plan.outcome # "json" /\ Return("failed")
           /\ UNCHANGED <<pipes, child, command, late>>

ReadErr == /\ parent = "readErr" /\ stderr > 0
           /\ stderr' = stderr - 1
           /\ UNCHANGED <<parent, left, stdin, stdout, got, child, command, late, result>>

(* status.success(), then parse_connector_response.                           *)
ErrEnds == /\ parent = "readErr" /\ stderr = 0 /\ helper # "running"
           /\ Return(IF plan.outcome = "json" /\ got > 0 THEN "answer" ELSE "failed")
           /\ UNCHANGED <<pipes, child, command, late>>

Parent == \/ Spawn \/ WriteRequest \/ BrokenPipe \/ CloseStdin
          \/ Exited \/ TimeOut \/ KillRefused \/ Reaped
          \/ ReadOut \/ OutEnds \/ ReadErr \/ ErrEnds

----------------------------------------------------------------------------
(* The command.                                                               *)
HasRequest == plan.habit = "ignores" \/ (left = 0 /\ stdin = 0)

ReadRequest == /\ child = "running" /\ stdin > 0
               /\ plan.habit = "reads" \/ (plan.habit = "logsFirst" /\ err = 0)
               /\ stdin' = stdin - 1
               /\ UNCHANGED <<parent, left, stdout, stderr, got, child, command, late, result>>

Answer == /\ child = "running" /\ out > 0 /\ stdout < PipeSize
          /\ HasRequest
          /\ out' = out - 1 /\ stdout' = stdout + 1
          /\ UNCHANGED <<parent, left, stdin, stderr, got, plan, child, helper, err, late, result>>

Log == /\ child = "running" /\ err > 0 /\ stderr < PipeSize
       /\ err' = err - 1 /\ stderr' = stderr + 1
       /\ UNCHANGED <<parent, left, stdin, stdout, got, plan, child, helper, out, late, result>>

Exit == /\ child = "running" /\ ~plan.hangs
        /\ HasRequest /\ out = 0 /\ err = 0
        /\ child' = "exited"
        /\ UNCHANGED <<parent, pipes, command, late, result>>

HelperEnds == /\ helper = "running"
              /\ helper' = "gone"
              /\ UNCHANGED <<parent, pipes, plan, child, out, err, late, result>>

Next == Parent \/ Elapse \/ ReadRequest \/ Answer \/ Log \/ Exit \/ HelperEnds

Spec == Init /\ [][Next]_vars

(* The parent goes on when it can and time passes; nothing is assumed of the  *)
(* command and its helper.                                                    *)
FairSpec == Spec /\ WF_vars(Parent) /\ WF_vars(Elapse)

----------------------------------------------------------------------------
TypeOK == /\ parent \in {"spawn", "write", "wait", "reap", "readOut", "readErr", "done"}
          /\ left \in 0..MaxRequest
          /\ stdin \in 0..PipeSize /\ stdout \in 0..PipeSize /\ stderr \in 0..PipeSize
          /\ got \in 0..MaxOut
          /\ plan \in Plans
          /\ child \in {"none", "running", "exited", "reaped"}
          /\ helper \in {"none", "running", "gone"}
          /\ out \in 0..MaxOut /\ err \in 0..MaxErr
          /\ late \in BOOLEAN
          /\ result \in {"none", "answer", "failed", "timeout", "brokenPipe"}

(* run_json_connector: an answer that reaches the caller is the command's     *)
(* whole output, and the command had read the whole request, or never wanted  *)
(* to.                                                                        *)
AnswerIsWhole == result = "answer" =>
    /\ got = plan.out /\ out = 0
    /\ plan.habit # "ignores" => left = 0 /\ stdin = 0

(* run_json_connector: a call that is over leaves no process behind, running  *)
(* or unreaped, unless its request could not be written.                      *)
LeavesNoChild == parent = "done" /\ result # "brokenPipe" => child \in {"none", "reaped"}

(* Nobody but the command holds its streams open.                             *)
Alone == plan.helper => helper = "gone"

(* run_json_connector: the answer of a command that read its request and      *)
(* ended before the timeout is never lost, helpers that end included.         *)
AnswerArrives == (/\ child = "exited" /\ ~late /\ Alone
                  /\ plan.habit # "ignores" /\ plan.outcome = "json" /\ plan.out > 0)
                 ~> result = "answer"

(* What can hold a call up for ever: a request that does not fit into the     *)
(* pipe (write_all comes before the timeout), a helper that holds the other   *)
(* pipes open (they are read to their end), a command that cannot be killed.  *)
Unhindered == /\ left + stdin <= PipeSize
              /\ Alone
              /\ plan.killable \/ child \in {"exited", "reaped"}

(* README.md:133, "The parent must stay responsive even when a connector is   *)
(* broken". The part of that promise run_json_connector keeps: whatever the   *)
(* command reads, writes or waits for, the call returns unless one of those   *)
(* three holds it up, for as long as it does.                                 *)
CallReturns == Unhindered ~> parent = "done"
=============================================================================

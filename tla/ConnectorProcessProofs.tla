----------------------- MODULE ConnectorProcessProofs -----------------------
(* For every size of the request, the pipes and the command's output.         *)
EXTENDS ConnectorProcess, TLAPS

(* Why an answer is whole: bytes are only moved, a process exits when it has  *)
(* written all of them and has its request, and stdout is left at its end.    *)
AnswerInv ==
    /\ stdout \in Nat /\ got \in Nat /\ out \in Nat
    /\ left \in Nat /\ stdin \in Nat
    /\ plan \in Plans
    /\ got + stdout + out = plan.out
    /\ \/ child = "exited" \/ parent \in {"readOut", "readErr"} \/ result = "answer"
       => HasRequest /\ out = 0
    /\ parent \in {"readOut", "readErr", "done"} /\ result # "brokenPipe"
       => child \in {"none", "reaped"}
    /\ parent = "spawn" => child = "none"
    /\ parent = "readErr" \/ result = "answer" => stdout = 0
    /\ parent # "done" => result = "none"
    /\ parent = "reap" => late

LEMMA InitAnswer == Init => AnswerInv
BY SizesAssumption DEF Init, AnswerInv, HasRequest, Plans

LEMMA NextAnswer == AnswerInv /\ [Next]_vars => AnswerInv'
<1> SUFFICES ASSUME AnswerInv, [Next]_vars PROVE AnswerInv'
  OBVIOUS
<1> USE DEF AnswerInv, HasRequest, pipes, command, Return
<1>1. CASE Spawn BY <1>1 DEF Spawn
<1>2. CASE WriteRequest BY <1>2 DEF WriteRequest
<1>3. CASE BrokenPipe BY <1>3 DEF BrokenPipe
<1>4. CASE CloseStdin BY <1>4 DEF CloseStdin
<1>5. CASE Exited BY <1>5 DEF Exited
<1>6. CASE TimeOut BY <1>6 DEF TimeOut
<1>6a. CASE KillRefused BY <1>6a DEF KillRefused
<1>6b. CASE Reaped BY <1>6b DEF Reaped
<1>7. CASE ReadOut BY <1>7 DEF ReadOut
<1>8. CASE OutEnds BY <1>8 DEF OutEnds
<1>9. CASE ReadErr BY <1>9 DEF ReadErr
<1>10. CASE ErrEnds BY <1>10 DEF ErrEnds
<1>11. CASE Elapse BY <1>11 DEF Elapse
<1>12. CASE ReadRequest BY <1>12 DEF ReadRequest
<1>13. CASE Answer BY <1>13 DEF Answer
<1>14. CASE Log BY <1>14 DEF Log
<1>15. CASE Exit BY <1>15 DEF Exit
<1>16. CASE HelperEnds BY <1>16 DEF HelperEnds
<1>17. CASE UNCHANGED vars BY <1>17 DEF vars
<1>18. QED
  BY <1>1, <1>2, <1>3, <1>4, <1>5, <1>6, <1>6a, <1>6b, <1>7, <1>8, <1>9, <1>10, <1>11, <1>12,
     <1>13, <1>14, <1>15, <1>16, <1>17 DEF Next, Parent

(* A pipe never holds more than it can, since its writers wait; what was read  *)
(* is bounded because bytes are only moved (AnswerInv).                       *)
LEMMA NextType == TypeOK /\ AnswerInv /\ AnswerInv' /\ [Next]_vars => TypeOK'
<1> SUFFICES ASSUME TypeOK, AnswerInv, AnswerInv', [Next]_vars PROVE TypeOK'
  OBVIOUS
<1> USE SizesAssumption DEF TypeOK, pipes, command, Return
<1>1. plan.out \in 0..MaxOut
  BY DEF Plans
<1>2. got' \in 0..MaxOut
  <2>1. plan' = plan
    BY DEF Next, Parent, Spawn, WriteRequest, BrokenPipe, CloseStdin, Exited, TimeOut, KillRefused,
       Reaped, ReadOut,
           OutEnds, ReadErr, ErrEnds, Elapse, ReadRequest, Answer, Log, Exit, HelperEnds, vars
  <2>2. QED BY <1>1, <2>1 DEF AnswerInv
<1>3. CASE Spawn BY <1>2, <1>3 DEF Spawn
<1>4. CASE WriteRequest BY <1>2, <1>4 DEF WriteRequest
<1>5. CASE BrokenPipe BY <1>2, <1>5 DEF BrokenPipe
<1>6. CASE CloseStdin BY <1>2, <1>6 DEF CloseStdin
<1>7. CASE Exited BY <1>2, <1>7 DEF Exited
<1>8. CASE TimeOut BY <1>2, <1>8 DEF TimeOut
<1>8a. CASE KillRefused BY <1>2, <1>8a DEF KillRefused
<1>8b. CASE Reaped BY <1>2, <1>8b DEF Reaped
<1>9. CASE ReadOut BY <1>2, <1>9 DEF ReadOut
<1>10. CASE OutEnds BY <1>2, <1>10 DEF OutEnds
<1>11. CASE ReadErr BY <1>2, <1>11 DEF ReadErr
<1>12. CASE ErrEnds BY <1>2, <1>12 DEF ErrEnds
<1>13. CASE Elapse BY <1>2, <1>13 DEF Elapse
<1>14. CASE ReadRequest BY <1>2, <1>14 DEF ReadRequest
<1>15. CASE Answer BY <1>2, <1>15 DEF Answer
<1>16. CASE Log BY <1>2, <1>16 DEF Log
<1>17. CASE Exit BY <1>2, <1>17 DEF Exit
<1>18. CASE HelperEnds BY <1>2, <1>18 DEF HelperEnds
<1>19. CASE UNCHANGED vars BY <1>19 DEF vars
<1>20. QED
  BY <1>3, <1>4, <1>5, <1>6, <1>7, <1>8, <1>8a, <1>8b, <1>9, <1>10, <1>11, <1>12, <1>13, <1>14, <1>15, <1>16,
     <1>17, <1>18, <1>19
  DEF Next, Parent

(* run_json_connector: what each pipe, process and stage can be, for every    *)
(* size; a writer never puts more into a pipe than it holds.                  *)
THEOREM ConnectorTypeCorrect == Spec => []TypeOK
<1>1. Init => TypeOK
  <2> SUFFICES ASSUME Init PROVE TypeOK
    OBVIOUS
  <2>1. out \in 0..MaxOut /\ err \in 0..MaxErr
    BY DEF Init, Plans
  <2>2. /\ left \in 0..MaxRequest /\ got \in 0..MaxOut
        /\ stdin \in 0..PipeSize /\ stdout \in 0..PipeSize /\ stderr \in 0..PipeSize
    BY SizesAssumption DEF Init
  <2>3. QED BY <2>1, <2>2 DEF Init, TypeOK
<1>2. TypeOK /\ AnswerInv /\ [Next]_vars => (TypeOK /\ AnswerInv)'
  BY NextType, NextAnswer
<1>3. QED BY <1>1, <1>2, InitAnswer, PTL DEF Spec

(* run_json_connector never hands its caller a part of an answer, or an       *)
(* answer to a part of a request, whatever the sizes.                         *)
THEOREM AnswersAreWhole == Spec => []AnswerIsWhole
<1>1. AnswerInv => AnswerIsWhole
  BY DEF AnswerInv, AnswerIsWhole, HasRequest, Plans
<1>2. QED BY <1>1, InitAnswer, NextAnswer, PTL DEF Spec

(* Every call that did not break off while it wrote its request has waited    *)
(* for its process when it returns.                                           *)
THEOREM CallsLeaveNoChild == Spec => []LeavesNoChild
<1>1. AnswerInv => LeavesNoChild
  BY DEF AnswerInv, LeavesNoChild
<1>2. QED BY <1>1, InitAnswer, NextAnswer, PTL DEF Spec

----------------------------------------------------------------------------
(* The command asked for its request, ended before the timeout and said       *)
(* something: the hypothesis of AnswerArrives, from that moment on.           *)
InTime == /\ plan.habit # "ignores" /\ plan.outcome = "json" /\ plan.out > 0
          /\ child \in {"exited", "reaped"} /\ ~late

AnswerKept == InTime /\ parent = "done" => result = "answer"

(* A command whose pipe broke had ended, so none runs after the call.         *)
NoneRuns == parent = "done" => child # "running"

LEMMA NextInTime ==
  ASSUME AnswerInv, AnswerKept, NoneRuns, [Next]_vars
  PROVE  (InTime => InTime') /\ AnswerKept' /\ NoneRuns'
<1> USE DEF AnswerInv, HasRequest, AnswerKept, NoneRuns, InTime, Plans, pipes, command, Return
<1>1. CASE Spawn BY <1>1 DEF Spawn
<1>2. CASE WriteRequest BY <1>2 DEF WriteRequest
<1>3. CASE BrokenPipe BY <1>3 DEF BrokenPipe
<1>4. CASE CloseStdin BY <1>4 DEF CloseStdin
<1>5. CASE Exited BY <1>5 DEF Exited
<1>6. CASE TimeOut BY <1>6 DEF TimeOut
<1>6a. CASE KillRefused BY <1>6a DEF KillRefused
<1>6b. CASE Reaped BY <1>6b DEF Reaped
<1>7. CASE ReadOut BY <1>7 DEF ReadOut
<1>8. CASE OutEnds BY <1>8 DEF OutEnds
<1>9. CASE ReadErr BY <1>9 DEF ReadErr
<1>10. CASE ErrEnds
  <2>1. parent = "readErr" /\ stdout = 0 /\ out = 0 /\ UNCHANGED <<plan, child, late>>
    BY <1>10 DEF ErrEnds
  <2>2. got = plan.out
    BY <2>1
  <2>3. InTime => got > 0 /\ plan.outcome = "json"
    BY <2>2
  <2>4. result' = IF plan.outcome = "json" /\ got > 0 THEN "answer" ELSE "failed"
    BY <1>10 DEF ErrEnds
  <2>5. InTime' <=> InTime
    BY <2>1
  <2>6. child' # "running"
    BY <2>1
  <2>7. InTime' => result' = "answer"
    BY <2>3, <2>4, <2>5
  <2>8. QED BY <2>5, <2>6, <2>7
<1>11. CASE Elapse BY <1>11 DEF Elapse
<1>12. CASE ReadRequest BY <1>12 DEF ReadRequest
<1>13. CASE Answer BY <1>13 DEF Answer
<1>14. CASE Log BY <1>14 DEF Log
<1>15. CASE Exit BY <1>15 DEF Exit
<1>16. CASE HelperEnds BY <1>16 DEF HelperEnds
<1>17. CASE UNCHANGED vars BY <1>17 DEF vars
<1>18. QED
  BY <1>1, <1>2, <1>3, <1>4, <1>5, <1>6, <1>6a, <1>6b, <1>7, <1>8, <1>9, <1>10, <1>11, <1>12,
     <1>13, <1>14, <1>15, <1>16, <1>17 DEF Next, Parent

(* run_json_connector: a command that read its request and ended in time has  *)
(* its answer, if the call comes to its end: no timeout, no broken pipe, no   *)
(* helper and no size of its output or log can take it away any more.         *)
THEOREM AnswersAreKept == Spec => []AnswerKept /\ [][InTime => InTime']_vars
<1>1. Init => AnswerKept /\ NoneRuns
  BY DEF Init, AnswerKept, NoneRuns
<1>2. QED BY <1>1, InitAnswer, NextAnswer, NextInTime, PTL DEF Spec

----------------------------------------------------------------------------
(* What CallReturns rests on, apart from fairness: a call that nothing holds  *)
(* up can always go on, it stays that way, and every step of the parent       *)
(* brings the call nearer to its end.                                         *)
(* The guards of the parent's steps and of time passing.                      *)
CanGoOn ==
    \/ parent = "spawn"
    \/ parent = "write" /\ (left = 0 \/ child = "exited" \/ (child = "running" /\ stdin < PipeSize))
    \/ parent = "wait" /\ (child = "exited" \/ (child = "running" /\ (~late \/ plan.killable)))
    \/ parent = "reap" /\ child = "exited"
    \/ parent = "readOut" /\ (stdout > 0 \/ helper # "running")
    \/ parent = "readErr" /\ (stderr > 0 \/ helper # "running")

(* An upper bound of the steps the parent still takes.                        *)
StepsLeft ==
    CASE parent = "spawn" -> left + 2 * PipeSize + 7
      [] parent = "write" -> left + 2 * PipeSize + 6
      [] parent = "wait" -> 2 * PipeSize + (IF late THEN 4 ELSE 5)
      [] parent = "reap" -> 1
      [] parent = "readOut" -> stdout + PipeSize + 3
      [] parent = "readErr" -> stderr + 2
      [] OTHER -> 0

Descends == /\ StepsLeft' <= StepsLeft
            /\ Parent \/ Elapse => StepsLeft' < StepsLeft

(* The process exists while the parent works with it, and the helper that its *)
(* plan has.                                                                  *)
StagesInv ==
    /\ parent \in {"write", "wait", "reap"} => child \in {"running", "exited"}
    /\ parent = "reap" => ~plan.killable
    /\ parent \in {"readOut", "readErr"} => child = "reaped"
    /\ ~plan.helper => helper = "none"
    /\ plan.helper => (parent = "spawn" <=> helper = "none") \/ parent = "done"

LEMMA NextStages == TypeOK /\ AnswerInv /\ StagesInv /\ [Next]_vars => StagesInv'
<1> SUFFICES ASSUME TypeOK, AnswerInv, StagesInv, [Next]_vars PROVE StagesInv'
  OBVIOUS
<1> USE DEF TypeOK, AnswerInv, StagesInv, pipes, command, Return
<1>1. CASE Spawn BY <1>1 DEF Spawn
<1>2. CASE WriteRequest BY <1>2 DEF WriteRequest
<1>3. CASE BrokenPipe BY <1>3 DEF BrokenPipe
<1>4. CASE CloseStdin BY <1>4 DEF CloseStdin
<1>5. CASE Exited BY <1>5 DEF Exited
<1>6. CASE TimeOut BY <1>6 DEF TimeOut
<1>6a. CASE KillRefused BY <1>6a DEF KillRefused
<1>6b. CASE Reaped BY <1>6b DEF Reaped
<1>7. CASE ReadOut BY <1>7 DEF ReadOut
<1>8. CASE OutEnds BY <1>8 DEF OutEnds
<1>9. CASE ReadErr BY <1>9 DEF ReadErr
<1>10. CASE ErrEnds BY <1>10 DEF ErrEnds
<1>11. CASE Elapse BY <1>11 DEF Elapse
<1>12. CASE ReadRequest BY <1>12 DEF ReadRequest
<1>13. CASE Answer BY <1>13 DEF Answer
<1>14. CASE Log BY <1>14 DEF Log
<1>15. CASE Exit BY <1>15 DEF Exit
<1>16. CASE HelperEnds BY <1>16 DEF HelperEnds
<1>17. CASE UNCHANGED vars BY <1>17 DEF vars
<1>18. QED
  BY <1>1, <1>2, <1>3, <1>4, <1>5, <1>6, <1>6a, <1>6b, <1>7, <1>8, <1>9, <1>10, <1>11, <1>12,
     <1>13, <1>14, <1>15, <1>16, <1>17 DEF Next, Parent

(* What a call that can always return is made of, in one invariant.           *)
CallInv == TypeOK /\ AnswerInv /\ StagesInv

LEMMA CallInvariant == Spec => []CallInv
<1>1. Init => StagesInv
  BY DEF Init, StagesInv
<1>2. CallInv /\ [Next]_vars => CallInv'
  BY NextType, NextAnswer, NextStages DEF CallInv
<1>3. Spec => TypeOK
  BY ConnectorTypeCorrect, PTL
<1>4. QED BY <1>1, <1>2, <1>3, InitAnswer, PTL DEF Spec, CallInv

(* README.md:133, "The parent must stay responsive": a call whose request     *)
(* fits into the pipe, whose pipes no helper holds and whose command can be   *)
(* killed (or has ended) is never stuck, whatever the command reads, writes   *)
(* or waits for, and stays such a call. Without the first it can wait for ever*)
(* in write_all, without the second in read_to_string, without the third in   *)
(* child.wait.                                                                *)
THEOREM CallsNeverStick ==
  Spec => [](Unhindered /\ parent # "done" => CanGoOn) /\ [][Unhindered => Unhindered']_vars
<1>1. CallInv => (Unhindered /\ parent # "done" => CanGoOn)
  <2> SUFFICES ASSUME CallInv, Unhindered, parent # "done" PROVE CanGoOn
    OBVIOUS
  <2>1. parent \in {"spawn", "write", "wait", "reap", "readOut", "readErr"}
    BY DEF CallInv, TypeOK
  <2>2. CASE parent = "write"
    <3>1. left \in Nat /\ stdin \in Nat /\ child \in {"running", "exited"}
      BY <2>2 DEF CallInv, AnswerInv, StagesInv
    <3>2. left # 0 => stdin < PipeSize
      BY <3>1, SizesAssumption DEF Unhindered
    <3>3. QED BY <2>2, <3>1, <3>2 DEF CanGoOn
  <2>3. CASE parent = "wait"
    BY <2>3 DEF Unhindered, CallInv, TypeOK, StagesInv, CanGoOn
  <2>3a. CASE parent = "reap"
    BY <2>3a DEF Unhindered, CallInv, StagesInv, CanGoOn
  <2>4. CASE parent \in {"readOut", "readErr"}
    <3>1. helper # "running"
      <4>1. plan.helper \/ ~plan.helper
        OBVIOUS
      <4>2. QED BY <4>1 DEF Unhindered, Alone, CallInv, StagesInv
    <3>2. QED BY <2>4, <3>1 DEF CanGoOn
  <2>5. QED BY <2>1, <2>2, <2>3, <2>3a, <2>4 DEF CanGoOn
<1>2. CallInv /\ [Next]_vars => (Unhindered => Unhindered')
  <2> SUFFICES ASSUME CallInv, [Next]_vars, Unhindered PROVE Unhindered'
    OBVIOUS
  <2>1. plan' = plan /\ (helper' = helper \/ parent = "spawn" \/ helper' = "gone")
    BY DEF Next, Parent, Spawn, WriteRequest, BrokenPipe, CloseStdin, Exited, TimeOut, KillRefused,
       Reaped, ReadOut,
       OutEnds, ReadErr, ErrEnds, Elapse, ReadRequest, Answer, Log, Exit, HelperEnds, vars, command
  <2>2. left' + stdin' <= PipeSize
    <3>1. /\ left \in Nat /\ stdin \in Nat /\ PipeSize \in Nat
          /\ left + stdin <= PipeSize
      BY SizesAssumption DEF CallInv, AnswerInv, Unhindered
    <3>2. \/ left' = left /\ stdin' = stdin
          \/ left' = left - 1 /\ stdin' = stdin + 1
          \/ left' = left /\ stdin' = stdin - 1
      BY DEF Next, Parent, Spawn, WriteRequest, BrokenPipe, CloseStdin, Exited, TimeOut, KillRefused,
       Reaped, ReadOut,
         OutEnds, ReadErr, ErrEnds, Elapse, ReadRequest, Answer, Log, Exit, HelperEnds, vars, pipes
    <3>3. QED BY <3>1, <3>2
  <2>3. Alone'
    <3>1. CASE plan.helper
      BY <2>1, <3>1 DEF Unhindered, Alone, CallInv, StagesInv
    <3>2. CASE ~plan.helper
      BY <2>1, <3>2 DEF Alone
    <3>3. QED BY <3>1, <3>2
  <2>4. child \in {"exited", "reaped"} => child' \in {"exited", "reaped"}
    BY DEF Next, Parent, Spawn, WriteRequest, BrokenPipe, CloseStdin, Exited, TimeOut,
       KillRefused, Reaped, ReadOut, OutEnds, ReadErr, ErrEnds, Elapse, ReadRequest, Answer,
       Log, Exit, HelperEnds, vars, CallInv, AnswerInv
  <2>5. plan'.killable \/ child' \in {"exited", "reaped"}
    BY <2>1, <2>4 DEF Unhindered
  <2>6. QED BY <2>2, <2>3, <2>5 DEF Unhindered
<1>3. QED BY <1>1, <1>2, CallInvariant, PTL DEF Spec

LEMMA ParentDescends ==
  ASSUME CallInv, Parent \/ Elapse PROVE StepsLeft' < StepsLeft /\ StepsLeft' <= StepsLeft
<1>a. /\ left \in Nat /\ stdout \in 0..PipeSize /\ stderr \in 0..PipeSize /\ PipeSize \in Nat
      /\ late \in BOOLEAN
      /\ parent \in {"spawn", "write", "wait", "reap", "readOut", "readErr", "done"}
      /\ parent \in {"spawn", "readOut", "readErr"} => child # "running"
  BY SizesAssumption DEF CallInv, TypeOK, AnswerInv, StagesInv
<1> USE <1>a DEF StepsLeft, pipes, command, Return
<1>1. CASE Spawn BY <1>1 DEF Spawn
<1>2. CASE WriteRequest BY <1>2 DEF WriteRequest
<1>3. CASE BrokenPipe BY <1>3 DEF BrokenPipe
<1>4. CASE CloseStdin BY <1>4 DEF CloseStdin
<1>5. CASE Exited BY <1>5 DEF Exited
<1>6. CASE TimeOut BY <1>6 DEF TimeOut
<1>6a. CASE KillRefused BY <1>6a DEF KillRefused
<1>6b. CASE Reaped BY <1>6b DEF Reaped
<1>7. CASE ReadOut BY <1>7 DEF ReadOut
<1>8. CASE OutEnds BY <1>8 DEF OutEnds
<1>9. CASE ReadErr BY <1>9 DEF ReadErr
<1>10. CASE ErrEnds BY <1>10 DEF ErrEnds
<1>11. CASE Elapse BY <1>11 DEF Elapse
<1>12. QED BY <1>1, <1>2, <1>3, <1>4, <1>5, <1>6, <1>6a, <1>6b, <1>7, <1>8, <1>9, <1>10, <1>11 DEF Parent

LEMMA OthersKeep ==
  ASSUME CallInv, ReadRequest \/ Answer \/ Log \/ Exit \/ HelperEnds \/ UNCHANGED vars
  PROVE  StepsLeft' <= StepsLeft
<1>a. /\ left \in Nat /\ stdout \in 0..PipeSize /\ stderr \in 0..PipeSize /\ PipeSize \in Nat
      /\ late \in BOOLEAN
      /\ parent \in {"spawn", "write", "wait", "reap", "readOut", "readErr", "done"}
      /\ parent \in {"spawn", "readOut", "readErr"} => child # "running"
  BY SizesAssumption DEF CallInv, TypeOK, AnswerInv, StagesInv
<1> USE <1>a DEF StepsLeft, pipes, command, Return
<1>1. CASE ReadRequest BY <1>1 DEF ReadRequest
<1>2. CASE Answer BY <1>2 DEF Answer
<1>3. CASE Log BY <1>3 DEF Log
<1>4. CASE Exit BY <1>4 DEF Exit
<1>5. CASE HelperEnds BY <1>5 DEF HelperEnds
<1>6. CASE UNCHANGED vars BY <1>6 DEF vars
<1>7. QED BY <1>1, <1>2, <1>3, <1>4, <1>5, <1>6

LEMMA StepsType == CallInv => StepsLeft \in 0..MaxRequest + 2 * PipeSize + 7
<1> SUFFICES ASSUME CallInv PROVE StepsLeft \in 0..MaxRequest + 2 * PipeSize + 7
  OBVIOUS
<1>1. /\ left \in 0..MaxRequest /\ stdout \in 0..PipeSize /\ stderr \in 0..PipeSize
      /\ MaxRequest \in Nat /\ PipeSize \in Nat
      /\ parent \in {"spawn", "write", "wait", "reap", "readOut", "readErr", "done"}
  BY SizesAssumption DEF CallInv, TypeOK
<1>2. QED BY <1>1 DEF StepsLeft

(* run_json_connector: every step of a call, the passing of its timeout       *)
(* included, brings it nearer to its end, and nothing the command or its      *)
(* helper does takes it back; so a call takes no more of them than its        *)
(* request, two pipes and seven, however it goes.                             *)
THEOREM CallsDescend ==
  Spec => [](StepsLeft \in 0..MaxRequest + 2 * PipeSize + 7) /\ [][Descends]_vars
<1>1. CallInv /\ [Next]_vars => Descends
  <2> SUFFICES ASSUME CallInv, [Next]_vars PROVE Descends
    OBVIOUS
  <2>1. CASE Parent \/ Elapse
    BY <2>1, ParentDescends DEF Descends
  <2>2. CASE ~(Parent \/ Elapse)
    BY <2>2, OthersKeep DEF Next, Descends
  <2>3. QED BY <2>1, <2>2
<1>2. QED BY <1>1, StepsType, CallInvariant, PTL DEF Spec
=============================================================================

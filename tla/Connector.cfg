SPECIFICATION FairSpec
CONSTANTS
  MaxRequest = 3
  PipeSize = 2
  MaxOut = 3
  MaxErr = 3
  Habits = {"reads", "logsFirst", "ignores"}
  Helpers = {FALSE, TRUE}
  Killable = {FALSE, TRUE}
INVARIANTS TypeOK AnswerIsWhole LeavesNoChild
PROPERTIES AnswerArrives CallReturns
CHECK_DEADLOCK FALSE

---------------------------- MODULE HandlerProofs ----------------------------
(* For any directories, commands, messages and calls of the model, any number *)
(* of processes, sessions, ids and rounds.                                    *)
EXTENDS Handler, FiniteSetTheorems, TLAPS

(* Ids are spent before they are given.                                       *)
IdsSpent == \A p \in Procs : id[p] < nextId

SessionType ==
    /\ file \in Config /\ result \in Results
    /\ terminals \subseteq Procs /\ kids \subseteq Procs /\ hung \subseteq Procs
    /\ nextId \in 1..MaxIds + 1
    /\ status \in [Procs -> Statuses]
    /\ id \in [Procs -> 0..MaxIds + 1]

SessionInv == /\ SessionType
              /\ Cardinality(terminals) <= MaxSessions
              /\ OwnId /\ IdsSpent

ToolsInv == SessionInv /\ reported \subseteq Procs /\ Unlisted \subseteq reported

(* A loop that goes on has rounds left; what it remembers is what it ran.     *)
LoopInv == /\ seen = executed
           /\ pc \in {"ask", "tools"} => round < MaxRounds
           /\ pc = "direct" => calls # <<>>

PromptInv == RouterType /\ LoopInv /\ RunsOnce

HandlerInv == ToolsInv /\ PromptInv

LEMMA NoConfigType == NoConfig \in Config /\ NoConfig.cwd = Home
BY ToolsAssumption DEF NoConfig, Config, Routers, Paths

LEMMA InitHandler == Init => HandlerInv
<1> SUFFICES ASSUME Init PROVE HandlerInv
  OBVIOUS
<1> USE DEF Init, ToolsInit, RouterInit
<1>1. SessionType
  BY ToolsAssumption DEF SessionType, Results, Paths, Statuses
<1>2. Cardinality(terminals) <= MaxSessions
  BY ToolsAssumption, FS_EmptySet
<1>3. OwnId /\ IdsSpent /\ reported \subseteq Procs /\ Unlisted \subseteq reported
  BY DEF OwnId, IdsSpent, Unlisted
<1>4. RouterType
  <2>1. conf \in Config
    BY NoConfigType
  <2>2. calls \in Seq(Calls) /\ round \in 0..MaxRounds
    BY RouterAssumption
  <2>3. QED BY <2>1, <2>2 DEF RouterType
<1>5. LoopInv /\ RunsOnce
  BY DEF LoopInv, RunsOnce
<1>6. QED BY <1>1, <1>2, <1>3, <1>4, <1>5 DEF HandlerInv, ToolsInv, SessionInv, PromptInv

----------------------------------------------------------------------------
(* Terminals.                                                                 *)
LEMMA ProcsFinite == ASSUME NEW S \in SUBSET Procs PROVE IsFiniteSet(S) /\ Cardinality(S) \in Nat
<1>1. IsFiniteSet(Procs)
  BY ToolsAssumption, FS_Interval DEF Procs
<1>2. IsFiniteSet(S)
  BY <1>1, FS_Subset
<1>3. QED BY <1>2, FS_CardinalityType

(* What a tool must not do: let go of a shell and answer that all went well.  *)
TellsLoss == Unlisted' \subseteq Unlisted \/ result' # "ok"

LEMMA FailureTells == ASSUME Answer("failed") PROVE TellsLoss
BY DEF Answer, TellsLoss

(* A step that leaves the processes alone.                                    *)
LEMMA SessionsStay ==
  ASSUME SessionInv, UNCHANGED sessions, file' \in Config, result' \in Results
  PROVE  SessionInv' /\ Unlisted' = Unlisted
BY DEF SessionInv, SessionType, OwnId, IdsSpent, Unlisted, sessions

LEMMA FailedKeeps ==
  ASSUME SessionInv, Failed PROVE SessionInv' /\ TellsLoss
BY SessionsStay DEF Answer, Results, Failed, SessionInv, SessionType, TellsLoss

(* A step in which processes end, or are collected and leave the list.        *)
LEMMA FewerProcesses ==
  ASSUME SessionInv, file' \in Config, result' \in Results,
         status' \in [Procs -> Statuses],
         terminals' \subseteq terminals, kids' \subseteq Procs, hung' \subseteq Procs,
         UNCHANGED <<id, nextId>>
  PROVE  SessionInv'
<1>1. SessionType'
  BY DEF SessionInv, SessionType
<1>2. Cardinality(terminals') <= MaxSessions
  <2>1. Cardinality(terminals') <= Cardinality(terminals)
    BY ProcsFinite, FS_Subset DEF SessionInv, SessionType
  <2>2. QED BY <2>1, ProcsFinite, ToolsAssumption DEF SessionInv, SessionType
<1>3. (OwnId /\ IdsSpent)'
  BY DEF SessionInv, OwnId, IdsSpent
<1>4. QED BY <1>1, <1>2, <1>3 DEF SessionInv

(* A step that starts a process under the id n, which nobody has.             *)
LEMMA OneMoreProcess ==
  ASSUME SessionInv, NEW p \in Procs, NEW n \in 0..MaxIds, Spawn(p, n),
         n # 0 => n >= nextId,
         nextId' \in 1..MaxIds + 1, nextId' >= nextId, n < nextId',
         file' \in Config, result' \in Results,
         \/ terminals' = terminals \cup {p} /\ Cardinality(terminals) < MaxSessions
         \/ terminals' = terminals,
         kids' \subseteq Procs, hung' \subseteq Procs
  PROVE  SessionInv'
<1>1. /\ status' = [status EXCEPT ![p] = "running"] /\ id' = [id EXCEPT ![p] = n]
      /\ status \in [Procs -> Statuses] /\ id \in [Procs -> 0..MaxIds + 1]
      /\ terminals \subseteq Procs /\ nextId \in 1..MaxIds + 1
  BY DEF Spawn, SessionInv, SessionType
<1>2. SessionType'
  BY <1>1, ToolsAssumption DEF SessionType, Statuses
<1>3. Cardinality(terminals') <= MaxSessions
  <2>1. CASE terminals' = terminals
    BY <2>1 DEF SessionInv
  <2>2. CASE terminals' = terminals \cup {p} /\ Cardinality(terminals) < MaxSessions
    <3>1. IsFiniteSet(terminals) /\ Cardinality(terminals) \in Nat
      BY <1>1, ProcsFinite
    <3>2. Cardinality(terminals \cup {p}) = IF p \in terminals THEN Cardinality(terminals)
                                            ELSE Cardinality(terminals) + 1
      BY <3>1, FS_AddElement
    <3>3. QED BY <2>2, <3>1, <3>2, ToolsAssumption
  <2>3. QED BY <2>1, <2>2
<1>4. \A q \in Procs : id'[q] < nextId'
  BY <1>1, ToolsAssumption DEF SessionInv, IdsSpent
<1>5. OwnId'
  BY <1>1, ToolsAssumption DEF SessionInv, OwnId, IdsSpent
<1>6. QED BY <1>2, <1>3, <1>4, <1>5 DEF SessionInv, IdsSpent

(* A process in the foreground, under no id, that is not listed.              *)
LEMMA OneAside ==
  ASSUME SessionInv, NEW p \in Procs, Spawn(p, 0), file' \in Config, result' \in Results,
         kids' \subseteq Procs, hung' \subseteq Procs, UNCHANGED <<terminals, nextId>>
  PROVE  SessionInv'
<1>1. nextId \in 1..MaxIds + 1 /\ 0 \in 0..MaxIds
  BY ToolsAssumption DEF SessionInv, SessionType
<1>2. nextId' \in 1..MaxIds + 1 /\ nextId' >= nextId /\ 0 < nextId'
  BY <1>1, ToolsAssumption
<1>3. QED BY <1>1, <1>2, OneMoreProcess

LEMMA StartsType == ASSUME SessionInv, NEW p \in Procs, NEW command, Starts(p, command)
                    PROVE  kids' \subseteq Procs
BY DEF Starts, SessionInv, SessionType

LEMMA StartKeeps ==
  ASSUME SessionInv, NEW c \in Config, NEW call, Start(c, call)
  PROVE  SessionInv' /\ TellsLoss
<1>1. /\ file \in Config /\ nextId \in 1..MaxIds + 1 /\ hung \subseteq Procs
      /\ status \in [Procs -> Statuses]
  BY DEF SessionInv, SessionType
<1>2. CASE Failed
  BY <1>2, FailedKeeps
<1>3. CASE /\ nextId <= MaxIds /\ nextId' = nextId + 1 /\ UNCHANGED <<file, hung>>
           /\ Answer("failed") /\ UNCHANGED <<terminals, status, id, kids>>
  <2>1. file' \in Config /\ result' \in Results /\ result' = "failed"
    BY <1>1, <1>3 DEF Answer, Results
  <2>2. SessionType'
    BY <1>1, <1>3, <2>1, ToolsAssumption DEF SessionInv, SessionType
  <2>3. Cardinality(terminals') <= MaxSessions /\ OwnId'
    BY <1>3 DEF SessionInv, OwnId
  <2>4. IdsSpent'
    BY <1>1, <1>3, ToolsAssumption DEF SessionInv, SessionType, IdsSpent
  <2>5. QED BY <2>1, <2>2, <2>3, <2>4 DEF SessionInv, TellsLoss
<1>4. CASE /\ Cardinality(terminals) < MaxSessions
           /\ nextId <= MaxIds /\ nextId' = nextId + 1 /\ UNCHANGED <<file, hung>>
           /\ \E p \in Procs :
                /\ Spawn(p, nextId) /\ Starts(p, call.arg)
                /\ \/ terminals' = terminals \cup {p} /\ Answer("ok")
                   \/ /\ call.tool = "sudo_bg"
                      /\ Answer("failed") /\ UNCHANGED terminals
  <2>1. PICK p \in Procs :
                /\ Spawn(p, nextId) /\ Starts(p, call.arg)
                /\ \/ terminals' = terminals \cup {p} /\ Answer("ok")
                   \/ Answer("failed") /\ UNCHANGED terminals
    BY <1>4
  <2>2. file' \in Config /\ result' \in Results
    BY <1>1, <1>4, <2>1 DEF Answer, Results
  <2>3. nextId \in 0..MaxIds /\ nextId' \in 1..MaxIds + 1 /\ nextId < nextId'
    BY <1>1, <1>4, ToolsAssumption
  <2>4. \/ terminals' = terminals \cup {p} /\ Cardinality(terminals) < MaxSessions
        \/ terminals' = terminals
    BY <1>4, <2>1
  <2>5. SessionInv'
    BY <1>1, <1>4, <2>1, <2>2, <2>3, <2>4, OneMoreProcess, StartsType
  <2>6. CASE terminals' = terminals \cup {p}
    <3>1. \A q \in Procs : status'[q] = "running" => q = p \/ status[q] = "running"
      BY <1>1, <2>1 DEF Spawn
    <3>2. p \in terminals' /\ terminals \subseteq terminals' /\ hung' = hung
      BY <1>4, <2>6
    <3>3. Unlisted' \subseteq Unlisted
      BY <3>1, <3>2 DEF Unlisted
    <3>4. QED BY <2>5, <3>3 DEF TellsLoss
  <2>7. CASE Answer("failed")
    BY <2>5, <2>7, FailureTells
  <2>8. QED BY <2>1, <2>5, <2>6, <2>7
<1>5. QED BY <1>2, <1>3, <1>4 DEF Start

LEMMA InspectKeeps ==
  ASSUME SessionInv, NEW c \in Config, NEW call, Inspect(call)
  PROVE  SessionInv' /\ TellsLoss
<1>1. PICK ps \in SUBSET Procs, said \in {"ok", "failed"} :
        /\ \A p \in ps : status[p] = "exited"
        /\ Collect(ps) /\ Answer(said)
        /\ UNCHANGED <<file, terminals, nextId, id, kids, hung>>
  BY DEF Inspect, Listed, SessionInv, SessionType
<1>2. file' \in Config /\ result' \in Results
  BY <1>1 DEF Answer, Results, SessionInv, SessionType
<1>3. /\ status' \in [Procs -> Statuses]
      /\ \A p \in Procs : status'[p] = "running" => status[p] = "running"
  BY <1>1 DEF Collect, Statuses, SessionInv, SessionType
<1>4. SessionInv'
  BY <1>1, <1>2, <1>3, FewerProcesses DEF SessionInv, SessionType
<1>5. TellsLoss
  BY <1>1, <1>3 DEF TellsLoss, Unlisted
<1>6. QED BY <1>4, <1>5

LEMMA KillKeeps ==
  ASSUME SessionInv, NEW c \in Config, NEW call, Kill(call)
  PROVE  SessionInv' /\ TellsLoss
<1>1. CASE Failed
  BY <1>1, FailedKeeps
<1>2. ASSUME NEW p \in Listed(call.arg), terminals' = terminals \ {p},
             UNCHANGED <<file, nextId, id, kids, hung>>,
             \/ Collect({p}) /\ Answer("ok")
             \/ Answer("failed") /\ UNCHANGED status
      PROVE  SessionInv' /\ TellsLoss
  <2>1. file' \in Config /\ result' \in Results
    BY <1>2 DEF Answer, Results, SessionInv, SessionType
  <2>2. /\ p \in Procs /\ kids' \subseteq Procs /\ hung' \subseteq Procs
        /\ terminals' \subseteq terminals
    BY <1>2 DEF Listed, SessionInv, SessionType
  <2>3. status' \in [Procs -> Statuses]
    BY <1>2 DEF Collect, Statuses, SessionInv, SessionType
  <2>4. SessionInv'
    BY <1>2, <2>1, <2>2, <2>3, FewerProcesses
  <2>5. CASE Collect({p})
    <3>1. \A q \in Procs : status'[q] = "running" => q # p /\ status[q] = "running"
      BY <2>2, <2>5 DEF Collect
    <3>2. terminals' = terminals \ {p} /\ hung' = hung
      BY <1>2
    <3>3. Unlisted' \subseteq Unlisted
      BY <3>1, <3>2 DEF Unlisted
    <3>4. QED BY <2>4, <3>3 DEF TellsLoss
  <2>6. CASE Answer("failed")
    BY <2>4, <2>6, FailureTells
  <2>7. QED BY <1>2, <2>4, <2>5, <2>6
<1>3. QED BY <1>1, <1>2 DEF Kill

(* A foreground command leaves no shell, whatever its shell leaves.           *)
LEMMA EndsKeeps ==
  ASSUME SessionInv, NEW c \in Config, NEW command, Ends(command), hung = {}
  PROVE  SessionInv' /\ TellsLoss
<1>1. PICK said \in {"timed out", "ok"} : Answer(said)
  BY DEF Ends, Outcome
<1>2. file' \in Config /\ result' \in Results
  BY <1>1 DEF Answer, Results, Ends, SessionInv, SessionType
<1>3. CASE UNCHANGED sessions
  BY <1>2, <1>3, SessionsStay DEF TellsLoss
<1>4. ASSUME NEW p \in Procs, Stay(p), UNCHANGED hung \/ hung' = {p},
             UNCHANGED <<terminals, nextId>>
      PROVE  SessionInv' /\ TellsLoss
  <2>1. /\ UNCHANGED <<status, id>> /\ kids' \subseteq Procs /\ hung' \subseteq Procs
        /\ status \in [Procs -> Statuses] /\ terminals' = terminals
    BY <1>4 DEF Stay, SessionInv, SessionType
  <2>2. SessionInv'
    BY <1>2, <1>4, <2>1, FewerProcesses
  <2>3. TellsLoss
    BY <1>4, <2>1 DEF TellsLoss, Unlisted
  <2>4. QED BY <2>2, <2>3
<1>5. QED BY <1>3, <1>4 DEF Ends

LEMMA SudoKeeps ==
  ASSUME SessionInv, NEW c \in Config, NEW call, Sudo(c, call), hung = {}
  PROVE  SessionInv' /\ TellsLoss
<1>1. CASE Failed
  BY <1>1, FailedKeeps
<1>2. CASE Ends(call.arg)
  BY <1>2, EndsKeeps
<1>3. CASE SudoLeaves(call.arg) \/ SudoHangs(call.arg)
  <2>1. PICK p \in Procs, said \in {"failed", "timed out"} :
          /\ Spawn(p, 0) /\ Starts(p, call.arg) /\ Answer(said)
          /\ hung' \subseteq {p} /\ UNCHANGED <<file, terminals, nextId>>
    BY <1>3 DEF SudoLeaves, SudoHangs
  <2>2. file' \in Config /\ result' \in Results /\ result' # "ok"
    BY <2>1 DEF Answer, Results, SessionInv, SessionType
  <2>3. SessionInv'
    BY <1>3, <2>1, <2>2, OneAside, StartsType DEF SudoLeaves, SudoHangs
  <2>4. QED BY <2>2, <2>3 DEF TellsLoss
<1>4. QED BY <1>1, <1>2, <1>3 DEF Sudo

LEMMA ReadAndCdKeep ==
  ASSUME SessionInv, NEW c \in Config, NEW call, hung = {},
         Read(c, call) \/ Cd(c, call) \/ Sh(c, call)
  PROVE  SessionInv' /\ TellsLoss
<1>1. file \in Config
  BY DEF SessionInv, SessionType
<1>2. CASE \E said \in {"ok", "failed"} : Answer(said) /\ UNCHANGED <<file, sessions>>
  BY <1>1, <1>2, SessionsStay DEF Answer, Results, TellsLoss
<1>3. CASE Searches(c, call)
  <2>1. PICK p \in Procs : Spawn(p, 0) /\ hung' = {p}
    BY <1>3 DEF Searches
  <2>2. /\ file' \in Config /\ result' \in Results /\ kids' \subseteq Procs /\ hung' \subseteq Procs
        /\ UNCHANGED <<terminals, nextId>> /\ status \in [Procs -> Statuses]
    BY <1>1, <1>3, <2>1 DEF Answer, Results, Searches, SessionInv, SessionType
  <2>3. SessionInv'
    BY <2>1, <2>2, OneAside
  <2>4. TellsLoss
    BY <2>1, <2>2 DEF Spawn, Unlisted, TellsLoss
  <2>5. QED BY <2>3, <2>4
<1>4. CASE Failed
  BY <1>4, FailedKeeps
<1>5. CASE /\ Resolve(c, call.arg) \in Dirs
           /\ file' = [file EXCEPT !.cwd = Resolve(c, call.arg)]
           /\ Answer("ok") /\ UNCHANGED sessions
  <2>1. file' \in Config
    BY <1>1, <1>5 DEF Config, Paths
  <2>2. QED BY <1>5, <2>1, SessionsStay DEF Answer, Results, TellsLoss
<1>6. CASE Ends(call.arg)
  BY <1>6, EndsKeeps
<1>7. QED BY <1>2, <1>3, <1>4, <1>5, <1>6 DEF Read, Cd, Sh

(* A tool keeps the processes accounted for.                                  *)
LEMMA ToolKeeps ==
  ASSUME ToolsInv, NEW c \in Config, NEW call, RunTool(c, call)
  PROVE  ToolsInv'
<1>1. SessionInv' /\ TellsLoss
  BY StartKeeps, InspectKeeps, KillKeeps, SudoKeeps, ReadAndCdKeep DEF RunTool, ToolsInv
<1>2. reported' = IF result' = "ok" THEN reported ELSE Unlisted'
  BY DEF RunTool
<1>3. Unlisted' \subseteq Procs
  BY DEF Unlisted
<1>4. QED BY <1>1, <1>2, <1>3 DEF TellsLoss, ToolsInv

LEMMA ExitKeeps == ASSUME ToolsInv, NEW p \in Procs, Exit(p) \/ KidsEnd(p) PROVE ToolsInv'
<1>1. /\ UNCHANGED <<file, terminals, nextId, id, result>>
      /\ file \in Config /\ result \in Results
      /\ reported \subseteq Procs /\ kids \subseteq Procs /\ hung \subseteq Procs
      /\ status \in [Procs -> Statuses] /\ SessionInv /\ Unlisted \subseteq reported
  BY DEF Exit, KidsEnd, ToolsInv, SessionInv, SessionType
<1>2. CASE Exit(p)
  <2>1. /\ status' \in [Procs -> Statuses]
        /\ \A q \in Procs : status'[q] = "running" => q # p /\ status[q] = "running"
    BY <1>1, <1>2 DEF Exit, Statuses
  <2>2. SessionInv'
    BY <1>1, <1>2, <2>1, FewerProcesses DEF Exit
  <2>3. Unlisted' \subseteq reported' /\ reported' \subseteq Procs
    BY <1>1, <1>2, <2>1 DEF Exit, Unlisted
  <2>4. QED BY <2>2, <2>3 DEF ToolsInv
<1>3. CASE KidsEnd(p)
  <2>1. UNCHANGED <<status, reported>> /\ kids' \subseteq Procs /\ hung' \subseteq Procs
    BY <1>1, <1>3 DEF KidsEnd
  <2>2. SessionInv'
    BY <1>1, <2>1, FewerProcesses
  <2>3. Unlisted' \subseteq Unlisted
    BY <1>1, <1>3, <2>1 DEF KidsEnd, Unlisted
  <2>4. QED BY <1>1, <2>1, <2>2, <2>3 DEF ToolsInv
<1>4. QED BY <1>2, <1>3

LEMMA RestartKeeps == ASSUME ToolsInv, Restart PROVE ToolsInv'
<1>1. PICK ps \in SUBSET {p \in Procs : status[p] = "running"} :
         /\ status' = [p \in Procs |-> IF p \in ps THEN "running" ELSE "new"]
         /\ reported' = ps
  BY DEF Restart
<1>2. /\ terminals' = {} /\ nextId' = 1 /\ hung' = {} /\ id' = [p \in Procs |-> 0]
      /\ result' = "ok" /\ file' = file /\ kids' \subseteq kids
  BY DEF Restart
<1>3. SessionType'
  <2>1. "ok" \in Results
    BY DEF Results
  <2>2. QED
    BY <1>1, <1>2, <2>1, ToolsAssumption DEF ToolsInv, SessionInv, SessionType, Statuses
<1>4. Cardinality(terminals') <= MaxSessions
  BY <1>2, ToolsAssumption, FS_EmptySet
<1>5. (OwnId /\ IdsSpent)'
  BY <1>2 DEF OwnId, IdsSpent
<1>6. reported' \subseteq Procs /\ Unlisted' \subseteq reported'
  BY <1>1 DEF Unlisted
<1>7. QED BY <1>3, <1>4, <1>5, <1>6 DEF ToolsInv, SessionInv

(* A step that touches no tool.                                               *)
LEMMA ToolsStay ==
  ASSUME ToolsInv, UNCHANGED <<sessions, reported>>, file' \in Config, result' \in Results
  PROVE  ToolsInv'
BY SessionsStay DEF ToolsInv

----------------------------------------------------------------------------
(* The prompt.                                                                *)
LEMMA LocalsType ==
  ASSUME NEW c \in Config, NEW cs \in Seq(Calls), Locals(c, cs),
         pc' \in {"idle", "ask", "tools", "final", "connector", "direct", "reply"},
         pc' # "tools", pc' = "direct" => cs # <<>>
  PROVE  PromptInv'
<1>1. c.cwd \in Paths
  BY DEF Config
<1>2. 0 \in 0..MaxRounds /\ 0 < MaxRounds
  BY RouterAssumption
<1>3. RouterType'
  BY <1>1, <1>2 DEF Locals, RouterType
<1>4. (LoopInv /\ RunsOnce)'
  BY <1>2 DEF Locals, LoopInv, RunsOnce
<1>5. QED BY <1>3, <1>4 DEF PromptInv

LEMMA NoPromptType ==
  ASSUME NoPrompt, pc' \in {"idle", "reply"}
  PROVE  PromptInv'
<1>1. <<>> \in Seq(Calls)
  OBVIOUS
<1>2. Locals(NoConfig, <<>>)
  BY DEF NoPrompt
<1>3. QED BY <1>1, <1>2, NoConfigType, LocalsType

LEMMA RepliesKeep == ASSUME HandlerInv, Replies \/ Refuses PROVE HandlerInv'
<1>1. UNCHANGED <<sessions, reported>> /\ file' \in Config /\ result' \in Results
  BY DEF Replies, Refuses, Results, HandlerInv, ToolsInv, SessionInv, SessionType
<1>2. ToolsInv'
  BY <1>1, ToolsStay DEF HandlerInv
<1>3. PromptInv'
  BY NoPromptType DEF Replies, Refuses
<1>4. QED BY <1>2, <1>3 DEF HandlerInv

(* A message begins: nothing of the computer changes.                         *)
LEMMA StartsKeep ==
  ASSUME HandlerInv, NEW cs \in Seq(Calls), Locals(file, cs), UNCHANGED toolVars,
         pc' \in {"ask", "final", "connector", "direct"}, pc' = "direct" => cs # <<>>
  PROVE  HandlerInv'
<1>1. file \in Config /\ file' = file /\ result' = result /\ result \in Results
  BY DEF HandlerInv, ToolsInv, SessionInv, SessionType, toolVars
<1>2. ToolsInv'
  BY <1>1, ToolsStay DEF HandlerInv, toolVars, sessions
<1>3. PromptInv'
  BY <1>1, LocalsType
<1>4. QED BY <1>2, <1>3 DEF HandlerInv

LEMMA BeginKeeps == ASSUME HandlerInv, Begin(file) PROVE HandlerInv'
<1>1. <<>> \in Seq(Calls)
  OBVIOUS
<1>2. ASSUME NEW next \in {"ask", "final", "connector"}, Started(file, next) PROVE HandlerInv'
  BY <1>1, <1>2, StartsKeep DEF Started
<1>3. QED BY <1>2, RepliesKeep DEF Begin

LEMMA DirectKeeps == ASSUME HandlerInv, NEW call \in Calls, Direct(call) PROVE HandlerInv'
<1>1. <<call>> \in Seq(Calls) /\ <<call>> # <<>>
  OBVIOUS
<1>2. QED BY <1>1, StartsKeep DEF Direct

LEMMA MessageKeeps == ASSUME HandlerInv, Message PROVE HandlerInv'
<1>1. ASSUME NEW call \in SlashCalls, SlashCall(call) PROVE HandlerInv'
  BY <1>1, DirectKeeps, HandlerAssumption DEF SlashCall
<1>2. ASSUME NEW text \in Texts, RunCommand(text) PROVE HandlerInv'
  BY <1>2, BeginKeeps, RepliesKeep DEF RunCommand
<1>3. ASSUME NEW text \in Texts, PlainText(text) PROVE HandlerInv'
  <2>1. text.call \in Calls
    BY HandlerAssumption DEF Text
  <2>2. Refuses \/ Begin(file) \/ Direct(text.call)
    BY <1>3 DEF PlainText
  <2>3. QED BY <2>1, <2>2, BeginKeeps, RepliesKeep, DirectKeeps
<1>4. QED BY <1>1, <1>2, <1>3 DEF Message

(* A request of the loop; the calls it is answered with.                      *)
LEMMA SayKeeps ==
  ASSUME HandlerInv, NEW said \in {"ok", "suppressed"}, Say(said)
  PROVE  ToolsInv' /\ result' = said
<1>1. conf \in Config /\ file \in Config
  BY DEF HandlerInv, ToolsInv, SessionInv, SessionType, PromptInv, RouterType
<1>2. result' = said /\ file' = file /\ UNCHANGED <<sessions, reported>>
  BY DEF Say, Answer
<1>3. QED BY <1>1, <1>2, ToolsStay DEF HandlerInv, Results

LEMMA AskKeeps == ASSUME HandlerInv, Ask PROVE HandlerInv'
<1>1. CASE Replies
  BY <1>1, RepliesKeep
<1>2. ASSUME NEW n \in 1..MaxCalls, NEW cs \in [1..n -> ModelCalls],
             pc = "ask", calls' = cs, pc' = "tools", Say("ok"),
             UNCHANGED <<conf, round, seen, repeated, executed, wrong>>
      PROVE  HandlerInv'
  <2>1. ToolsInv'
    BY <1>2, SayKeeps
  <2>2. cs \in Seq(Calls)
    BY RouterAssumption
  <2>3. RouterType'
    BY <1>2, <2>2 DEF HandlerInv, PromptInv, RouterType
  <2>4. (LoopInv /\ RunsOnce)'
    BY <1>2, <2>1 DEF HandlerInv, PromptInv, LoopInv, RunsOnce
  <2>5. QED BY <2>1, <2>3, <2>4 DEF HandlerInv, PromptInv
<1>3. ASSUME NEW cs \in Responses
      PROVE  \E n \in 1..MaxCalls : cs \in [1..n -> ModelCalls]
  BY DEF Responses
<1>4. QED BY <1>1, <1>2, <1>3 DEF Ask

LEMMA RunCallKeeps == ASSUME HandlerInv, RunCall PROVE HandlerInv'
<1> DEFINE call == Head(calls)
<1>1. call \in Calls /\ Tail(calls) \in Seq(Calls) /\ conf \in Config
  BY DEF RunCall, HandlerInv, PromptInv, RouterType
<1>2. /\ pc = "tools" /\ calls' = Tail(calls) /\ seen' = seen \cup {call}
      /\ repeated' = (call \in seen)
      /\ UNCHANGED <<pc, conf, round>>
      /\ \/ call \in seen /\ wrong' = wrong \cup ({call} \ executed)
            /\ Say("suppressed") /\ UNCHANGED executed
         \/ /\ call \notin seen /\ wrong' = wrong \cup ({call} \cap executed)
            /\ executed' = executed \cup {call}
            /\ RunTool(conf, call)
  BY DEF RunCall, Known
<1> HIDE DEF call
<1>3. ToolsInv'
  BY <1>1, <1>2, SayKeeps, ToolKeeps DEF HandlerInv
<1>4. seen = executed /\ wrong = {}
  BY DEF HandlerInv, PromptInv, LoopInv, RunsOnce
<1>5. wrong' = {} /\ seen' = executed'
  BY <1>2, <1>4
<1>6. RouterType'
  BY <1>1, <1>2, <1>5 DEF HandlerInv, PromptInv, RouterType
<1>7. (LoopInv /\ RunsOnce)'
  BY <1>2, <1>5 DEF HandlerInv, PromptInv, LoopInv, RunsOnce
<1>8. QED BY <1>3, <1>6, <1>7 DEF HandlerInv, PromptInv

LEMMA RoundEndsKeeps == ASSUME HandlerInv, RoundEnds PROVE HandlerInv'
<1>1. /\ pc = "tools" /\ calls = <<>> /\ round' = round + 1
      /\ pc' = IF repeated \/ round + 1 = MaxRounds THEN "final" ELSE "ask"
      /\ UNCHANGED <<toolVars, conf, calls, seen, repeated, executed, wrong>>
  BY DEF RoundEnds
<1>2. round \in Nat /\ round < MaxRounds /\ MaxRounds \in Nat
  BY <1>1, RouterAssumption DEF HandlerInv, PromptInv, LoopInv, RouterType
<1>3. ToolsInv'
  BY <1>1, ToolsStay DEF HandlerInv, ToolsInv, SessionInv, SessionType, toolVars, sessions
<1>4. RouterType'
  BY <1>1, <1>2 DEF HandlerInv, PromptInv, RouterType
<1>5. (LoopInv /\ RunsOnce)'
  BY <1>1, <1>2 DEF HandlerInv, PromptInv, LoopInv, RunsOnce
<1>6. QED BY <1>3, <1>4, <1>5 DEF HandlerInv, PromptInv

LEMMA RunDirectKeeps == ASSUME HandlerInv, RunDirect PROVE HandlerInv'
<1>1. pc = "direct" /\ pc' = "reply" /\ UNCHANGED promptVars /\ RunTool(conf, Head(calls))
  BY DEF RunDirect
<1>2. conf \in Config
  BY DEF HandlerInv, PromptInv, RouterType
<1>3. ToolsInv'
  BY <1>1, <1>2, ToolKeeps DEF HandlerInv
<1>4. PromptInv'
  BY <1>1 DEF HandlerInv, PromptInv, RouterType, LoopInv, RunsOnce, promptVars
<1>5. QED BY <1>3, <1>4 DEF HandlerInv

(* A connector that is waited for has a slot, in which it runs or its programs *)
(* do; the first free slot is one slot.                                       *)
LEMMA HangsKeeps == ASSUME HandlerInv, ConnectorHangs, hung = {} PROVE HandlerInv'
<1>1. PICK p \in Procs : (Spawn(p, 0) /\ UNCHANGED kids) \/ Stay(p)
  BY DEF ConnectorHangs
<1>2. p \in hung' /\ hung' \subseteq Procs
  BY <1>1 DEF ConnectorHangs, Spawn, Stay
<1>3. /\ UNCHANGED <<file, terminals, nextId, reported>> /\ result' = "ok"
      /\ NoPrompt /\ pc' = "reply"
  BY DEF ConnectorHangs
<1>4. /\ SessionInv /\ file' \in Config /\ kids' \subseteq Procs
      /\ status \in [Procs -> Statuses] /\ "ok" \in Results
  BY <1>1, <1>3, ToolsAssumption
  DEF HandlerInv, ToolsInv, SessionInv, SessionType, Stay, Results
<1>5. SessionInv'
  <2>1. CASE Spawn(p, 0)
    BY <1>2, <1>3, <1>4, <2>1, OneAside
  <2>2. CASE Stay(p)
    <3>1. UNCHANGED <<status, id>>
      BY <2>2 DEF Stay
    <3>2. QED BY <1>2, <1>3, <1>4, <3>1, FewerProcesses
  <2>3. QED BY <1>1, <2>1, <2>2
<1>6. Unlisted' \subseteq Unlisted
  BY <1>1, <1>2, <1>3, <1>4 DEF Unlisted, Spawn, Stay
<1>7. ToolsInv'
  BY <1>3, <1>5, <1>6 DEF HandlerInv, ToolsInv
<1>8. QED BY <1>3, <1>7, NoPromptType DEF HandlerInv

(* Others' edits and the ends of processes do not touch the prompt.           *)
LEMMA OthersKeep ==
  ASSUME HandlerInv, ToolsInv', UNCHANGED <<result, pc, promptVars>>
  PROVE  HandlerInv'
BY DEF HandlerInv, PromptInv, RouterType, LoopInv, RunsOnce, promptVars

LEMMA NextHandler == HandlerInv /\ [Next]_vars => HandlerInv'
<1> SUFFICES ASSUME HandlerInv, [Next]_vars PROVE HandlerInv'
  OBVIOUS
<1>1. CASE Edit
  <2>1. file' \in Config /\ UNCHANGED <<sessions, reported, result>> /\ result \in Results
    BY <1>1, ToolsAssumption DEF Edit, HandlerInv, ToolsInv, SessionInv, SessionType
  <2>2. ToolsInv'
    BY <2>1, ToolsStay DEF HandlerInv
  <2>3. QED BY <1>1, <2>2, OthersKeep DEF Edit
<1>2. CASE Ended
  <2>1. PICK p \in Procs : (Exit(p) \/ KidsEnd(p)) /\ UNCHANGED <<pc, promptVars>>
    BY <1>2 DEF Ended
  <2>2. ToolsInv' /\ result' = result
    BY <2>1, ExitKeeps DEF HandlerInv, Exit, KidsEnd
  <2>3. QED BY <2>1, <2>2, OthersKeep
<1>3. CASE Died
  <2>1. ToolsInv'
    BY <1>3, RestartKeeps DEF Died, HandlerInv
  <2>2. PromptInv'
    BY <1>3, NoPromptType DEF Died
  <2>3. QED BY <2>1, <2>2 DEF HandlerInv
<1>4. CASE UNCHANGED vars
  <2>1. ToolsInv'
    BY <1>4, ToolsStay DEF HandlerInv, ToolsInv, SessionInv, SessionType, vars, toolVars, sessions
  <2>2. QED BY <1>4, <2>1, OthersKeep DEF vars, toolVars
<1>5. CASE Handle
  BY <1>5, AskKeeps, RunCallKeeps, RoundEndsKeeps, RunDirectKeeps, RepliesKeep, HangsKeeps
  DEF Handle, Router, Finalize, ConnectorAnswers, SendReply
<1>6. CASE Message
  BY <1>6, MessageKeeps
<1>7. QED BY <1>1, <1>2, <1>3, <1>4, <1>5, <1>6 DEF Next

LEMMA HandlerInvariant == Spec => []HandlerInv
BY InitHandler, NextHandler, PTL DEF Spec

----------------------------------------------------------------------------
(* handle_text_with_state and all below it keep the types of their state, the *)
(* bounds of rounds and of terminal ids included.                             *)
THEOREM HandlerTypeCorrect == Spec => []TypeOK
<1>1. HandlerInv => TypeOK
  BY DEF HandlerInv, ToolsInv, SessionInv, SessionType, PromptInv, TypeOK, ToolsType
<1>2. QED BY <1>1, HandlerInvariant, PTL

(* start_terminal and kill_terminal: no shell runs without being on the list  *)
(* unless a call answered with an error, or a restart, let it go, however many*)
(* were started, ended or killed before; and max_sessions holds.              *)
THEOREM ProcessesAccounted == Spec => []Accounted
<1>1. HandlerInv => Accounted
  BY DEF HandlerInv, ToolsInv, SessionInv, Accounted
<1>2. QED BY <1>1, HandlerInvariant, PTL

(* next_terminal_id: two terminals of one run of the gateway have two ids.    *)
THEOREM TerminalsOwnTheirIds == Spec => []OwnId
<1>1. HandlerInv => OwnId
  BY DEF HandlerInv, ToolsInv, SessionInv
<1>2. QED BY <1>1, HandlerInvariant, PTL

(* seen_tool_calls: no call runs twice for one prompt, and none is suppressed *)
(* that has not run.                                                          *)
THEOREM CallsRunOnce == Spec => []RunsOnce
<1>1. HandlerInv => RunsOnce
  BY DEF HandlerInv, PromptInv
<1>2. QED BY <1>1, HandlerInvariant, PTL
----------------------------------------------------------------------------
(* How long a message can take: the steps of handling that are still to come  *)
(* at most. A round is a request, its calls and its end.                      *)
RoundSteps == MaxCalls + 2
StepsLeft == CASE pc = "idle" -> 0
               [] pc \in {"direct", "connector"} -> 2
               [] pc = "ask" -> (MaxRounds - round) * RoundSteps + 1
               [] pc = "tools" -> (MaxRounds - round - 1) * RoundSteps + Len(calls) + 2
               [] OTHER -> 1

FewCalls == pc = "tools" => Len(calls) <= MaxCalls

(* What Handle does counts down, and only a new message counts up again.      *)
CountsDown == IF Handle THEN StepsLeft' < StepsLeft
              ELSE pc # "idle" => StepsLeft' <= StepsLeft

CountInv == HandlerInv /\ FewCalls

LEMMA CountType ==
  ASSUME CountInv PROVE StepsLeft \in 0..MaxRounds * RoundSteps + 1
<1>1. /\ MaxCalls \in Nat /\ MaxRounds \in Nat \ {0} /\ round \in 0..MaxRounds
      /\ RoundSteps \in Nat /\ RoundSteps >= 2 /\ RoundSteps = MaxCalls + 2
      /\ pc \in {"idle", "ask", "tools", "final", "connector", "direct", "reply"}
  BY RouterAssumption DEF RoundSteps, CountInv, HandlerInv, PromptInv, RouterType
<1>2. \A n, k, m \in Nat : n <= k => n * m \in Nat /\ n * m <= k * m
  OBVIOUS
<1>3. MaxRounds * RoundSteps \in Nat /\ MaxRounds * RoundSteps >= 2
  <2>1. 1 * RoundSteps <= MaxRounds * RoundSteps /\ MaxRounds * RoundSteps \in Nat
    BY <1>1, <1>2
  <2>2. QED BY <1>1, <2>1
<1>4. CASE pc \notin {"ask", "tools"}
  <2>1. StepsLeft \in {0, 1, 2}
    BY <1>1, <1>4 DEF StepsLeft
  <2>2. QED BY <1>3, <2>1
<1>5. CASE pc = "ask"
  <2>1. MaxRounds - round \in Nat /\ MaxRounds - round <= MaxRounds
    BY <1>1
  <2>2. /\ (MaxRounds - round) * RoundSteps \in Nat
        /\ (MaxRounds - round) * RoundSteps <= MaxRounds * RoundSteps
    BY <1>1, <1>2, <2>1
  <2>3. StepsLeft = (MaxRounds - round) * RoundSteps + 1
    BY <1>5 DEF StepsLeft
  <2>4. \A a, m \in Nat : a <= m => a + 1 \in 0..m + 1
    OBVIOUS
  <2>5. (MaxRounds - round) * RoundSteps + 1 \in 0..MaxRounds * RoundSteps + 1
    BY <1>3, <2>2, <2>4, Zenon
  <2>6. QED BY <2>3, <2>5
<1>6. CASE pc = "tools"
  <2>1. /\ MaxRounds - round - 1 \in Nat /\ MaxRounds - round - 1 <= MaxRounds - 1
        /\ MaxRounds - 1 \in Nat
    BY <1>1, <1>6 DEF CountInv, HandlerInv, PromptInv, LoopInv
  <2>2. /\ (MaxRounds - round - 1) * RoundSteps \in Nat
        /\ (MaxRounds - round - 1) * RoundSteps <= (MaxRounds - 1) * RoundSteps
    BY <1>1, <1>2, <2>1
  <2>3. (MaxRounds - 1) * RoundSteps + RoundSteps = MaxRounds * RoundSteps
    BY <1>1
  <2>4. Len(calls) \in Nat /\ Len(calls) + 2 <= RoundSteps
    BY <1>1, <1>6 DEF CountInv, HandlerInv, PromptInv, RouterType, FewCalls
  <2>5. StepsLeft = (MaxRounds - round - 1) * RoundSteps + Len(calls) + 2
    BY <1>6 DEF StepsLeft
  <2>6. (MaxRounds - 1) * RoundSteps \in Nat
    BY <1>1, <1>2, <2>1
  <2>7. \A a, b, n, l \in Nat : a <= b /\ l + 2 <= n => a + l + 2 \in 0..(b + n) + 1
    OBVIOUS
  <2>8. (MaxRounds - round - 1) * RoundSteps + Len(calls) + 2
          \in 0..((MaxRounds - 1) * RoundSteps + RoundSteps) + 1
    BY <1>1, <2>2, <2>4, <2>6, <2>7, Zenon
  <2>9. QED BY <2>3, <2>5, <2>8, Zenon
<1>7. QED BY <1>1, <1>4, <1>5, <1>6

LEMMA HandleCounts ==
  ASSUME CountInv, Handle PROVE StepsLeft' < StepsLeft /\ FewCalls'
<1>1. /\ MaxCalls \in Nat /\ MaxRounds \in Nat \ {0} /\ round \in Nat /\ calls \in Seq(Calls)
      /\ RoundSteps \in Nat /\ RoundSteps = MaxCalls + 2
      /\ pc = "tools" => round < MaxRounds
      /\ pc = "ask" => round < MaxRounds
  BY RouterAssumption
  DEF RoundSteps, CountInv, HandlerInv, PromptInv, RouterType, LoopInv
<1>2. CASE Replies /\ pc \in {"final", "connector", "reply"}
  BY <1>2 DEF Replies, StepsLeft, FewCalls
<1>2a. CASE ConnectorHangs /\ pc = "connector"
  BY <1>2a DEF ConnectorHangs, StepsLeft, FewCalls
<1>3. CASE RunDirect
  BY <1>3 DEF RunDirect, StepsLeft, FewCalls
<1>4. CASE RunCall
  <2>1. /\ pc = "tools" /\ pc' = "tools" /\ round' = round /\ calls # <<>> /\ calls' = Tail(calls)
    BY <1>4 DEF RunCall
  <2>2. Len(calls') = Len(calls) - 1 /\ Len(calls) \in Nat
    BY <1>1, <2>1
  <2>3. (MaxRounds - round - 1) * RoundSteps \in Int
    BY <1>1
  <2>4. /\ StepsLeft = (MaxRounds - round - 1) * RoundSteps + Len(calls) + 2
        /\ StepsLeft' = (MaxRounds - round - 1) * RoundSteps + Len(calls') + 2
    BY <2>1 DEF StepsLeft, RoundSteps
  <2>5. QED BY <1>1, <2>1, <2>2, <2>3, <2>4 DEF CountInv, FewCalls
<1>5. CASE RoundEnds
  <2>1. /\ pc = "tools" /\ pc' \in {"ask", "final"} /\ round' = round + 1 /\ Len(calls) = 0
    BY <1>5 DEF RoundEnds
  <2>2. /\ (MaxRounds - round - 1) * RoundSteps \in Nat
        /\ MaxRounds - (round + 1) = MaxRounds - round - 1
    <3>1. MaxRounds - round - 1 \in Nat
      BY <1>1, <2>1
    <3>2. QED BY <1>1, <3>1
  <2>3. StepsLeft = (MaxRounds - round - 1) * RoundSteps + 2
    BY <2>1, <2>2 DEF StepsLeft
  <2>4. StepsLeft' \in {(MaxRounds - round - 1) * RoundSteps + 1, 1}
    BY <2>1, <2>2 DEF StepsLeft, RoundSteps
  <2>5. QED BY <2>1, <2>2, <2>3, <2>4 DEF FewCalls
<1>6. CASE Ask
  <2>1. /\ MaxRounds - round - 1 \in Nat /\ MaxRounds - round = (MaxRounds - round - 1) + 1
    BY <1>1, <1>6 DEF Ask
  <2>2. /\ (MaxRounds - round - 1) * RoundSteps \in Nat
        /\ (MaxRounds - round) * RoundSteps = (MaxRounds - round - 1) * RoundSteps + RoundSteps
    BY <1>1, <2>1
  <2>3. StepsLeft = (MaxRounds - round) * RoundSteps + 1
    BY <1>6 DEF Ask, StepsLeft
  <2>4. CASE Replies
    <3>1. StepsLeft' = 0 /\ FewCalls'
      BY <2>4 DEF Replies, StepsLeft, FewCalls
    <3>2. QED BY <1>1, <2>2, <2>3, <3>1
  <2>5. CASE pc' = "tools" /\ round' = round /\ \E cs \in Responses : calls' = cs
    <3>1. PICK n \in 1..MaxCalls : calls' \in [1..n -> ModelCalls]
      BY <2>5 DEF Responses
    <3>2. Len(calls') = n
      BY <1>1, <3>1
    <3>3. StepsLeft' = (MaxRounds - round - 1) * RoundSteps + Len(calls') + 2
      BY <2>5 DEF StepsLeft, RoundSteps
    <3>4. QED BY <1>1, <2>2, <2>3, <3>1, <3>2, <3>3 DEF FewCalls
  <2>6. QED BY <1>6, <2>4, <2>5 DEF Ask
<1>7. QED BY <1>2, <1>2a, <1>3, <1>4, <1>5, <1>6 DEF Handle, Router, Finalize, ConnectorAnswers, SendReply

LEMMA OthersCount ==
  ASSUME CountInv, [Next]_vars, ~Handle
  PROVE  FewCalls' /\ (pc # "idle" => StepsLeft' <= StepsLeft)
<1>1. CASE UNCHANGED <<pc, round, calls>>
  <2>1. StepsLeft' = StepsLeft
    BY <1>1 DEF StepsLeft, RoundSteps
  <2>2. StepsLeft \in Int
    BY CountType
  <2>3. QED BY <1>1, <2>1, <2>2 DEF CountInv, FewCalls
<1>2. CASE Died
  <2>1. StepsLeft' = 0 /\ FewCalls'
    BY <1>2 DEF Died, StepsLeft, FewCalls
  <2>2. StepsLeft \in Nat
    BY CountType
  <2>3. QED BY <2>1, <2>2
<1>3. CASE Message
  BY <1>3 DEF Message, SlashCall, RunCommand, PlainText, Direct, Begin, Started, Refuses, FewCalls
<1>4. QED BY <1>1, <1>2, <1>3 DEF Next, Edit, Ended, vars, promptVars

LEMMA CountInvariant == Spec => []CountInv
<1>1. Init => FewCalls
  BY DEF Init, RouterInit, FewCalls
<1>2. CountInv /\ [Next]_vars => CountInv'
  BY NextHandler, HandleCounts, OthersCount DEF CountInv
<1>3. QED BY <1>1, <1>2, InitHandler, PTL DEF Spec, CountInv

(* run_google_gemini: a message is done after a number of steps fixed by the  *)
(* rounds and the calls of a response, whatever the model answers, the tools  *)
(* return and others do to the file and the processes meanwhile.              *)
THEOREM MessagesEnd ==
  Spec => [](StepsLeft \in 0..MaxRounds * RoundSteps + 1) /\ [][CountsDown]_vars
<1>1. CountInv => StepsLeft \in 0..MaxRounds * RoundSteps + 1
  BY CountType
<1>2. CountInv /\ [Next]_vars => CountsDown
  BY HandleCounts, OthersCount DEF CountsDown
<1>3. QED BY <1>1, <1>2, CountInvariant, PTL DEF Spec
----------------------------------------------------------------------------
(* docs/TELEGRAM.md:59, what the code keeps of it: the only texts that /run    *)
(* would take and a plain message does not are those with a character across  *)
(* the end of a phrase (run Apostrophe). In any others, ASCII or not, a text   *)
(* that begins with no phrase does what /run does.                            *)
THEOREM PlainTextRuns ==
  ASSUME \A text \in Texts : \A i \in DOMAIN Phrases : ~Panics(text, i)
  PROVE  Spec => PlainTextLikeRun
<1>1. ASSUME NEW text \in Texts, ~text.exact, text.begins = {}, PlainText(text)
      PROVE  RunCommand(text)
  <2>1. Hits(text) = {}
    BY <1>1 DEF Hits
  <2>2. Parse(text) = "none"
    BY <1>1, <2>1 DEF Parse
  <2>3. QED BY <1>1, <2>2 DEF PlainText, RunCommand
<1>2. \A text \in Texts :
        ~text.exact /\ text.begins = {} /\ PlainText(text) => RunCommand(text)
  BY <1>1
<1>3. QED BY <1>2, PTL DEF PlainTextLikeRun
=============================================================================

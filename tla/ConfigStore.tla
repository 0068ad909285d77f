---------------------------- MODULE ConfigStore ----------------------------
(* The config file, its last-known-good snapshots and the processes that      *)
(* share them without a lock: `watch` (main.rs, stage_with_connector_check),  *)
(* the gateway and every other command (load_with_recovery), the gateway's    *)
(* settings commands and `set` (yaml_edit::set_values) and a person with an   *)
(* editor. Between any two of a process's file operations the others run.     *)
EXTENDS Naturals, Sequences

CONSTANTS Watchers, Loaders, Setters,  \* the processes, by what they run
          Primary,                     \* the path of the config file
          Dirs,                        \* the state directories
          Fallback,                    \* default_state_dir: .pocket-harness-state
          Texts, Empty, Torn, None,    \* config texts, as in AtomicWrite
          Valid,      \* the contents parse_and_validate accepts
          Healthy,    \* the valid texts whose connectors pass check_all
          Flaky,      \* the ones whose connectors sometimes do
          Rollback,   \* recovery enabled, on_connector_break: rollback
          HotReload,  \* gateway.hot_reload.enabled
          DataDir,    \* the directory each valid text names as data_dir
          Edit,       \* what a setter or a gateway's command makes of a text
          UserTexts,  \* what a person may leave in the file, None: delete it
          MaxEdits,   \* bound: how many times people save or send a command
          Quiet,      \* bound: no save lands while a process is at one of these
          MayFail,    \* processes whose writes may fail (full disk, permissions)
          Crashing    \* processes that may be killed and started again

Procs == Watchers \cup Loaders \cup Setters
Contents == Texts \cup {Empty, Torn, None}

(* Where a process can be, named for what it does next.                       *)
PC == {"ready", "stage", "check", "snapshot", "fallback", "restoreDirs", "restoreRead",
       "copy", "restore", "lkgDirs", "lkgRead", "set", "setting", "load", "reread", "ended"}

ASSUME KindsAssumption == /\ Watchers \cap Loaders = {}
                          /\ Watchers \cap Setters = {}
                          /\ Loaders \cap Setters = {}
ASSUME PathsAssumption == Fallback \in Dirs /\ Primary \notin Dirs
ASSUME TextsAssumption == /\ Empty \notin Texts /\ Torn \notin Texts /\ Empty # Torn
                          /\ None \notin Texts \cup {Empty, Torn}
                          /\ Valid \subseteq Texts \cup {Empty, Torn}
                          /\ Healthy \subseteq Valid
                          /\ UserTexts \subseteq Texts \cup {None}
                          /\ Flaky \subseteq Valid /\ Rollback \subseteq Valid
ASSUME DataDirAssumption == DataDir \in [Valid -> Dirs]
ASSUME EditAssumption == Edit \in [Setters \cup Loaders -> [Contents -> Texts \cup {None}]]
ASSUME BoundsAssumption == MaxEdits \in Nat /\ Quiet \subseteq PC

VARIABLES file, tmp, wr,  \* the files and the writes to them: AtomicWrite
          pc,             \* where each process is
          job,            \* what its current operation holds in memory
          active,         \* the ActiveConfig it works with: text and source
          rejected,       \* the texts under rejected-configs/
          edits,          \* how often a person has saved or sent a command
          passed,         \* history: the texts that passed a connector check
          lastGood,       \* history: the last of them a watcher went on with
          raced           \* history: the paths two calls held the temporary file of

storeVars == <<pc, job, active, rejected, edits, passed, lastGood>>
vars == <<file, tmp, wr, pc, job, active, rejected, edits, passed, lastGood, raced>>

W == INSTANCE AtomicWrite WITH Paths <- Dirs \cup {Primary}, Shared <- Dirs \cup {Primary}

NoActive == [text |-> None, source |-> "none"]
NoJob == [cfg |-> None, text |-> None, dirs |-> <<>>]

Start(p) == IF p \in Setters THEN "set" ELSE "ready"

Init == /\ \E t \in UserTexts \cup {None} :
             file = [x \in Dirs \cup {Primary} |-> IF x = Primary THEN t ELSE None]
        /\ W!WriteInit
        /\ pc = [p \in Procs |-> Start(p)]
        /\ job = [p \in Procs |-> NoJob]
        /\ active = [p \in Procs |-> NoActive]
        /\ rejected = {}
        /\ edits = 0
        /\ passed = {}
        /\ lastGood = None
        /\ raced = {}

----------------------------------------------------------------------------
(* How an operation of p ends. Err leaves a watcher its active config; the    *)
(* other commands have none to go on with.                                    *)
Rest(p) == IF p \in Setters THEN "ended" ELSE "ready"

Succeed(p, text, source) ==
    /\ active' = [active EXCEPT ![p] = [text |-> text, source |-> source]]
    /\ job' = [job EXCEPT ![p] = NoJob]
    /\ pc' = [pc EXCEPT ![p] = Rest(p)]

Err(p) ==
    /\ active' = [active EXCEPT ![p] = IF p \in Watchers THEN active[p] ELSE NoActive]
    /\ job' = [job EXCEPT ![p] = NoJob]
    /\ pc' = [pc EXCEPT ![p] = Rest(p)]

Goto(p, label) == pc' = [pc EXCEPT ![p] = label]

----------------------------------------------------------------------------
(* promote(config, text): a snapshot of text into cfg's data_dir and then     *)
(* into the fallback directory; an error of either is only logged.            *)
PromoteBegin(p, cfg, text) ==
    /\ W!BeginWrite(p, DataDir[cfg], text)
    /\ job' = [job EXCEPT ![p].cfg = cfg, ![p].text = text]
    /\ Goto(p, "snapshot")

PromoteFallback(p) ==
    /\ pc[p] = "snapshot" /\ ~W!Writing(p)
    /\ DataDir[job[p].cfg] # Fallback
    /\ W!BeginWrite(p, Fallback, job[p].text)
    /\ Goto(p, "fallback")
    /\ UNCHANGED <<file, tmp, job, active, rejected, edits, passed, lastGood, raced>>

(* Mutant: the fallback directory may be left without a snapshot.             *)
PromotedEarly(p) ==
    /\ pc[p] \in {"snapshot", "fallback"} /\ ~W!Writing(p)
    /\ Succeed(p, job[p].cfg, "primary")
    /\ lastGood' = IF p \in Watchers THEN job[p].cfg ELSE lastGood
    /\ UNCHANGED <<file, tmp, wr, rejected, edits, passed, raced>>

Promoted(p) ==
    /\ \/ pc[p] = "snapshot" /\ DataDir[job[p].cfg] = Fallback
       \/ pc[p] = "fallback"
    /\ ~W!Writing(p)
    /\ Succeed(p, job[p].cfg, "primary")
    /\ lastGood' = IF p \in Watchers THEN job[p].cfg ELSE lastGood
    /\ UNCHANGED <<file, tmp, wr, rejected, edits, passed, raced>>

(* Mutant: the snapshot of a broken config is looked for beside the config.   *)
BestDirOfFile == IF file[Primary] \in Valid THEN DataDir[file[Primary]] ELSE Primary

(* candidate_state_dirs: the data_dir of the config the primary holds NOW,    *)
(* if it loads, then the fallback.                                            *)
BestDir == IF file[Primary] \in Valid THEN DataDir[file[Primary]] ELSE Fallback
CandidateDirs == IF BestDir = Fallback THEN <<Fallback>> ELSE <<BestDir, Fallback>>

FindCandidates(p) ==
    /\ \/ pc[p] = "restoreDirs" /\ Goto(p, "restoreRead")
       \/ pc[p] = "lkgDirs" /\ Goto(p, "lkgRead")
    /\ job' = [job EXCEPT ![p].dirs = CandidateDirs]
    /\ UNCHANGED <<file, tmp, wr, active, rejected, edits, passed, lastGood, raced>>

(* read_last_known_good_text: the first candidate that can be READ.           *)
SkipCandidate(p) ==
    /\ pc[p] \in {"restoreRead", "lkgRead"}
    /\ job[p].dirs # <<>> /\ file[Head(job[p].dirs)] = None
    /\ job' = [job EXCEPT ![p].dirs = Tail(@)]
    /\ UNCHANGED <<file, tmp, wr, pc, active, rejected, edits, passed, lastGood, raced>>

NoCandidate(p) ==
    /\ pc[p] \in {"restoreRead", "lkgRead"}
    /\ job[p].dirs = <<>>
    /\ Err(p)
    /\ UNCHANGED <<file, tmp, wr, rejected, edits, passed, lastGood, raced>>

ReadableCandidate(p) == job[p].dirs # <<>> /\ file[Head(job[p].dirs)] # None

(* load_last_known_good: the text it read must parse and validate.            *)
LoadLastKnownGood(p) ==
    LET text == file[Head(job[p].dirs)] IN
    /\ pc[p] = "lkgRead" /\ ReadableCandidate(p)
    /\ \/ text \in Valid /\ Succeed(p, text, "lkg")
       \/ text \notin Valid /\ Err(p)
    /\ UNCHANGED <<file, tmp, wr, rejected, edits, passed, lastGood, raced>>

(* restore_last_known_good_to_primary: read the snapshot without parsing it,  *)
(* copy the primary away, replace it, and only then load the snapshot again.  *)
RestoreRead(p) ==
    /\ pc[p] = "restoreRead" /\ ReadableCandidate(p)
    /\ job' = [job EXCEPT ![p].text = file[Head(job[p].dirs)]]
    /\ Goto(p, "copy")
    /\ UNCHANGED <<file, tmp, wr, active, rejected, edits, passed, lastGood, raced>>

CopyRejected(p) ==
    /\ pc[p] = "copy"
    /\ rejected' = rejected \cup ({file[Primary]} \ {None})
    /\ W!BeginWrite(p, Primary, job[p].text)
    /\ Goto(p, "restore")
    /\ UNCHANGED <<file, tmp, job, active, edits, passed, lastGood, raced>>

(* The copy fails (create_dir_all, fs::copy) and nothing is restored.         *)
CopyFails(p) ==
    /\ p \in MayFail /\ pc[p] = "copy"
    /\ Err(p)
    /\ UNCHANGED <<file, tmp, wr, rejected, edits, passed, lastGood, raced>>

Restored(p) ==
    /\ pc[p] = "restore" /\ ~W!Writing(p)
    /\ \/ wr[p].stage = "done" /\ Goto(p, "lkgDirs") /\ UNCHANGED <<job, active>>
       \/ wr[p].stage = "failed" /\ Err(p)
    /\ UNCHANGED <<file, tmp, wr, rejected, edits, passed, lastGood, raced>>

----------------------------------------------------------------------------
(* watch_config: stage at startup until it succeeds, then whenever a poll     *)
(* reads a primary other than the active text, if the active config says so.  *)
(* stage_with_connector_check reads the primary again.                        *)
Poll(p) ==
    /\ p \in Watchers /\ pc[p] = "ready"
    /\ active[p] # NoActive => /\ active[p].text \in HotReload
                               /\ file[Primary] \notin {None, active[p].text}
    /\ Goto(p, "stage")
    /\ UNCHANGED <<file, tmp, wr, job, active, rejected, edits, passed, lastGood, raced>>

(* Mutant: the text is promoted before its connectors are checked.            *)
StagePromotes(p) ==
    /\ pc[p] = "stage"
    /\ \/ /\ file[Primary] \in Valid
          /\ PromoteBegin(p, file[Primary], file[Primary])
          /\ UNCHANGED active
       \/ file[Primary] \notin Valid /\ Err(p) /\ UNCHANGED wr
    /\ UNCHANGED <<file, tmp, rejected, edits, passed, lastGood, raced>>

StageRead(p) ==
    /\ pc[p] = "stage"
    /\ \/ /\ file[Primary] \in Valid
          /\ job' = [job EXCEPT ![p].text = file[Primary]]
          /\ Goto(p, "check")
          /\ UNCHANGED active
       \/ file[Primary] \notin Valid /\ Err(p)
    /\ UNCHANGED <<file, tmp, wr, rejected, edits, passed, lastGood, raced>>

CheckPass(p) ==
    /\ pc[p] = "check" /\ job[p].text \in Healthy \cup Flaky
    /\ passed' = passed \cup {job[p].text}
    /\ PromoteBegin(p, job[p].text, job[p].text)
    /\ UNCHANGED <<file, tmp, active, rejected, edits, lastGood, raced>>

(* Mutants: the failed check only warns; the rollback leaves the primary.     *)
CheckWarns(p) ==
    /\ pc[p] = "check" /\ job[p].text \notin Healthy
    /\ Succeed(p, job[p].text, "primary")
    /\ UNCHANGED <<file, tmp, wr, rejected, edits, passed, lastGood, raced>>

CheckLoadsOnly(p) ==
    /\ pc[p] = "check" /\ job[p].text \notin Healthy
    /\ \/ job[p].text \in Rollback /\ Goto(p, "lkgDirs") /\ UNCHANGED <<job, active>>
       \/ job[p].text \notin Rollback /\ Err(p)
    /\ UNCHANGED <<file, tmp, wr, rejected, edits, passed, lastGood, raced>>

CheckFail(p) ==
    /\ pc[p] = "check" /\ job[p].text \notin Healthy
    /\ \/ job[p].text \in Rollback /\ Goto(p, "restoreDirs") /\ UNCHANGED <<job, active>>
       \/ job[p].text \notin Rollback /\ Err(p)
    /\ UNCHANGED <<file, tmp, wr, rejected, edits, passed, lastGood, raced>>

Watch(p) == Poll(p) \/ StageRead(p) \/ CheckPass(p) \/ CheckFail(p)

----------------------------------------------------------------------------
(* Mutants: an invalid primary is an error; or it is promoted under the       *)
(* config the gateway still has.                                              *)
LoadOrErr(p) ==
    /\ \/ p \in Loaders /\ pc[p] = "ready"
       \/ p \in Setters /\ pc[p] = "load"
    /\ \/ /\ file[Primary] \in Valid
          /\ job' = [job EXCEPT ![p].cfg = file[Primary]]
          /\ Goto(p, "reread")
          /\ UNCHANGED active
       \/ file[Primary] \notin Valid /\ Err(p)
    /\ UNCHANGED <<file, tmp, wr, rejected, edits, passed, lastGood, raced>>

LoadOrKeep(p) ==
    /\ p \in Loaders /\ pc[p] = "ready"
    /\ {file[Primary], active[p].text} \cap Valid # {}
    /\ job' = [job EXCEPT ![p].cfg = IF file[Primary] \in Valid THEN file[Primary]
                                                               ELSE active[p].text]
    /\ Goto(p, "reread")
    /\ UNCHANGED <<file, tmp, wr, active, rejected, edits, passed, lastGood, raced>>

(* load_with_recovery: what the gateway does on every poll and every message, *)
(* and `set`, `run`, `check` once. It reads the primary twice, and promotes   *)
(* the second text under the first one's config.                              *)
LoadPrimary(p) ==
    /\ \/ p \in Loaders /\ pc[p] = "ready"
       \/ p \in Setters /\ pc[p] = "load"
    /\ \/ /\ file[Primary] \in Valid
          /\ job' = [job EXCEPT ![p].cfg = file[Primary]]
          /\ Goto(p, "reread")
       \/ /\ file[Primary] \notin Valid
          /\ Goto(p, "lkgDirs")
          /\ UNCHANGED job
    /\ UNCHANGED <<file, tmp, wr, active, rejected, edits, passed, lastGood, raced>>

Reread(p) ==
    /\ pc[p] = "reread"
    /\ \/ file[Primary] # None /\ PromoteBegin(p, job[p].cfg, file[Primary]) /\ UNCHANGED active
       \/ file[Primary] = None /\ Err(p) /\ UNCHANGED wr
    /\ UNCHANGED <<file, tmp, rejected, edits, passed, lastGood, raced>>

(* Mutant: the edited text is written without validating it.                  *)
SetUnvalidated(p) ==
    /\ pc[p] = "set" /\ Edit[p][file[Primary]] # None
    /\ W!BeginWrite(p, Primary, Edit[p][file[Primary]])
    /\ Goto(p, "setting")
    /\ UNCHANGED <<file, tmp, job, active, rejected, edits, passed, lastGood, raced>>

(* yaml_edit::set_values: read, edit, validate the result, write it back.     *)
SetRead(p) ==
    LET new == Edit[p][file[Primary]] IN
    /\ pc[p] = "set"
    /\ \/ /\ file[Primary] # None /\ new \in Valid
          /\ W!BeginWrite(p, Primary, new)
          /\ Goto(p, "setting")
          /\ UNCHANGED <<job, active>>
       \/ (file[Primary] = None \/ new \notin Valid) /\ Err(p) /\ UNCHANGED wr
    /\ UNCHANGED <<file, tmp, rejected, edits, passed, lastGood, raced>>

(* A message the gateway handles sets a value: /provider, /use, /model,       *)
(* /token, /ai, and cd as a command or a tool. set_values as above, with the  *)
(* outcome in the reply: the gateway goes on with the config it has. An edit  *)
(* that does not validate is an error and leaves no trace.                    *)
Command(p) ==
    LET new == Edit[p][file[Primary]] IN
    /\ p \in Loaders /\ pc[p] = "ready" /\ active[p] # NoActive
    /\ edits < MaxEdits /\ edits' = edits + 1
    /\ file[Primary] # None /\ new \in Valid
    /\ W!BeginWrite(p, Primary, new)
    /\ Goto(p, "setting")
    /\ UNCHANGED <<file, tmp, job, active, rejected, passed, lastGood, raced>>

SetWritten(p) ==
    /\ pc[p] = "setting" /\ ~W!Writing(p)
    /\ \/ p \in Loaders /\ Goto(p, "ready") /\ UNCHANGED <<job, active>>
       \/ p \in Setters /\ wr[p].stage = "done" /\ Goto(p, "load") /\ UNCHANGED <<job, active>>
       \/ p \in Setters /\ wr[p].stage = "failed" /\ Err(p)
    /\ UNCHANGED <<file, tmp, wr, rejected, edits, passed, lastGood, raced>>

----------------------------------------------------------------------------
(* The person at the editor, or with rm.                                      *)
Save(t) ==
    /\ edits < MaxEdits
    /\ \A p \in Procs : pc[p] \notin Quiet
    /\ file' = [file EXCEPT ![Primary] = t]
    /\ edits' = edits + 1
    /\ UNCHANGED <<tmp, wr, pc, job, active, rejected, passed, lastGood, raced>>

(* A process is killed, at any point, and started again (a setter is not).    *)
Crash(p) ==
    /\ p \in Crashing /\ pc[p] # "ended"
    /\ wr' = [wr EXCEPT ![p].stage = IF W!Writing(p) THEN "failed" ELSE @]
    /\ pc' = [pc EXCEPT ![p] = Rest(p)]
    /\ job' = [job EXCEPT ![p] = NoJob]
    /\ active' = [active EXCEPT ![p] = NoActive]
    /\ UNCHANGED <<file, tmp, rejected, edits, passed, lastGood, raced>>

(* q's temporary file for x is between its creation and its rename.           *)
Holds(q, x) == wr[q].stage \in {"filling", "rename"} /\ wr[q].path = x

(* Nothing keeps two calls from holding one temporary file; history has it.   *)
Races(p) == raced' = raced \cup {x \in {wr[p].path} : /\ wr[p].stage = "open"
                                                     /\ wr'[p].stage = "filling"
                                                     /\ \E q \in Procs \ {p} : Holds(q, x)}

WriteOn(p) == W!WriteStep(p) /\ Races(p) /\ UNCHANGED storeVars
Writes(p) == \/ WriteOn(p)
             \/ W!CutShort(p) /\ UNCHANGED <<storeVars, raced>>

Operate(p) ==
    \/ Watch(p)
    \/ LoadPrimary(p) \/ Reread(p)
    \/ SetRead(p) \/ SetWritten(p)
    \/ PromoteFallback(p) \/ Promoted(p)
    \/ FindCandidates(p) \/ SkipCandidate(p) \/ NoCandidate(p)
    \/ LoadLastKnownGood(p) \/ RestoreRead(p) \/ CopyRejected(p) \/ Restored(p)

Next == \/ \E p \in Procs : \/ Operate(p) \/ CopyFails(p) \/ Command(p)
                         \/ Writes(p) \/ Crash(p)
        \/ \E t \in UserTexts : Save(t)

Spec == Init /\ [][Next]_vars

(* A process that is running goes on: sleeps and health checks end            *)
(* (connector.rs bounds them with a timeout), system calls return.            *)
FairSpec == Spec /\ \A p \in Procs : WF_vars(Operate(p) \/ WriteOn(p))

----------------------------------------------------------------------------
JobType == [cfg : Contents, text : Contents, dirs : Seq(Dirs)]
ActiveType == [text : Contents, source : {"none", "primary", "lkg"}]

TypeOK == /\ W!WriteType
          /\ pc \in [Procs -> PC]
          /\ job \in [Procs -> JobType]
          /\ active \in [Procs -> ActiveType]
          /\ rejected \subseteq Contents
          /\ edits \in 0..MaxEdits
          /\ passed \subseteq Valid
          /\ lastGood \in Contents
          /\ raced \subseteq Dirs \cup {Primary}

(* Only a config that parsed and validated is checked, promoted or works      *)
(* (inductive beside TypeOK).                                                 *)
OnlyValid ==
    \A p \in Procs :
      /\ pc[p] = "check" => job[p].text \in Valid
      /\ pc[p] \in {"reread", "snapshot", "fallback"} => job[p].cfg \in Valid
      /\ active[p].text \in Valid \cup {None}

(* docs/RELIABILITY.md: where only `watch` writes snapshots, each holds a     *)
(* text that passed its connector check, whole, whatever is saved meanwhile   *)
(* and wherever a write fails or the process dies.                            *)
SnapshotsVetted == \A d \in Dirs : file[d] \in passed \cup {None}

(* docs/RELIABILITY.md: `watch` works with configs that passed the connector  *)
(* check, the one it rolled back to included.                                 *)
ActiveVetted == \A p \in Watchers : active[p].text \in passed \cup {None}

(* Why both hold for one watcher (inductive beside TypeOK and OnlyValid):     *)
(* everything it promotes or restores has passed, and so has everything it is *)
(* writing; nothing else writes a snapshot.                                   *)
OnlyPassedInFlight ==
    \A p \in Watchers :
      /\ pc[p] \notin {"set", "setting", "load", "reread", "ended"}
      /\ pc[p] \in {"snapshot", "fallback"} => {job[p].cfg, job[p].text} \subseteq passed
      /\ pc[p] = "copy" => job[p].text \in passed
      /\ W!Writing(p) => wr[p].text \in passed
      /\ wr[p].stage = "filling" => wr[p].at = "tmp" /\ tmp[wr[p].path] = Empty
      /\ wr[p].stage = "rename" => tmp[wr[p].path] = wr[p].text

VettedInv == SnapshotsVetted /\ ActiveVetted /\ OnlyPassedInFlight

(* docs/RELIABILITY.md: a rollback goes back to the last config that was good,*)
(* not to an older one (not so where a broken text names another data_dir, or *)
(* a write failed: see the theorem RollsBack).                                *)
RollsBackToLast ==
    [][\A p \in Watchers : active'[p] # active[p] /\ active'[p].source = "lkg"
          => active'[p].text = lastGood]_vars

(* main.rs:57 and docs/RELIABILITY.md: changes are transactional and a         *)
(* rollback destroys nobody's edit: the text it replaces in the primary is    *)
(* among the rejected configs. (config_store.rs:195 copies, then renames,     *)
(* and keeps nobody from saving in between: run RollbackRace.)                *)
RollbackKeepsText ==
    [][\A p \in Watchers : pc[p] = "restore" /\ wr[p].stage = "rename" /\ wr'[p].stage = "done"
          => file[Primary] \in rejected' \cup {None}]_vars

(* main.rs watch loop: once people stop saving and nothing fails any more,    *)
(* what `watch` works with and what the config file says agree for good,      *)
(* unless the file is one it must refuse or the active config turned hot      *)
(* reload off; whatever failed before, in whatever step, left nothing behind. *)
Refused == \/ file[Primary] \notin Valid
           \/ /\ file[Primary] \notin Healthy
              /\ file[Primary] \notin Rollback \/ \A d \in Dirs : file[d] = None

Calm == [][\A p \in Watchers : ~(Crash(p) \/ CopyFails(p) \/ W!CutShort(p))]_vars

Converges ==
    <>Calm => \A p \in Watchers :
      <>[](\/ active[p].text = file[Primary]
           \/ active[p] # NoActive /\ active[p].text \notin HotReload
           \/ Refused)

(* docs/CONFIG.md:120: snapshots exist so that bad edits do not take the      *)
(* gateway down: one that had a config always has one, whatever is saved, set *)
(* or deleted, as long as no two calls hold one temporary file.               *)
GatewayStaysUp ==
    [][\A p \in Loaders : raced = {} /\ active[p] # NoActive => active'[p] # NoActive]_vars

(* RELIABILITY.md:20: a snapshot parses and validates, until two calls hold   *)
(* one temporary file (see SnapshotsCatchUp for what happens after that).     *)
SnapshotsValid == raced = {} => \A d \in Dirs : file[d] \in Valid \cup {None}

(* The gateway's polling heals the snapshots: once people stop saving, a      *)
(* valid config file ends up in both of its snapshots and stays there.        *)
SnapshotsCatchUp ==
    <>[](file[Primary] \in Valid =>
           file[DataDir[file[Primary]]] = file[Primary] /\ file[Fallback] = file[Primary])

(* docs/CONFIG.md:27: whoever else sets a value at the same time, readers     *)
(* find the config file whole. (The temporary file is shared: run SetRace.)   *)
PrimaryWhole == W!Whole(Primary)

(* yaml_edit::set_values: whatever people save or delete in the meantime, and *)
(* wherever a call fails, no process leaves a config file that is invalid or  *)
(* half-written; until two calls hold one temporary file, of the config or,   *)
(* beside a watcher that restores one, of a snapshot.                         *)
Kept == IF Watchers = {} THEN {Primary} ELSE Dirs \cup {Primary}
PrimaryStaysValid ==
    [][file'[Primary] # file[Primary] /\ wr' # wr /\ raced' \cap Kept = {} =>
         file'[Primary] \in Valid]_vars
=============================================================================

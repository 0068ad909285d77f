-------------------------- MODULE ConfigStoreProofs --------------------------
(* For any processes, texts, directories and faults.                          *)
EXTENDS ConfigStore, SequenceTheorems, TLAPS

TypeInv == TypeOK /\ OnlyValid

LEMMA InitTypeInv == Init => TypeInv
<1> SUFFICES ASSUME Init PROVE TypeInv
  OBVIOUS
<1>1. W!WriteType
  BY TextsAssumption
  DEF Init, W!WriteInit, W!WriteType, W!Contents, W!Stage, W!Where, Procs
<1>2. /\ pc \in [Procs -> PC] /\ job \in [Procs -> JobType] /\ active \in [Procs -> ActiveType]
      /\ OnlyValid
  BY EmptySeq DEF Init, Start, PC, JobType, NoJob, ActiveType, NoActive, Contents, OnlyValid
<1>3. rejected \subseteq Contents /\ edits \in 0..MaxEdits /\ passed \subseteq Valid
      /\ lastGood \in Contents /\ raced \subseteq Dirs \cup {Primary}
  BY BoundsAssumption DEF Init, Contents
<1>4. QED BY <1>1, <1>2, <1>3 DEF TypeInv, TypeOK

(* The steps of atomic_write keep the type of its own state.                  *)
LEMMA WritesType == ASSUME W!WriteType, NEW p \in Procs, W!WriteStep(p) \/ W!CutShort(p)
                    PROVE  W!WriteType'
<1> USE DEF W!WriteType, W!Stage, W!Where, W!Contents
<1>1. CASE W!OpenTmp(p)
  BY ZenonT(60), <1>1 DEF W!OpenTmp
<1>2. CASE W!FillTmp(p)
  BY <1>2 DEF W!FillTmp, W!Overlay
<1>3. CASE W!RenameTmp(p)
  BY <1>3 DEF W!RenameTmp, W!Moved
<1>4. CASE W!FailWrite(p)
  BY <1>4 DEF W!FailWrite
<1>5. QED BY <1>1, <1>2, <1>3, <1>4 DEF W!WriteStep, W!RenameMissing, W!CutShort

(* What an operation's beginning of a write needs.                            *)
LEMMA BeginWriteType == ASSUME W!WriteType, NEW p \in Procs, NEW x \in Dirs \cup {Primary},
                               NEW t \in Contents, W!BeginWrite(p, x, t), UNCHANGED <<file, tmp>>
                        PROVE  W!WriteType'
  BY DEF W!WriteType, W!Stage, W!Where, W!Contents, W!BeginWrite, Contents

LEMMA CandidateDirsType == CandidateDirs \in Seq(Dirs)
  BY PathsAssumption, DataDirAssumption DEF CandidateDirs, BestDir

LEMMA PromoteBeginType ==
    ASSUME TypeInv, NEW p \in Procs, NEW cfg \in Valid, NEW text \in Contents,
           PromoteBegin(p, cfg, text), UNCHANGED <<file, tmp, active>>
    PROVE  W!WriteType' /\ pc' \in [Procs -> PC] /\ job' \in [Procs -> JobType]
           /\ OnlyValid'
<1> USE DEF TypeInv, TypeOK
<1>1. DataDir[cfg] \in Dirs /\ cfg \in Contents
  BY DataDirAssumption, TextsAssumption DEF Contents
<1>2. W!WriteType'
  BY <1>1, BeginWriteType DEF PromoteBegin
<1>3. pc' \in [Procs -> PC] /\ job' \in [Procs -> JobType] /\ OnlyValid'
  BY ZenonT(60), <1>1 DEF PromoteBegin, Goto, PC, JobType, OnlyValid
<1>4. QED BY <1>2, <1>3

LEMMA EndType ==
    ASSUME TypeInv, NEW p \in Procs,
           \/ Err(p)
           \/ \E t \in Valid, s \in {"primary", "lkg"} : Succeed(p, t, s)
    PROVE  /\ pc' \in [Procs -> PC] /\ job' \in [Procs -> JobType] /\ active' \in [Procs -> ActiveType]
           /\ OnlyValid'
<1> USE DEF TypeInv, TypeOK, PC, JobType, ActiveType, NoJob, NoActive, Rest, OnlyValid, Contents
<1>1. <<>> \in Seq(Dirs)
  BY EmptySeq
<1>2. CASE Err(p)
  BY <1>1, <1>2 DEF Err
<1>3. ASSUME NEW t \in Valid, NEW s \in {"primary", "lkg"}, Succeed(p, t, s)
      PROVE  /\ pc' \in [Procs -> PC] /\ job' \in [Procs -> JobType]
             /\ active' \in [Procs -> ActiveType] /\ OnlyValid'
  BY <1>1, <1>3, TextsAssumption DEF Succeed
<1>4. QED BY <1>2, <1>3

LEMMA StepTypeInv == TypeInv /\ [Next]_vars => TypeInv'
<1> SUFFICES ASSUME TypeInv, [Next]_vars PROVE TypeInv'
  OBVIOUS
<1> USE DEF TypeInv, TypeOK
<1>1. CASE UNCHANGED vars
  BY <1>1 DEF vars, W!WriteType, OnlyValid
<1>2. ASSUME NEW t \in UserTexts, Save(t) PROVE TypeInv'
  <2>1. W!WriteType'
    BY <1>2, TextsAssumption DEF Save, W!WriteType, W!Contents
  <2>2. QED
    BY <1>2, <2>1, BoundsAssumption DEF Save, OnlyValid
<1>3. ASSUME NEW p \in Procs, Writes(p) PROVE TypeInv'
  <2>1. W!WriteType' /\ UNCHANGED storeVars
    BY <1>3, WritesType DEF Writes, WriteOn
  <2>2. raced' \subseteq Dirs \cup {Primary}
    BY <1>3 DEF Writes, WriteOn, Races, W!WriteType
  <2>3. QED BY <2>1, <2>2 DEF storeVars, OnlyValid
<1>4. ASSUME NEW p \in Procs, Crash(p) PROVE TypeInv'
  <2>1. W!WriteType'
    BY SMTT(30), <1>4 DEF Crash, W!WriteType, W!Stage, W!Where
  <2>2. <<>> \in Seq(Dirs)
    BY EmptySeq
  <2>3. /\ pc' \in [Procs -> PC] /\ job' \in [Procs -> JobType]
        /\ active' \in [Procs -> ActiveType] /\ OnlyValid'
    BY <1>4, <2>2 DEF Crash, Rest, PC, JobType, NoJob, ActiveType, NoActive, Contents, OnlyValid
  <2>4. QED BY <1>4, <2>1, <2>3 DEF Crash
<1>5. ASSUME NEW p \in Procs, Operate(p) PROVE TypeInv'
  <2> DEFINE Shape == /\ pc \in [Procs -> PC] /\ job \in [Procs -> JobType]
                      /\ active \in [Procs -> ActiveType] /\ OnlyValid
  <2>1. CASE Poll(p)
    BY <2>1 DEF Poll, Goto, PC, W!WriteType, OnlyValid
  <2>2. CASE StageRead(p)
    <3>1. Shape'
      <4>1. CASE Err(p)
        BY <4>1, EndType
      <4>2. CASE ~Err(p)
        <5>1. /\ file[Primary] \in Valid /\ file[Primary] \in Contents
              /\ job' = [job EXCEPT ![p].text = file[Primary]]
              /\ pc' = [pc EXCEPT ![p] = "check"]
              /\ UNCHANGED active
          BY <2>2, <4>2, TextsAssumption DEF StageRead, Goto, Contents
        <5>2. QED BY ZenonT(60), <5>1 DEF PC, JobType, OnlyValid
      <4>3. QED BY <4>1, <4>2
    <3>2. QED BY <2>2, <3>1 DEF StageRead, W!WriteType
  <2>3. CASE CheckPass(p)
    <3>1. job[p].text \in Valid /\ job[p].text \in Contents
      BY <2>3 DEF CheckPass, OnlyValid, JobType
    <3>2. W!WriteType' /\ Shape'
      BY <2>3, <3>1, PromoteBeginType DEF CheckPass
    <3>3. QED BY <2>3, <3>1, <3>2 DEF CheckPass
  <2>4. CASE CheckFail(p)
    <3>1. Shape'
      <4>1. CASE Err(p)
        BY <4>1, EndType
      <4>2. CASE ~Err(p)
        BY <2>4, <4>2 DEF CheckFail, Goto, PC, OnlyValid
      <4>3. QED BY <4>1, <4>2
    <3>2. QED BY <2>4, <3>1 DEF CheckFail, W!WriteType
  <2>5. CASE LoadPrimary(p)
    <3>1. Shape'
      <4>1. CASE file[Primary] \in Valid
        <5>1. /\ file[Primary] \in Contents
              /\ job' = [job EXCEPT ![p].cfg = file[Primary]]
              /\ pc' = [pc EXCEPT ![p] = "reread"]
              /\ UNCHANGED active
          BY <2>5, <4>1, TextsAssumption DEF LoadPrimary, Goto, Contents
        <5>2. QED BY ZenonT(60), <4>1, <5>1 DEF PC, JobType, OnlyValid
      <4>2. CASE file[Primary] \notin Valid
        BY <2>5, <4>2 DEF LoadPrimary, Goto, PC, OnlyValid
      <4>3. QED BY <4>1, <4>2
    <3>2. QED BY <2>5, <3>1 DEF LoadPrimary, W!WriteType
  <2>6. CASE Reread(p)
    <3>1. job[p].cfg \in Valid
      BY <2>6 DEF Reread, OnlyValid
    <3>2. file[Primary] \in Contents
      BY DEF W!WriteType, W!Contents, Contents
    <3>3. CASE PromoteBegin(p, job[p].cfg, file[Primary]) /\ UNCHANGED active
      <4>1. W!WriteType' /\ Shape'
        BY <2>6, <3>1, <3>2, <3>3, PromoteBeginType DEF Reread
      <4>2. QED BY <2>6, <4>1 DEF Reread
    <3>4. CASE Err(p) /\ UNCHANGED wr
      <4>1. Shape'
        BY <3>4, EndType
      <4>2. QED BY <2>6, <3>4, <4>1 DEF Reread, W!WriteType
    <3>5. QED BY <2>6, <3>3, <3>4 DEF Reread
  <2>7. CASE SetRead(p)
    <3>1. CASE Err(p) /\ UNCHANGED wr
      <4>1. Shape'
        BY <3>1, EndType
      <4>2. QED BY <2>7, <3>1, <4>1 DEF SetRead, W!WriteType
    <3>2. CASE ~(Err(p) /\ UNCHANGED wr)
      <4> DEFINE new == Edit[p][file[Primary]]
      <4>1. /\ new \in Valid /\ W!BeginWrite(p, Primary, new)
            /\ Goto(p, "setting") /\ UNCHANGED <<job, active>>
        BY <2>7, <3>2 DEF SetRead
      <4>2. W!WriteType'
        BY <2>7, <4>1, BeginWriteType, TextsAssumption DEF SetRead, Contents
      <4>3. Shape'
        BY <4>1 DEF Goto, PC, OnlyValid
      <4>4. QED BY <2>7, <4>2, <4>3 DEF SetRead
    <3>3. QED BY <3>1, <3>2
  <2>8. CASE SetWritten(p)
    <3>1. Shape'
      <4>1. CASE Err(p)
        BY <4>1, EndType
      <4>2. CASE ~Err(p)
        BY <2>8, <4>2 DEF SetWritten, Goto, PC, OnlyValid
      <4>3. QED BY <4>1, <4>2
    <3>2. QED BY <2>8, <3>1 DEF SetWritten, W!WriteType
  <2>9. CASE PromoteFallback(p)
    <3>1. W!WriteType'
      BY <2>9, BeginWriteType, PathsAssumption DEF PromoteFallback, JobType
    <3>2. Shape'
      BY <2>9 DEF PromoteFallback, Goto, PC, OnlyValid
    <3>3. QED BY <2>9, <3>1, <3>2 DEF PromoteFallback
  <2>10. CASE Promoted(p)
    <3>1. job[p].cfg \in Valid /\ job[p].cfg \in Contents
      BY <2>10 DEF Promoted, OnlyValid, JobType
    <3>2. Shape'
      BY <2>10, <3>1, EndType DEF Promoted
    <3>3. QED BY <2>10, <3>1, <3>2 DEF Promoted, W!WriteType
  <2>11. CASE FindCandidates(p)
    <3>1. Shape'
      BY ZenonT(60), <2>11, CandidateDirsType DEF FindCandidates, Goto, PC, JobType, OnlyValid
    <3>2. QED BY <2>11, <3>1 DEF FindCandidates, W!WriteType
  <2>12. CASE SkipCandidate(p)
    <3>1. Tail(job[p].dirs) \in Seq(Dirs)
      BY <2>12, HeadTailProperties DEF SkipCandidate, JobType
    <3>2. Shape'
      BY <2>12, <3>1 DEF SkipCandidate, JobType, OnlyValid
    <3>3. QED BY <2>12, <3>2 DEF SkipCandidate, W!WriteType
  <2>13. CASE NoCandidate(p)
    BY <2>13, EndType DEF NoCandidate, W!WriteType
  <2>14. CASE LoadLastKnownGood(p)
    <3>1. Shape'
      BY <2>14, EndType DEF LoadLastKnownGood
    <3>2. QED BY <2>14, <3>1 DEF LoadLastKnownGood, W!WriteType
  <2>15. CASE RestoreRead(p)
    <3>1. Head(job[p].dirs) \in Dirs
      BY <2>15, HeadTailProperties DEF RestoreRead, ReadableCandidate, JobType
    <3>2. Shape'
      BY ZenonT(60), <2>15, <3>1 DEF RestoreRead, Goto, PC, JobType, OnlyValid, W!WriteType, W!Contents, Contents
    <3>3. QED BY <2>15, <3>2 DEF RestoreRead, W!WriteType
  <2>16. CASE CopyRejected(p)
    <3>1. W!WriteType'
      BY <2>16, BeginWriteType DEF CopyRejected, JobType
    <3>2. Shape'
      BY <2>16 DEF CopyRejected, Goto, PC, OnlyValid
    <3>3. rejected' \subseteq Contents
      BY <2>16 DEF CopyRejected, W!WriteType, W!Contents, Contents
    <3>4. QED BY <2>16, <3>1, <3>2, <3>3 DEF CopyRejected
  <2>17. CASE Restored(p)
    <3>1. Shape'
      <4>1. CASE Err(p)
        BY <4>1, EndType
      <4>2. CASE ~Err(p)
        BY <2>17, <4>2 DEF Restored, Goto, PC, OnlyValid
      <4>3. QED BY <4>1, <4>2
    <3>2. QED BY <2>17, <3>1 DEF Restored, W!WriteType
  <2>18. QED
    BY <1>5, <2>1, <2>2, <2>3, <2>4, <2>5, <2>6, <2>7, <2>8, <2>9, <2>10, <2>11, <2>12, <2>13,
       <2>14, <2>15, <2>16, <2>17
    DEF Operate, Watch
<1>6. ASSUME NEW p \in Procs, CopyFails(p) PROVE TypeInv'
  BY <1>6, EndType DEF CopyFails, W!WriteType
<1>7. ASSUME NEW p \in Procs, Command(p) PROVE TypeInv'
  <2>1. /\ W!BeginWrite(p, Primary, Edit[p][file[Primary]])
        /\ Edit[p][file[Primary]] \in Contents /\ UNCHANGED <<file, tmp>>
    BY <1>7, TextsAssumption DEF Command, Contents
  <2>2. W!WriteType'
    BY <2>1, BeginWriteType
  <2>3. pc' \in [Procs -> PC] /\ OnlyValid' /\ edits' \in 0..MaxEdits
    BY <1>7, BoundsAssumption DEF Command, Goto, PC, OnlyValid
  <2>4. QED BY <1>7, <2>2, <2>3 DEF Command
<1>8. QED BY <1>1, <1>2, <1>3, <1>4, <1>5, <1>6, <1>7 DEF Next

(* The shape of the store's state, and: no process ever works with, checks    *)
(* or promotes under a config that did not parse and validate, whatever the   *)
(* interleaving, the torn writes and the crashes.                             *)
THEOREM TypeCorrect == Spec => [](TypeOK /\ OnlyValid)
  BY InitTypeInv, StepTypeInv, PTL DEF Spec, TypeInv

----------------------------------------------------------------------------
(* One watcher, people at the editor, and nothing else: no gateway, no `set`. *)
OneWatcher(w) == Watchers = {w} /\ Loaders = {} /\ Setters = {}

LEMMA InitVetted == ASSUME NEW w, OneWatcher(w), Init
                    PROVE  VettedInv
  BY PathsAssumption
  DEF Init, OneWatcher, VettedInv, SnapshotsVetted, ActiveVetted, OnlyPassedInFlight, Procs, Start,
      NoActive, W!WriteInit, W!Writing

(* The watcher's own writes publish what passed, or nothing.                  *)
LEMMA WritesVetted ==
    ASSUME TypeInv, VettedInv, NEW w, OneWatcher(w),
           W!WriteStep(w) \/ W!CutShort(w), UNCHANGED storeVars
    PROVE  VettedInv'
<1> USE DEF VettedInv, TypeInv, TypeOK, W!WriteType
<1>0. Procs = {w} /\ Watchers = {w} /\ w \in Procs
  BY DEF OneWatcher, Procs
<1>1. ActiveVetted'
  BY DEF ActiveVetted, storeVars
<1>2. CASE W!OpenTmp(w)
  <2>1. /\ file' = file /\ tmp' = [tmp EXCEPT ![wr[w].path] = Empty]
        /\ wr' = [wr EXCEPT ![w].stage = "filling", ![w].at = "tmp"]
        /\ wr[w].stage = "open"
    BY <1>2 DEF W!OpenTmp
  <2>2. OnlyPassedInFlight'
    BY <1>0, <2>1 DEF OnlyPassedInFlight, storeVars, W!Writing
  <2>3. QED BY <1>1, <2>1, <2>2 DEF SnapshotsVetted, storeVars
<1>3. CASE W!FillTmp(w)
  <2>1. wr[w].stage = "filling" /\ wr[w].at = "tmp" /\ tmp[wr[w].path] = Empty
    BY <1>0, <1>3 DEF W!FillTmp, OnlyPassedInFlight
  <2>2. W!Overlay(Empty, wr[w].text) = {wr[w].text}
    BY DEF W!Overlay
  <2>3. /\ file' = file /\ tmp' = [tmp EXCEPT ![wr[w].path] = wr[w].text]
        /\ wr' = [wr EXCEPT ![w].stage = "rename"]
    BY <1>3, <2>1, <2>2 DEF W!FillTmp
  <2>4. OnlyPassedInFlight'
    BY <1>0, <2>1, <2>3 DEF OnlyPassedInFlight, storeVars, W!Writing
  <2>5. QED BY <1>1, <2>3, <2>4 DEF SnapshotsVetted, storeVars
<1>4. CASE W!RenameTmp(w)
  <2>1. wr[w].stage = "rename" /\ tmp[wr[w].path] = wr[w].text /\ wr[w].text \in passed
    BY <1>0, <1>4 DEF W!RenameTmp, OnlyPassedInFlight, W!Writing
  <2>2. /\ file' = [file EXCEPT ![wr[w].path] = wr[w].text]
        /\ wr' = [wr EXCEPT ![w].stage = "done"]
    BY <1>0, <1>4, <2>1 DEF W!RenameTmp
  <2>3. OnlyPassedInFlight'
    BY <1>0, <2>2 DEF OnlyPassedInFlight, storeVars, W!Writing
  <2>4. QED BY <1>1, <2>1, <2>2, <2>3 DEF SnapshotsVetted, storeVars
<1>5. CASE W!FailWrite(w)
  <2>1. OnlyPassedInFlight'
    BY <1>0, <1>5 DEF W!FailWrite, OnlyPassedInFlight, storeVars, W!Writing
  <2>2. QED BY <1>1, <1>5, <2>1 DEF W!FailWrite, SnapshotsVetted, storeVars
<1>6. QED
  BY <1>2, <1>3, <1>4, <1>5 DEF W!WriteStep, W!RenameMissing, W!CutShort

LEMMA BeginWriteVetted ==
    ASSUME TypeInv, NEW w, OneWatcher(w), NEW x \in Dirs \cup {Primary}, NEW t,
           W!BeginWrite(w, x, t)
    PROVE  wr'[w] = [stage |-> "open", at |-> "tmp", path |-> x, text |-> t]
  BY DEF TypeInv, TypeOK, W!WriteType, W!BeginWrite, OneWatcher, Procs

LEMMA EndVetted ==
    ASSUME TypeInv, VettedInv, NEW w, OneWatcher(w), UNCHANGED <<file, tmp, wr, passed>>,
           \/ Err(w)
           \/ \E t \in passed, s \in {"primary", "lkg"} : Succeed(w, t, s)
    PROVE  VettedInv'
<1> USE DEF VettedInv, TypeInv, TypeOK
<1>0. Procs = {w} /\ Watchers = {w} /\ w \in Procs /\ w \notin Setters
  BY DEF OneWatcher, Procs
<1>1. SnapshotsVetted'
  BY DEF SnapshotsVetted
<1>2. CASE Err(w)
  BY <1>0, <1>1, <1>2 DEF Err, Rest, OnlyPassedInFlight, ActiveVetted, W!Writing
<1>3. ASSUME NEW t \in passed, NEW s \in {"primary", "lkg"}, Succeed(w, t, s)
      PROVE  VettedInv'
  BY <1>0, <1>1, <1>3 DEF Succeed, Rest, OnlyPassedInFlight, ActiveVetted, W!Writing
<1>4. QED BY <1>2, <1>3

LEMMA StepVetted == ASSUME NEW w, OneWatcher(w), TypeInv, VettedInv, [Next]_vars
                    PROVE  VettedInv'
<1> USE DEF VettedInv, TypeInv, TypeOK
<1>0. Procs = {w} /\ Watchers = {w} /\ w \in Procs /\ w \notin Setters /\ w \notin Loaders
  BY DEF OneWatcher, Procs
<1>1. CASE UNCHANGED vars
  BY <1>1 DEF vars, SnapshotsVetted, ActiveVetted, OnlyPassedInFlight, W!Writing
<1>2. ASSUME NEW t \in UserTexts, Save(t) PROVE VettedInv'
  <2>1. SnapshotsVetted'
    BY <1>2, PathsAssumption DEF Save, SnapshotsVetted, W!WriteType
  <2>2. QED BY <1>2, <2>1 DEF Save, ActiveVetted, OnlyPassedInFlight, W!Writing
<1>3. CASE Writes(w)
  BY <1>0, <1>3, WritesVetted DEF Writes, WriteOn, storeVars
<1>4. CASE Crash(w)
  BY <1>0, <1>4 DEF Crash, Rest, NoActive, NoJob, W!WriteType, SnapshotsVetted, ActiveVetted,
                    OnlyPassedInFlight, W!Writing
(* Steps that touch no file and no active config.                             *)
<1>5. CASE Poll(w) \/ FindCandidates(w) \/ SkipCandidate(w)
  <2>1. UNCHANGED <<file, tmp, wr, passed, active>>
    BY <1>5 DEF Poll, FindCandidates, SkipCandidate
  <2>2. SnapshotsVetted' /\ ActiveVetted'
    BY <2>1 DEF SnapshotsVetted, ActiveVetted
  <2>3. pc'[w] \in {"stage", "restoreRead", "lkgRead"}
    BY <1>0, <1>5 DEF Poll, FindCandidates, SkipCandidate, Goto
  <2>4. OnlyPassedInFlight'
    BY <1>0, <2>1, <2>3 DEF OnlyPassedInFlight, W!Writing
  <2>5. QED BY <2>2, <2>4
<1>6. CASE StageRead(w) \/ CheckFail(w) \/ Restored(w)
  <2>1. UNCHANGED <<file, tmp, wr, passed>>
    BY <1>6 DEF StageRead, CheckFail, Restored
  <2>2. CASE Err(w)
    BY <2>1, <2>2, EndVetted
  <2>3. CASE ~Err(w)
    <3>1. UNCHANGED active /\ pc'[w] \in {"check", "restoreDirs", "lkgDirs"}
      BY <1>0, <1>6, <2>3 DEF StageRead, CheckFail, Restored, Goto
    <3>2. SnapshotsVetted' /\ ActiveVetted'
      BY <2>1, <3>1 DEF SnapshotsVetted, ActiveVetted
    <3>3. OnlyPassedInFlight'
      BY <1>0, <2>1, <3>1 DEF OnlyPassedInFlight, W!Writing
    <3>4. QED BY <3>2, <3>3
  <2>4. QED BY <2>2, <2>3
<1>7. CASE CheckPass(w)
  <2> DEFINE text == job[w].text
  <2>1. /\ passed' = passed \cup {text} /\ UNCHANGED <<file, tmp, active>>
        /\ PromoteBegin(w, text, text) /\ text \in Valid
    BY <1>0, <1>7 DEF CheckPass, OnlyValid
  <2>2. /\ wr'[w].text = text /\ wr'[w].stage = "open"
        /\ job'[w].cfg = text /\ job'[w].text = text /\ pc'[w] = "snapshot"
    <3>1. DataDir[text] \in Dirs \cup {Primary}
      BY <2>1, DataDirAssumption
    <3>2. wr'[w] = [stage |-> "open", at |-> "tmp", path |-> DataDir[text], text |-> text]
      BY <2>1, <3>1, BeginWriteVetted DEF PromoteBegin
    <3>3. QED BY <1>0, <2>1, <3>2 DEF PromoteBegin, Goto, JobType
  <2>3. SnapshotsVetted' /\ ActiveVetted'
    BY <2>1 DEF SnapshotsVetted, ActiveVetted
  <2>4. OnlyPassedInFlight'
    BY <1>0, <2>1, <2>2 DEF OnlyPassedInFlight, W!Writing
  <2>5. QED BY <2>3, <2>4
<1>8. CASE PromoteFallback(w)
  <2>1. /\ UNCHANGED <<file, tmp, passed, active, job>> /\ job[w].text \in passed
        /\ job[w].cfg \in passed
        /\ pc'[w] = "fallback"
    BY <1>0, <1>8 DEF PromoteFallback, Goto, OnlyPassedInFlight
  <2>2. wr'[w] = [stage |-> "open", at |-> "tmp", path |-> Fallback, text |-> job[w].text]
    BY <1>8, BeginWriteVetted, PathsAssumption DEF PromoteFallback
  <2>3. SnapshotsVetted' /\ ActiveVetted'
    BY <2>1 DEF SnapshotsVetted, ActiveVetted
  <2>4. OnlyPassedInFlight'
    BY <1>0, <2>1, <2>2 DEF OnlyPassedInFlight, W!Writing
  <2>5. QED BY <2>3, <2>4
<1>9. CASE Promoted(w)
  <2>1. job[w].cfg \in passed
    BY <1>0, <1>9 DEF Promoted, OnlyPassedInFlight
  <2>2. QED BY <1>9, <2>1, EndVetted DEF Promoted
<1>10. CASE NoCandidate(w)
  BY <1>10, EndVetted DEF NoCandidate
(* A snapshot it reads has passed: that is SnapshotsVetted.                   *)
<1>11. ASSUME ReadableCandidate(w)
       PROVE  file[Head(job[w].dirs)] \in passed
  <2>1. Head(job[w].dirs) \in Dirs
    BY <1>0, <1>11, HeadTailProperties DEF ReadableCandidate, JobType
  <2>2. QED BY <1>11, <2>1 DEF ReadableCandidate, SnapshotsVetted
<1>12. CASE LoadLastKnownGood(w)
  <2>1. file[Head(job[w].dirs)] \in passed
    BY <1>11, <1>12 DEF LoadLastKnownGood
  <2>2. QED BY <1>12, <2>1, EndVetted DEF LoadLastKnownGood
<1>13. CASE RestoreRead(w)
  <2>1. file[Head(job[w].dirs)] \in passed
    BY <1>11, <1>13 DEF RestoreRead
  <2>2. /\ UNCHANGED <<file, tmp, wr, passed, active>> /\ pc'[w] = "copy"
        /\ job'[w].text \in passed
    BY <1>0, <1>13, <2>1 DEF RestoreRead, Goto, JobType
  <2>3. SnapshotsVetted' /\ ActiveVetted'
    BY <2>2 DEF SnapshotsVetted, ActiveVetted
  <2>4. OnlyPassedInFlight'
    BY <1>0, <2>2 DEF OnlyPassedInFlight, W!Writing
  <2>5. QED BY <2>3, <2>4
<1>14. CASE CopyRejected(w)
  <2>1. /\ UNCHANGED <<file, tmp, passed, active, job>> /\ job[w].text \in passed
        /\ pc'[w] = "restore"
    BY <1>0, <1>14 DEF CopyRejected, Goto, OnlyPassedInFlight
  <2>2. wr'[w] = [stage |-> "open", at |-> "tmp", path |-> Primary, text |-> job[w].text]
    BY <1>14, BeginWriteVetted DEF CopyRejected
  <2>3. SnapshotsVetted' /\ ActiveVetted'
    BY <2>1 DEF SnapshotsVetted, ActiveVetted
  <2>4. OnlyPassedInFlight'
    BY <1>0, <2>1, <2>2 DEF OnlyPassedInFlight, W!Writing
  <2>5. QED BY <2>3, <2>4
(* The watcher runs no load_with_recovery, no `set` and no commands.          *)
<1>15. ~(LoadPrimary(w) \/ Reread(w) \/ SetRead(w) \/ SetWritten(w) \/ Command(w))
  BY <1>0 DEF LoadPrimary, Reread, SetRead, SetWritten, Command, OnlyPassedInFlight
<1>16. CASE Operate(w)
  BY <1>5, <1>6, <1>7, <1>8, <1>9, <1>10, <1>12, <1>13, <1>14, <1>15, <1>16 DEF Operate, Watch
<1>17. CASE CopyFails(w)
  BY <1>17, EndVetted DEF CopyFails
<1>18. QED
  BY <1>0, <1>1, <1>2, <1>3, <1>4, <1>15, <1>16, <1>17 DEF Next

(* docs/RELIABILITY.md: where one `watch` is the only thing that writes       *)
(* snapshots, every snapshot and every config it works with has passed its    *)
(* connector check: whatever people save and when, whichever write fails,     *)
(* wherever the process is killed and started again.                          *)
THEOREM WatchVetted == ASSUME NEW w, OneWatcher(w)
                       PROVE  Spec => [](SnapshotsVetted /\ ActiveVetted)
<1>1. Init => VettedInv
  BY InitVetted
<1>2. TypeInv /\ VettedInv /\ [Next]_vars => VettedInv'
  BY StepVetted
<1>3. Spec => []TypeInv
  BY TypeCorrect, PTL DEF TypeInv
<1>4. VettedInv => SnapshotsVetted /\ ActiveVetted
  BY DEF VettedInv
<1>5. QED BY <1>1, <1>2, <1>3, <1>4, PTL DEF Spec
=============================================================================

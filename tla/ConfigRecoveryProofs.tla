------------------------ MODULE ConfigRecoveryProofs ------------------------
(* What recovery keeps, and under which hypotheses on who writes and on where *)
(* people save: the assumptions of each theorem.                              *)
EXTENDS ConfigStoreProofs

(* While p writes, the temporary file is its own.                             *)
OwnTmp(p) == /\ wr[p].stage = "filling" => wr[p].at = "tmp" /\ tmp[wr[p].path] = Empty
             /\ wr[p].stage = "rename" => tmp[wr[p].path] = wr[p].text

(* A process that writes alone: a step of its write changes no target, or it  *)
(* is the rename, and puts the whole text in place.                           *)
LEMMA OwnWrite ==
    ASSUME TypeInv, NEW p \in Procs, Procs = {p}, OwnTmp(p), W!WriteStep(p) \/ W!CutShort(p)
    PROVE  /\ OwnTmp(p)' /\ W!Writing(p)
           /\ wr'[p].path = wr[p].path /\ wr'[p].text = wr[p].text
           /\ \/ file' = file /\ wr'[p].stage \in {"filling", "rename", "failed"}
              \/ /\ wr[p].stage = "rename" /\ wr'[p].stage = "done"
                 /\ file' = [file EXCEPT ![wr[p].path] = wr[p].text]
           /\ wr'[p].stage = "failed" => p \in MayFail \/ wr[p].text = None
<1> USE DEF TypeInv, TypeOK, W!WriteType, W!Writing, OwnTmp
<1>1. CASE W!OpenTmp(p)
  BY <1>1 DEF W!OpenTmp
<1>2. CASE W!FillTmp(p)
  <2>1. wr[p].stage = "filling" /\ wr[p].at = "tmp" /\ tmp[wr[p].path] = Empty
    BY <1>2 DEF W!FillTmp
  <2>2. W!Overlay(Empty, wr[p].text) = {wr[p].text}
    BY DEF W!Overlay
  <2>3. /\ file' = file /\ tmp' = [tmp EXCEPT ![wr[p].path] = wr[p].text]
        /\ wr' = [wr EXCEPT ![p].stage = "rename"]
    BY <1>2, <2>1, <2>2 DEF W!FillTmp
  <2>4. QED BY <2>1, <2>3
<1>3. CASE W!RenameTmp(p)
  <2>1. /\ wr[p].stage = "rename" /\ tmp[wr[p].path] = wr[p].text
        /\ file' = [file EXCEPT ![wr[p].path] = wr[p].text]
        /\ wr' = [wr EXCEPT ![p].stage = "done"]
    BY <1>3 DEF W!RenameTmp
  <2>2. QED BY <2>1
<1>4. CASE W!RenameMissing(p)
  BY <1>4 DEF W!RenameMissing, W!FailWrite
<1>5. CASE W!CutShort(p)
  BY <1>5 DEF W!CutShort, W!FailWrite
<1>6. QED
  BY <1>1, <1>2, <1>3, <1>4, <1>5 DEF W!WriteStep

LEMMA Begun ==
    ASSUME TypeInv, NEW p \in Procs, NEW x \in Dirs \cup {Primary}, NEW t, W!BeginWrite(p, x, t)
    PROVE  wr'[p] = [stage |-> "open", at |-> "tmp", path |-> x, text |-> t]
  BY DEF TypeInv, TypeOK, W!WriteType, W!BeginWrite

LEMMA NoneIsInvalid == None \notin Valid
  BY TextsAssumption

LEMMA WatcherVetted == ASSUME NEW w, OneWatcher(w) PROVE Spec => []VettedInv
<1>1. Init => VettedInv
  BY InitVetted
<1>2. TypeInv /\ VettedInv /\ [Next]_vars => VettedInv'
  BY StepVetted
<1>3. Spec => []TypeInv
  BY TypeCorrect, PTL DEF TypeInv
<1>4. QED BY <1>1, <1>2, <1>3, PTL DEF Spec

----------------------------------------------------------------------------
(* One gateway, and no save between its two reads of the primary.             *)
OneGateway(l) == /\ Loaders = {l} /\ Watchers = {} /\ Setters = {}
                 /\ "reread" \in Quiet

(* Every snapshot parses and validates.                                       *)
SnapshotsWhole == \A d \in Dirs : file[d] \in Valid \cup {None}

(* What it reads between its two reads, promotes and writes is valid; only    *)
(* its commands write the primary.                                            *)
GatewayInv(l) ==
    /\ SnapshotsWhole /\ OwnTmp(l)
    /\ W!Writing(l) => wr[l].text \in Valid /\ pc[l] \in {"snapshot", "fallback", "setting"}
    /\ pc[l] = "setting" => wr[l].path = Primary
    /\ pc[l] \in {"ready", "reread", "snapshot", "fallback", "lkgDirs", "lkgRead", "setting"}
    /\ pc[l] = "reread" => file[Primary] \in Valid
    /\ pc[l] \in {"snapshot", "fallback"} => job[l].text \in Valid

LEMMA InitGateway == ASSUME NEW l, OneGateway(l), Init PROVE GatewayInv(l)
  BY PathsAssumption
  DEF Init, OneGateway, GatewayInv, SnapshotsWhole, OwnTmp, Procs, Start, W!WriteInit, W!Writing

LEMMA GatewayWrites ==
    ASSUME NEW l, OneGateway(l), TypeInv, GatewayInv(l), W!WriteStep(l) \/ W!CutShort(l)
    PROVE  /\ SnapshotsWhole' /\ OwnTmp(l)'
           /\ file' = file \/ file' = [file EXCEPT ![wr[l].path] = wr[l].text]
           /\ wr'[l].text = wr[l].text /\ wr'[l].path = wr[l].path /\ W!Writing(l)
           /\ wr'[l].stage = "failed" => l \in MayFail
           /\ wr'[l].stage = "done" => file'[wr[l].path] = wr[l].text
           /\ \A d \in Dirs : file[d] # None => file'[d] # None
<1> USE DEF GatewayInv, TypeInv, TypeOK, W!WriteType
<1>1. l \in Procs /\ Procs = {l}
  BY DEF OneGateway, Procs
<1>2. /\ OwnTmp(l)' /\ W!Writing(l)
      /\ wr'[l].path = wr[l].path /\ wr'[l].text = wr[l].text
      /\ \/ file' = file /\ wr'[l].stage \in {"filling", "rename", "failed"}
         \/ /\ wr[l].stage = "rename" /\ wr'[l].stage = "done"
            /\ file' = [file EXCEPT ![wr[l].path] = wr[l].text]
      /\ wr'[l].stage = "failed" => l \in MayFail \/ wr[l].text = None
  BY <1>1, OwnWrite
<1>3. wr[l].text \in Valid /\ wr[l].text # None /\ wr[l].path \in Dirs \cup {Primary}
  BY <1>1, <1>2, NoneIsInvalid
<1>4. CASE file' = file /\ wr'[l].stage \in {"filling", "rename", "failed"}
  BY <1>2, <1>3, <1>4 DEF SnapshotsWhole
<1>5. CASE wr'[l].stage = "done" /\ file' = [file EXCEPT ![wr[l].path] = wr[l].text]
  BY <1>2, <1>3, <1>5, PathsAssumption DEF SnapshotsWhole
<1>6. QED BY <1>2, <1>4, <1>5

LEMMA StepGateway == ASSUME NEW l, OneGateway(l), TypeInv, GatewayInv(l), [Next]_vars
                     PROVE  GatewayInv(l)'
<1> USE DEF TypeInv, TypeOK, W!WriteType
<1>0. Procs = {l} /\ l \in Procs /\ l \notin Setters /\ l \notin Watchers /\ l \in Loaders
  BY DEF OneGateway, Procs
<1>1. CASE UNCHANGED vars
  BY <1>1 DEF vars, GatewayInv, SnapshotsWhole, OwnTmp, W!Writing
<1>2. ASSUME NEW t \in UserTexts, Save(t) PROVE GatewayInv(l)'
  <2>1. pc[l] # "reread" /\ UNCHANGED <<tmp, wr, pc, job>>
    BY <1>0, <1>2 DEF Save, OneGateway
  <2>2. \A d \in Dirs : file'[d] = file[d]
    BY <1>2, PathsAssumption DEF Save
  <2>3. QED BY <2>1, <2>2 DEF GatewayInv, SnapshotsWhole, OwnTmp, W!Writing
<1>3. CASE Writes(l)
  <2>1. UNCHANGED <<pc, job>> /\ (W!WriteStep(l) \/ W!CutShort(l))
    BY <1>3 DEF Writes, WriteOn, storeVars
  <2>2. SnapshotsWhole' /\ OwnTmp(l)' /\ W!Writing(l) /\ wr'[l].text = wr[l].text
        /\ wr'[l].path = wr[l].path
    BY <2>1, GatewayWrites
  <2>3. QED BY <2>1, <2>2 DEF GatewayInv
<1>4. CASE Crash(l)
  <2>1. /\ pc'[l] = "ready" /\ wr'[l].stage \notin {"open", "filling", "rename"}
        /\ file' = file
    BY <1>0, <1>4 DEF Crash, Rest, W!Writing
  <2>2. QED BY <2>1 DEF GatewayInv, SnapshotsWhole, OwnTmp, W!Writing
(* Its steps that write nothing.                                              *)
<1>5. CASE LoadPrimary(l) \/ FindCandidates(l) \/ SkipCandidate(l)
  <2>1. UNCHANGED <<file, tmp, wr>>
    BY <1>5 DEF LoadPrimary, FindCandidates, SkipCandidate
  <2>2. /\ pc'[l] \in {"ready", "reread", "lkgDirs", "lkgRead"}
        /\ pc'[l] = "reread" => file[Primary] \in Valid
    BY <1>0, <1>5 DEF LoadPrimary, FindCandidates, SkipCandidate, Goto, GatewayInv
  <2>3. ~W!Writing(l)
    BY <1>0, <1>5 DEF LoadPrimary, FindCandidates, SkipCandidate, GatewayInv
  <2>4. QED BY <2>1, <2>2, <2>3 DEF GatewayInv, SnapshotsWhole, OwnTmp, W!Writing
<1>6. CASE NoCandidate(l) \/ LoadLastKnownGood(l) \/ Promoted(l) \/ SetWritten(l)
  <2>1. UNCHANGED <<file, tmp, wr>> /\ pc'[l] = "ready" /\ ~W!Writing(l)
    BY <1>0, <1>6
    DEF NoCandidate, LoadLastKnownGood, Promoted, SetWritten, Goto, Err, Succeed, Rest, GatewayInv
  <2>2. QED BY <2>1 DEF GatewayInv, SnapshotsWhole, OwnTmp, W!Writing
<1>7. CASE Reread(l)
  <2>1. file[Primary] \in Valid /\ file[Primary] # None /\ job[l].cfg \in Valid
    BY <1>0, <1>7, NoneIsInvalid DEF Reread, GatewayInv, OnlyValid
  <2>2. PromoteBegin(l, job[l].cfg, file[Primary]) /\ UNCHANGED <<file, tmp>>
    BY <1>7, <2>1 DEF Reread
  <2>3. wr'[l] = [stage |-> "open", at |-> "tmp", path |-> DataDir[job[l].cfg],
                  text |-> file[Primary]]
    BY <1>0, <2>1, <2>2, Begun, DataDirAssumption DEF PromoteBegin
  <2>4. pc'[l] = "snapshot" /\ job'[l].text = file[Primary]
    BY <1>0, <2>2 DEF PromoteBegin, Goto, JobType
  <2>5. QED BY <2>1, <2>2, <2>3, <2>4, DataDirAssumption DEF GatewayInv, SnapshotsWhole, OwnTmp
<1>8. CASE PromoteFallback(l)
  <2>1. wr'[l] = [stage |-> "open", at |-> "tmp", path |-> Fallback, text |-> job[l].text]
    BY <1>0, <1>8, Begun, PathsAssumption DEF PromoteFallback
  <2>2. pc'[l] = "fallback" /\ UNCHANGED <<file, tmp, job>> /\ job[l].text \in Valid
    BY <1>0, <1>8 DEF PromoteFallback, Goto, GatewayInv
  <2>3. QED BY <2>1, <2>2, PathsAssumption DEF GatewayInv, SnapshotsWhole, OwnTmp
<1>9. CASE Command(l)
  <2> DEFINE new == Edit[l][file[Primary]]
  <2>1. /\ new \in Valid /\ UNCHANGED <<file, tmp, job>> /\ pc'[l] = "setting"
        /\ W!BeginWrite(l, Primary, new)
    BY <1>0, <1>9 DEF Command, Goto
  <2>2. wr'[l] = [stage |-> "open", at |-> "tmp", path |-> Primary, text |-> new]
    BY <1>0, <2>1, Begun
  <2>3. QED BY <2>1, <2>2 DEF GatewayInv, SnapshotsWhole, OwnTmp
(* It checks no connectors, is not `set` and restores nothing.                *)
<1>10. ~(Watch(l) \/ SetRead(l) \/ RestoreRead(l) \/ CopyRejected(l) \/ Restored(l) \/ CopyFails(l))
  BY <1>0
  DEF Watch, Poll, StageRead, CheckPass, CheckFail, SetRead, RestoreRead, CopyRejected, Restored,
      CopyFails, GatewayInv
<1>11. QED
  BY <1>0, <1>1, <1>2, <1>3, <1>4, <1>5, <1>6, <1>7, <1>8, <1>9, <1>10 DEF Next, Operate

LEMMA GatewayKeepsInv == ASSUME NEW l, OneGateway(l) PROVE Spec => [](TypeInv /\ GatewayInv(l))
<1>1. Init => GatewayInv(l)
  BY InitGateway
<1>2. TypeInv /\ GatewayInv(l) /\ [Next]_vars => GatewayInv(l)'
  BY StepGateway
<1>3. Spec => []TypeInv
  BY TypeCorrect, PTL DEF TypeInv
<1>4. QED BY <1>1, <1>2, <1>3, PTL DEF Spec

----------------------------------------------------------------------------
(* The same gateway, where no write fails and it is not killed: once it has a *)
(* config the fallback directory has a snapshot, and recovery looks there.    *)
Unharmed(p) == p \notin MayFail /\ p \notin Crashing

UpInv(l) ==
    /\ wr[l].stage # "failed"
    /\ pc[l] = "snapshot" =>
         /\ wr[l].path = DataDir[job[l].cfg]
         /\ wr[l].stage = "done" => file[wr[l].path] # None
    /\ pc[l] = "fallback" => /\ wr[l].path = Fallback
                             /\ wr[l].stage = "done" => file[Fallback] # None
    /\ active[l] # NoActive => file[Fallback] # None
    /\ pc[l] \notin {"snapshot", "fallback"} =>
         \A d \in Dirs : file[d] # None => file[Fallback] # None
    /\ pc[l] = "lkgRead" /\ file[Fallback] # None =>
         job[l].dirs # <<>> /\ job[l].dirs[Len(job[l].dirs)] = Fallback

LEMMA SkipKeepsLast ==
  ASSUME NEW s \in Seq(Dirs), s # <<>>, s[Len(s)] = Fallback, Head(s) # Fallback
  PROVE  Tail(s) \in Seq(Dirs) /\ Tail(s) # <<>> /\ Tail(s)[Len(Tail(s))] = Fallback
<1>1. /\ Len(s) \in Nat /\ Head(s) = s[1] /\ Len(s) # 0
      /\ Tail(s) \in Seq(Dirs) /\ Len(Tail(s)) = Len(s) - 1
      /\ \A i \in 1..Len(Tail(s)) : Tail(s)[i] = s[i + 1]
  BY HeadTailProperties, LenProperties, EmptySeq
<1>2. Len(s) > 1
  BY <1>1
<1>3. Tail(s)[Len(s) - 1] = s[Len(s)]
  BY <1>1, <1>2
<1>4. Tail(s) # <<>>
  <2>1. Len(Tail(s)) # Len(<<>>)
    BY <1>1, <1>2
  <2>2. QED BY <2>1
<1>5. Len(Tail(s)) = Len(s) - 1
  BY <1>1
<1>6. QED BY <1>1, <1>3, <1>4, <1>5

LEMMA CandidatesEndInFallback ==
  CandidateDirs # <<>> /\ CandidateDirs[Len(CandidateDirs)] = Fallback
BY DEF CandidateDirs

LEMMA StepUp == ASSUME NEW l, OneGateway(l), Unharmed(l), TypeInv, GatewayInv(l), UpInv(l), [Next]_vars
                PROVE  UpInv(l)'
<1> USE DEF TypeInv, TypeOK, W!WriteType
<1>0. Procs = {l} /\ l \in Procs /\ l \notin Setters /\ l \notin Watchers /\ l \in Loaders
  BY DEF OneGateway, Procs
<1>1. CASE UNCHANGED vars
  BY <1>1 DEF vars, UpInv, W!Writing
<1>2. ASSUME NEW t \in UserTexts, Save(t) PROVE UpInv(l)'
  <2>1. UNCHANGED <<wr, pc, job, active>> /\ \A d \in Dirs : file'[d] = file[d]
    BY <1>2, PathsAssumption DEF Save
  <2>2. pc[l] = "snapshot" => DataDir[job[l].cfg] \in Dirs
    BY <1>0, DataDirAssumption DEF OnlyValid
  <2>3. QED BY <2>1, <2>2, PathsAssumption DEF UpInv, W!Writing
<1>3. CASE Writes(l)
  <2>1. UNCHANGED <<pc, job, active>> /\ (W!WriteStep(l) \/ W!CutShort(l))
    BY <1>3 DEF Writes, WriteOn, storeVars
  <2>2. /\ wr'[l].path = wr[l].path /\ wr'[l].text = wr[l].text
        /\ W!Writing(l) /\ wr'[l].stage # "failed"
        /\ wr[l].text # None
        /\ wr'[l].stage = "done" => file'[wr[l].path] = wr[l].text
        /\ file[Fallback] # None => file'[Fallback] # None
        /\ file' = file \/ file' = [file EXCEPT ![wr[l].path] = wr[l].text]
    BY <2>1, GatewayWrites, NoneIsInvalid, PathsAssumption DEF Unharmed, GatewayInv
  <2>3. CASE pc[l] \in {"snapshot", "fallback"}
    BY <2>1, <2>2, <2>3 DEF UpInv, W!Writing
  <2>4. CASE pc[l] = "setting"
    <3>1. \A d \in Dirs : file'[d] = file[d]
      BY <2>2, <2>4, PathsAssumption DEF GatewayInv
    <3>2. QED BY <2>1, <2>2, <2>4, <3>1, PathsAssumption DEF UpInv
  <2>5. QED BY <2>2, <2>3, <2>4 DEF GatewayInv
<1>4. CASE LoadPrimary(l) \/ FindCandidates(l)
  <2>1. UNCHANGED <<file, wr, active>> /\ pc[l] \notin {"snapshot", "fallback"}
    BY <1>4 DEF LoadPrimary, FindCandidates
  <2>2. /\ pc'[l] \in {"reread", "lkgDirs", "lkgRead"}
        /\ pc'[l] = "lkgRead" => job'[l].dirs = CandidateDirs
    BY <1>0, <1>4 DEF LoadPrimary, FindCandidates, Goto, GatewayInv, JobType
  <2>3. QED BY <2>1, <2>2, CandidatesEndInFallback DEF UpInv, W!Writing
<1>5. CASE SkipCandidate(l)
  <2>1. /\ UNCHANGED <<file, wr, active, pc>> /\ pc[l] = "lkgRead"
        /\ job'[l].dirs = Tail(job[l].dirs) /\ job[l].dirs \in Seq(Dirs)
        /\ file[Head(job[l].dirs)] = None
    BY <1>0, <1>5 DEF SkipCandidate, GatewayInv, JobType
  <2>2. ASSUME file[Fallback] # None
        PROVE  job'[l].dirs # <<>> /\ job'[l].dirs[Len(job'[l].dirs)] = Fallback
    BY <2>1, <2>2, SkipKeepsLast DEF UpInv
  <2>3. QED BY <2>1, <2>2 DEF UpInv, W!Writing
<1>6. CASE NoCandidate(l) \/ LoadLastKnownGood(l)
  <2>1. UNCHANGED <<file, wr>> /\ pc'[l] = "ready" /\ pc[l] = "lkgRead"
    BY <1>0, <1>6 DEF NoCandidate, LoadLastKnownGood, Err, Succeed, Rest, GatewayInv
  <2>2. CASE active'[l] = NoActive
    BY <2>1, <2>2 DEF UpInv, W!Writing
  <2>3. CASE active'[l] # NoActive
    <3>1. LoadLastKnownGood(l)
      BY <1>0, <1>6, <2>3 DEF NoCandidate, Err
    <3>2. Head(job[l].dirs) \in Dirs /\ file[Head(job[l].dirs)] # None
      BY <1>0, <3>1, HeadTailProperties DEF LoadLastKnownGood, ReadableCandidate, JobType
    <3>3. file[Fallback] # None
      BY <2>1, <3>2 DEF UpInv
    <3>4. QED BY <2>1, <3>3 DEF UpInv, W!Writing
  <2>4. QED BY <2>2, <2>3
<1>7. CASE Reread(l)
  <2>1. file[Primary] # None /\ job[l].cfg \in Valid
    BY <1>0, <1>7, NoneIsInvalid DEF Reread, GatewayInv, OnlyValid
  <2>2. PromoteBegin(l, job[l].cfg, file[Primary]) /\ UNCHANGED <<file, tmp, active>>
    BY <1>7, <2>1 DEF Reread
  <2>3. wr'[l] = [stage |-> "open", at |-> "tmp", path |-> DataDir[job[l].cfg],
                  text |-> file[Primary]]
    BY <1>0, <2>1, <2>2, Begun, DataDirAssumption DEF PromoteBegin
  <2>4. pc'[l] = "snapshot" /\ job'[l].cfg = job[l].cfg
    BY <1>0, <2>2 DEF PromoteBegin, Goto, JobType
  <2>5. QED BY <2>2, <2>3, <2>4 DEF UpInv, W!Writing
<1>8. CASE PromoteFallback(l)
  <2>1. wr'[l] = [stage |-> "open", at |-> "tmp", path |-> Fallback, text |-> job[l].text]
    BY <1>0, <1>8, Begun, PathsAssumption DEF PromoteFallback
  <2>2. pc'[l] = "fallback" /\ UNCHANGED <<file, tmp, job, active>>
    BY <1>0, <1>8 DEF PromoteFallback, Goto
  <2>3. QED BY <2>1, <2>2 DEF UpInv, W!Writing
<1>9. CASE Promoted(l)
  <2>1. UNCHANGED <<file, wr>> /\ pc'[l] = "ready" /\ ~W!Writing(l)
    BY <1>0, <1>9 DEF Promoted, Succeed, Rest
  <2>2. wr[l].stage = "done"
    BY <1>0, <2>1 DEF UpInv, W!Writing, W!Stage
  <2>3. file[Fallback] # None
    BY <1>0, <1>9, <2>2 DEF Promoted, UpInv
  <2>4. QED BY <2>1, <2>3 DEF UpInv, W!Writing
<1>10. CASE Command(l)
  <2>1. wr'[l] = [stage |-> "open", at |-> "tmp", path |-> Primary, text |-> Edit[l][file[Primary]]]
    BY <1>0, <1>10, Begun DEF Command
  <2>2. pc[l] = "ready" /\ pc'[l] = "setting" /\ UNCHANGED <<file, job, active>>
    BY <1>0, <1>10 DEF Command, Goto
  <2>3. QED BY <2>1, <2>2 DEF UpInv, W!Writing
<1>11. CASE SetWritten(l)
  <2>1. pc[l] = "setting" /\ pc'[l] = "ready" /\ UNCHANGED <<file, wr, job, active>>
    BY <1>0, <1>11 DEF SetWritten, Goto
  <2>2. QED BY <2>1 DEF UpInv, W!Writing
<1>12. ~(Watch(l) \/ SetRead(l) \/ RestoreRead(l) \/ CopyRejected(l) \/ Restored(l)
         \/ CopyFails(l) \/ Crash(l))
  BY <1>0
  DEF Watch, Poll, StageRead, CheckPass, CheckFail, SetRead, RestoreRead, CopyRejected, Restored,
      CopyFails, Crash, GatewayInv, Unharmed
<1>13. QED
  BY <1>0, <1>1, <1>2, <1>3, <1>4, <1>5, <1>6, <1>7, <1>8, <1>9, <1>10, <1>11, <1>12
  DEF Next, Operate

(* docs/CONFIG.md:120: a gateway that had a config always has one, whatever   *)
(* people save or delete, as long as nothing changes the file between its two *)
(* reads and its writes succeed. GatewayRace shows the first is needed.       *)
THEOREM GatewayUp == ASSUME NEW l, OneGateway(l), Unharmed(l) PROVE Spec => GatewayStaysUp
<1>1. Init => UpInv(l)
  BY PathsAssumption DEF Init, OneGateway, UpInv, Procs, Start, W!WriteInit, W!Writing
<1>2. TypeInv /\ GatewayInv(l) /\ UpInv(l) /\ [Next]_vars => UpInv(l)'
  BY StepUp
<1>3. ASSUME TypeInv, GatewayInv(l), UpInv(l), [Next]_vars
      PROVE  [\A p \in Loaders : raced = {} /\ active[p] # NoActive => active'[p] # NoActive]_vars
  <2> SUFFICES ASSUME Next, active[l] # NoActive PROVE active'[l] # NoActive
    BY <1>3 DEF OneGateway
  <2> USE <1>3 DEF TypeInv, TypeOK, W!WriteType
  <2>0. Procs = {l} /\ l \in Procs /\ l \in Loaders
    BY DEF OneGateway, Procs
  <2>1. ASSUME NEW t, NEW src \in {"primary", "lkg"}, Succeed(l, t, src)
        PROVE  active'[l] # NoActive
    BY <2>0, <2>1 DEF Succeed, NoActive
  <2>2. CASE Reread(l)
    BY <2>0, <2>2, NoneIsInvalid DEF Reread, GatewayInv
  <2>3. CASE NoCandidate(l)
    BY <2>3 DEF NoCandidate, UpInv, GatewayInv
  <2>4. CASE LoadLastKnownGood(l)
    <3>1. Head(job[l].dirs) \in Dirs
      BY <2>0, <2>4, HeadTailProperties DEF LoadLastKnownGood, ReadableCandidate, JobType
    <3>2. file[Head(job[l].dirs)] \in Valid
      BY <2>4, <3>1 DEF LoadLastKnownGood, ReadableCandidate, GatewayInv, SnapshotsWhole
    <3>3. QED BY <2>1, <2>4, <3>2 DEF LoadLastKnownGood
  <2>5. CASE Promoted(l)
    BY <2>1, <2>5 DEF Promoted
  <2>6. CASE \/ LoadPrimary(l) \/ PromoteFallback(l) \/ FindCandidates(l) \/ SkipCandidate(l)
             \/ Writes(l) \/ Command(l) \/ SetWritten(l) \/ \E t \in UserTexts : Save(t)
    <3>1. l \notin Setters
      BY DEF OneGateway
    <3>2. UNCHANGED active
      BY <2>6, <3>1
      DEF LoadPrimary, PromoteFallback, FindCandidates, SkipCandidate, Writes, WriteOn, storeVars,
          Command, SetWritten, Save
    <3>3. QED BY <3>2
  <2>7. ~(Watch(l) \/ SetRead(l) \/ RestoreRead(l) \/ CopyRejected(l) \/ Restored(l)
          \/ CopyFails(l) \/ Crash(l))
    BY <2>0
    DEF OneGateway, Watch, Poll, StageRead, CheckPass, CheckFail, SetRead, RestoreRead,
        CopyRejected, Restored, CopyFails, Crash, GatewayInv, Unharmed
  <2>8. QED
    BY <2>0, <2>2, <2>3, <2>4, <2>5, <2>6, <2>7 DEF Next, Operate
<1>4. QED BY <1>1, <1>2, <1>3, GatewayKeepsInv, PTL DEF Spec, GatewayStaysUp

----------------------------------------------------------------------------
(* Any watchers, gateways and `set`s, and anyone who saves anything. Of the   *)
(* files F, the primary alone or all of them, each has one writer at a time,  *)
(* which writes a valid text whole, until a temporary file is raced for. With *)
(* the snapshots among them a gateway may read the primary twice undisturbed. *)
RollingBack == {"stage", "check", "restoreDirs", "restoreRead", "copy", "restore"}

Files(F) == \/ F = {Primary} /\ Watchers = {}
            \/ F = Dirs \cup {Primary} /\ "reread" \in Quiet
Snapshots(F) == F \ {Primary}

Sound(p) == /\ pc[p] \in {"snapshot", "copy"} => job[p].text \in Valid
            /\ pc[p] = "reread" => file[Primary] \in Valid

KeptInv(F) ==
    /\ \A x \in Snapshots(F) : file[x] \in Valid \cup {None}
    /\ \A p \in Procs : W!Writing(p) /\ wr[p].path \in F => wr[p].text \in Valid /\ OwnTmp(p)
    /\ \A x \in F, p, q \in Procs : Holds(p, x) /\ Holds(q, x) => p = q
    /\ Snapshots(F) # {} => \A p \in Procs : Sound(p)

PrimaryInv(F) == /\ \A p \in Procs : pc[p] \in RollingBack => p \in Watchers
                 /\ raced \cap F = {} => KeptInv(F)

LEMMA KeptPaths ==
    ASSUME NEW F, Files(F)
    PROVE  /\ Primary \in F /\ F \subseteq Dirs \cup {Primary} /\ Snapshots(F) \subseteq Dirs
           /\ \/ Snapshots(F) = {} /\ Dirs \cap F = {} /\ Watchers = {}
              \/ Snapshots(F) = Dirs /\ Dirs \subseteq F /\ "reread" \in Quiet
  BY PathsAssumption DEF Files, Snapshots

LEMMA InitPrimary == ASSUME NEW F, Files(F), Init PROVE PrimaryInv(F)
<1>1. \A p \in Procs : ~W!Writing(p) /\ ~(\E x \in F : Holds(p, x)) /\ pc[p] \in {"set", "ready"}
  BY DEF Init, W!WriteInit, W!Writing, Holds, Start
<1>2. \A x \in Snapshots(F) : file[x] \in Valid \cup {None}
  BY KeptPaths, PathsAssumption DEF Init
<1>3. QED BY <1>1, <1>2 DEF PrimaryInv, KeptInv, Sound, RollingBack

(* A step of a write of another file leaves the kept ones alone; a step of    *)
(* the write of a kept one has its temporary file to itself.                  *)
LEMMA WritesKeepKept ==
    ASSUME NEW F, Files(F), TypeInv, KeptInv(F), NEW p \in Procs, Writes(p), raced' \cap F = {}
    PROVE  KeptInv(F)'
<1> DEFINE x == wr[p].path
<1> USE DEF TypeInv, TypeOK, W!WriteType, W!Writing
<1>0. UNCHANGED <<pc, job>> /\ x \in Dirs \cup {Primary}
  BY DEF Writes, WriteOn, storeVars
<1>1. CASE W!RenameMissing(p) \/ W!CutShort(p)
  <2>1. wr' = [wr EXCEPT ![p].stage = "failed"] /\ UNCHANGED <<file, tmp>>
    BY <1>1 DEF W!RenameMissing, W!CutShort, W!FailWrite
  <2>2. \A q \in Procs : W!Writing(q)' => q # p /\ wr'[q] = wr[q]
    BY <2>1
  <2>3. \A q \in Procs, y \in F : Holds(q, y)' => Holds(q, y)
    BY <2>1 DEF Holds
  <2>4. QED BY <1>0, <2>1, <2>2, <2>3 DEF KeptInv, OwnTmp, Sound
<1>2. CASE W!OpenTmp(p) /\ Races(p)
  <2>1. /\ wr' = [wr EXCEPT ![p].stage = "filling", ![p].at = "tmp"] /\ wr[p].stage = "open"
        /\ file' = file /\ tmp' = [tmp EXCEPT ![x] = Empty]
    BY <1>2 DEF W!OpenTmp
  <2>2. x \in F => \A q \in Procs \ {p} : ~Holds(q, x)
    BY <1>2, <2>1 DEF Races
  <2>3. \A q \in Procs \ {p} : wr'[q] = wr[q]
    BY <2>1
  <2>4. /\ wr'[p].stage = "filling" /\ wr'[p].at = "tmp" /\ wr'[p].path = x
        /\ wr'[p].text = wr[p].text /\ tmp'[x] = Empty
        /\ \A y \in F \ {x} : tmp'[y] = tmp[y]
    BY <1>0, <2>1, KeptPaths
  <2>5. ASSUME NEW q \in Procs, W!Writing(q)', wr'[q].path \in F
        PROVE  wr'[q].text \in Valid /\ OwnTmp(q)'
    <3>1. CASE q = p
      BY <2>1, <2>4, <2>5, <3>1 DEF KeptInv, OwnTmp
    <3>2. CASE q # p /\ wr[q].path = x
      BY <2>2, <2>3, <2>5, <3>2 DEF KeptInv, OwnTmp, Holds
    <3>3. CASE q # p /\ wr[q].path # x
      BY <2>3, <2>4, <2>5, <3>3 DEF KeptInv, OwnTmp
    <3>4. QED BY <3>1, <3>2, <3>3
  <2>6. ASSUME NEW y \in F, NEW q \in Procs, NEW r \in Procs, Holds(q, y)', Holds(r, y)'
        PROVE  q = r
    <3>1. CASE q # p /\ r # p
      BY <2>3, <2>6, <3>1 DEF KeptInv, Holds
    <3>2. CASE q = p \/ r = p
      BY <2>2, <2>3, <2>4, <2>6, <3>2 DEF Holds
    <3>3. QED BY <3>1, <3>2
  <2>7. QED BY <1>0, <2>1, <2>5, <2>6 DEF KeptInv, Sound
<1>3. CASE W!FillTmp(p)
  <2>1. wr' = [wr EXCEPT ![p].stage = "rename"] /\ wr[p].stage = "filling"
    BY <1>3 DEF W!FillTmp
  <2>2. \A q \in Procs, y \in F : Holds(q, y)' <=> Holds(q, y)
    BY <2>1 DEF Holds
  <2>3. \A q \in Procs \ {p} : wr'[q] = wr[q]
    BY <2>1
  <2>4. CASE x \in F
    <3>1. wr[p].text \in Valid /\ wr[p].at = "tmp" /\ tmp[x] = Empty
      BY <2>1, <2>4 DEF KeptInv, OwnTmp
    <3>2. W!Overlay(Empty, wr[p].text) = {wr[p].text}
      BY DEF W!Overlay
    <3>3. file' = file /\ tmp' = [tmp EXCEPT ![x] = wr[p].text]
      BY <1>3, <3>1, <3>2 DEF W!FillTmp
    <3>4. ASSUME NEW q \in Procs, W!Writing(q)', wr'[q].path \in F
          PROVE  wr'[q].text \in Valid /\ OwnTmp(q)'
      <4>1. CASE q = p
        BY <1>0, <2>1, <3>1, <3>3, <4>1 DEF OwnTmp
      <4>2. CASE q # p /\ wr[q].path = x
        <5>1. ~Holds(q, x)
          BY <2>1, <2>4, <4>2 DEF KeptInv, Holds
        <5>2. QED BY <2>3, <3>4, <4>2, <5>1 DEF KeptInv, OwnTmp, Holds
      <4>3. CASE q # p /\ wr[q].path # x
        BY <2>3, <3>3, <3>4, <4>3 DEF KeptInv, OwnTmp
      <4>4. QED BY <4>1, <4>2, <4>3
    <3>5. QED BY <1>0, <2>2, <3>3, <3>4 DEF KeptInv, Sound
  <2>5. CASE x \notin F
    <3>1. /\ \A y \in F : file'[y] = file[y] /\ tmp'[y] = tmp[y]
          /\ Primary \in F /\ Snapshots(F) \subseteq F
      BY <1>3, <2>5, KeptPaths DEF W!FillTmp, Snapshots
    <3>2. ASSUME NEW q \in Procs, W!Writing(q)', wr'[q].path \in F
          PROVE  wr'[q].text \in Valid /\ OwnTmp(q)'
      <4>1. q # p
        BY <2>1, <2>5, <3>2
      <4>2. QED BY <2>3, <3>1, <3>2, <4>1 DEF KeptInv, OwnTmp
    <3>3. QED BY <1>0, <2>2, <3>1, <3>2 DEF KeptInv, Sound
  <2>6. QED BY <2>4, <2>5
<1>4. CASE W!RenameTmp(p)
  <2>1. /\ wr[p].stage = "rename" /\ wr'[p].stage = "done" /\ wr'[p].path = x
        /\ file' = [file EXCEPT ![x] = tmp[x]] /\ tmp' = [tmp EXCEPT ![x] = None]
        /\ \A q \in Procs \ {p} :
             /\ wr'[q].stage = wr[q].stage /\ wr'[q].path = wr[q].path /\ wr'[q].text = wr[q].text
             /\ wr[q].path # x => wr'[q] = wr[q]
    BY <1>4 DEF W!RenameTmp
  <2>2. \A q \in Procs, y \in F : Holds(q, y)' => q # p /\ Holds(q, y)
    BY <2>1 DEF Holds
  <2>3. /\ \A y \in Snapshots(F) : file'[y] \in Valid \cup {None}
        /\ file'[Primary] = file[Primary] \/ file'[Primary] \in Valid
    <3>1. x \in F => tmp[x] \in Valid
      BY <2>1 DEF KeptInv, OwnTmp
    <3>2. QED BY <2>1, <3>1, KeptPaths DEF KeptInv, Snapshots
  <2>4. ASSUME NEW q \in Procs, W!Writing(q)', wr'[q].path \in F
        PROVE  wr'[q].text \in Valid /\ OwnTmp(q)'
    <3>1. q # p
      BY <2>1, <2>4
    <3>2. CASE wr[q].path = x
      <4>1. ~Holds(q, x)
        BY <2>1, <2>4, <3>1, <3>2 DEF KeptInv, Holds
      <4>2. QED BY <2>1, <2>4, <3>1, <3>2, <4>1 DEF KeptInv, OwnTmp, Holds
    <3>3. CASE wr[q].path # x
      BY <2>1, <2>4, <3>1, <3>3, KeptPaths DEF KeptInv, OwnTmp
    <3>4. QED BY <3>2, <3>3
  <2>5. QED BY <1>0, <2>2, <2>3, <2>4 DEF KeptInv, Sound
<1>5. QED BY <1>1, <1>2, <1>3, <1>4 DEF Writes, WriteOn, W!WriteStep

(* The beginning of a write of a kept file with a valid text.                 *)
LEMMA BeginKeepsKept ==
    ASSUME NEW F, Files(F), TypeInv, KeptInv(F), NEW p \in Procs, NEW x \in Dirs \cup {Primary}, NEW t,
           W!BeginWrite(p, x, t), UNCHANGED <<file, tmp>>, x \in F => t \in Valid,
           Snapshots(F) # {} => \A q \in Procs : Sound(q)'
    PROVE  KeptInv(F)'
<1> USE DEF TypeInv, TypeOK, W!WriteType, W!Writing
<1>1. /\ wr'[p] = [stage |-> "open", at |-> "tmp", path |-> x, text |-> t]
      /\ \A q \in Procs \ {p} : wr'[q] = wr[q]
  BY DEF W!BeginWrite
<1>2. \A q \in Procs, y \in F : Holds(q, y)' => Holds(q, y)
  BY <1>1 DEF Holds
<1>3. \A q \in Procs : W!Writing(q)' /\ wr'[q].path \in F => wr'[q].text \in Valid /\ OwnTmp(q)'
  BY <1>1 DEF KeptInv, OwnTmp
<1>4. QED BY <1>2, <1>3 DEF KeptInv

LEMMA StepPrimary ==
    ASSUME NEW F, Files(F), TypeInv, PrimaryInv(F), [Next]_vars
    PROVE  PrimaryInv(F)'
<1> USE DEF TypeInv, TypeOK, W!WriteType
<1>1. CASE UNCHANGED vars
  BY <1>1 DEF vars, PrimaryInv, KeptInv, Sound, OwnTmp, W!Writing, Holds
<1>2. ASSUME NEW t \in UserTexts, Save(t) PROVE PrimaryInv(F)'
  <2>1. /\ UNCHANGED <<tmp, wr, pc, job, raced>> /\ file' = [file EXCEPT ![Primary] = t]
        /\ \A x \in Snapshots(F) : file'[x] = file[x]
        /\ Snapshots(F) # {} => \A p \in Procs : pc[p] # "reread"
    BY <1>2, KeptPaths, PathsAssumption DEF Save, Snapshots
  <2>2. KeptInv(F) => KeptInv(F)'
    BY <2>1 DEF KeptInv, Sound, OwnTmp, W!Writing, Holds
  <2>3. QED BY <2>1, <2>2 DEF PrimaryInv
<1>3. ASSUME NEW p \in Procs, Writes(p) PROVE PrimaryInv(F)'
  <2>1. UNCHANGED pc /\ raced \subseteq raced'
    BY <1>3 DEF Writes, WriteOn, Races, storeVars
  <2>2. QED BY <1>3, <2>1, WritesKeepKept DEF PrimaryInv
<1>4. ASSUME NEW p \in Procs, Crash(p) PROVE PrimaryInv(F)'
  <2>1. /\ UNCHANGED <<file, tmp, raced>> /\ pc' = [pc EXCEPT ![p] = Rest(p)]
        /\ wr'[p].stage \notin {"open", "filling", "rename"}
        /\ \A q \in Procs \ {p} : wr'[q] = wr[q] /\ job'[q] = job[q]
    BY <1>4 DEF Crash, W!Writing
  <2>2. /\ \A q \in Procs : W!Writing(q)' => q # p
        /\ \A q \in Procs, x \in F : Holds(q, x)' => q # p /\ Holds(q, x)
        /\ pc'[p] \in {"ready", "ended"} /\ \A q \in Procs \ {p} : pc'[q] = pc[q]
    BY <2>1 DEF W!Writing, Holds, Rest
  <2>3. KeptInv(F) => KeptInv(F)'
    BY <2>1, <2>2 DEF KeptInv, Sound, OwnTmp, W!Writing
  <2>4. QED BY <2>1, <2>2, <2>3 DEF PrimaryInv, RollingBack
(* The steps that begin no write.                                             *)
<1>5. ASSUME NEW p \in Procs, UNCHANGED <<file, tmp, wr, raced>>,
             \A q \in Procs \ {p} : pc'[q] = pc[q] /\ job'[q] = job[q],
             pc'[p] \in RollingBack => p \in Watchers,
             KeptInv(F) /\ Snapshots(F) # {} => Sound(p)'
      PROVE  PrimaryInv(F)'
  <2>1. KeptInv(F) => KeptInv(F)'
    BY <1>5 DEF KeptInv, Sound, OwnTmp, W!Writing, Holds
  <2>2. QED BY <1>5, <2>1 DEF PrimaryInv
<1>6. ASSUME NEW p \in Procs, UNCHANGED <<file, tmp, wr, raced>>,
             Err(p) \/ \E t, source : Succeed(p, t, source)
      PROVE  PrimaryInv(F)'
  <2>1. /\ pc'[p] \in {"ended", "ready"}
        /\ \A q \in Procs \ {p} : pc'[q] = pc[q] /\ job'[q] = job[q]
    BY <1>6 DEF Err, Succeed, Rest
  <2>2. QED BY <1>5, <1>6, <2>1 DEF RollingBack, Sound
(* The ones that begin one.                                                   *)
<1>7. ASSUME NEW p \in Procs, NEW x \in Dirs \cup {Primary}, NEW t, W!BeginWrite(p, x, t),
             UNCHANGED <<file, tmp, raced>>, KeptInv(F) /\ x \in F => t \in Valid,
             \A q \in Procs \ {p} : pc'[q] = pc[q] /\ job'[q] = job[q],
             pc'[p] \in RollingBack => p \in Watchers,
             KeptInv(F) /\ Snapshots(F) # {} => Sound(p)'
      PROVE  PrimaryInv(F)'
  <2>1. KeptInv(F) => KeptInv(F)'
    <3> SUFFICES ASSUME KeptInv(F) PROVE KeptInv(F)'
      OBVIOUS
    <3>1. Snapshots(F) # {} => \A q \in Procs : Sound(q)'
      BY <1>7 DEF KeptInv, Sound
    <3>2. QED BY <1>7, <3>1, BeginKeepsKept
  <2>2. QED BY <1>7, <2>1 DEF PrimaryInv
<1>8. ASSUME NEW p \in Procs, NEW cfg \in Valid, NEW text, PromoteBegin(p, cfg, text),
             UNCHANGED <<file, tmp, raced>>, KeptInv(F) /\ Snapshots(F) # {} => text \in Valid
      PROVE  PrimaryInv(F)'
  <2>1. /\ pc'[p] = "snapshot" /\ job'[p].text = text
        /\ \A q \in Procs \ {p} : pc'[q] = pc[q] /\ job'[q] = job[q]
    BY <1>8 DEF PromoteBegin, Goto, JobType
  <2>2. W!BeginWrite(p, DataDir[cfg], text) /\ DataDir[cfg] \in Dirs
    BY <1>8, DataDirAssumption DEF PromoteBegin
  <2>3. QED BY <1>7, <1>8, <2>1, <2>2, KeptPaths DEF RollingBack, Sound
<1>9. ASSUME NEW p \in Procs, NEW new \in Valid, W!BeginWrite(p, Primary, new),
             UNCHANGED <<file, tmp, raced, job>>, Goto(p, "setting")
      PROVE  PrimaryInv(F)'
  <2>1. pc'[p] = "setting" /\ \A q \in Procs \ {p} : pc'[q] = pc[q]
    BY <1>9 DEF Goto
  <2>2. QED BY <1>7, <1>9, <2>1 DEF RollingBack, Sound
<1>10. ASSUME NEW p \in Procs, Operate(p) PROVE PrimaryInv(F)'
  <2>1. CASE Poll(p) \/ LoadPrimary(p) \/ SkipCandidate(p)
    <3>1. /\ UNCHANGED <<file, tmp, wr, raced>> /\ \A q \in Procs \ {p} : pc'[q] = pc[q] /\ job'[q] = job[q]
          /\ pc'[p] \in {"stage", "reread", "lkgDirs", "restoreRead", "lkgRead"}
      BY <2>1 DEF Poll, LoadPrimary, SkipCandidate, Goto
    <3>2. pc'[p] \in RollingBack => p \in Watchers
      BY <2>1 DEF Poll, LoadPrimary, SkipCandidate, Goto, PrimaryInv, RollingBack
    <3>3. pc'[p] = "reread" => file[Primary] \in Valid
      BY <2>1 DEF Poll, LoadPrimary, SkipCandidate, Goto
    <3>4. QED BY <1>5, <3>1, <3>2, <3>3 DEF Sound
  <2>2. CASE StageRead(p) \/ CheckFail(p) \/ Restored(p)
    <3>1. CASE Err(p)
      BY <1>6, <2>2, <3>1 DEF StageRead, CheckFail, Restored
    <3>2. CASE ~Err(p)
      <4>1. /\ UNCHANGED <<file, tmp, wr, raced>> /\ \A q \in Procs \ {p} : pc'[q] = pc[q] /\ job'[q] = job[q]
            /\ pc'[p] \in {"check", "restoreDirs", "lkgDirs"} /\ p \in Watchers
        BY <2>2, <3>2 DEF StageRead, CheckFail, Restored, Goto, PrimaryInv, RollingBack
      <4>2. QED BY <1>5, <4>1 DEF Sound
    <3>3. QED BY <3>1, <3>2
  <2>3. CASE CheckPass(p)
    <3>1. /\ job[p].text \in Valid /\ PromoteBegin(p, job[p].text, job[p].text)
          /\ UNCHANGED <<file, tmp, raced>>
      BY <2>3 DEF CheckPass, OnlyValid
    <3>2. QED BY <1>8, <3>1
  <2>4. CASE Reread(p)
    <3>1. CASE Err(p) /\ UNCHANGED wr
      BY <1>6, <2>4, <3>1 DEF Reread
    <3>2. CASE ~(Err(p) /\ UNCHANGED wr)
      <4>1. /\ file[Primary] # None /\ PromoteBegin(p, job[p].cfg, file[Primary])
            /\ UNCHANGED <<file, tmp, raced>> /\ job[p].cfg \in Valid
        BY <2>4, <3>2 DEF Reread, OnlyValid
      <4>2. KeptInv(F) /\ Snapshots(F) # {} => file[Primary] \in Valid
        BY <2>4 DEF KeptInv, Sound, Reread
      <4>3. QED BY <1>8, <4>1, <4>2
    <3>3. QED BY <3>1, <3>2
  <2>5. CASE SetRead(p)
    <3>1. CASE Err(p) /\ UNCHANGED wr
      BY <1>6, <2>5, <3>1 DEF SetRead
    <3>2. CASE ~(Err(p) /\ UNCHANGED wr)
      BY <1>9, <2>5, <3>2 DEF SetRead
    <3>3. QED BY <3>1, <3>2
  <2>6. CASE SetWritten(p)
    <3>1. CASE Err(p)
      BY <1>6, <2>6, <3>1 DEF SetWritten
    <3>2. CASE ~Err(p)
      <4>1. /\ UNCHANGED <<file, tmp, wr, raced, job>> /\ pc'[p] \in {"ready", "load"}
            /\ \A q \in Procs \ {p} : pc'[q] = pc[q]
        BY <2>6, <3>2 DEF SetWritten, Goto
      <4>2. QED BY <1>5, <4>1 DEF RollingBack, Sound
    <3>3. QED BY <3>1, <3>2
  <2>7. CASE PromoteFallback(p)
    <3>1. /\ pc[p] = "snapshot" /\ pc'[p] = "fallback" /\ UNCHANGED <<file, tmp, raced, job>>
          /\ \A q \in Procs \ {p} : pc'[q] = pc[q]
          /\ W!BeginWrite(p, Fallback, job[p].text)
      BY <2>7 DEF PromoteFallback, Goto
    <3>2. KeptInv(F) /\ Fallback \in F => job[p].text \in Valid
      BY <3>1, KeptPaths, PathsAssumption DEF KeptInv, Sound
    <3>3. QED BY <1>7, <3>1, <3>2, PathsAssumption DEF RollingBack, Sound
  <2>8. CASE Promoted(p) \/ NoCandidate(p) \/ LoadLastKnownGood(p)
    BY <1>6, <2>8 DEF Promoted, NoCandidate, LoadLastKnownGood
  <2>9. CASE FindCandidates(p)
    <3>1. /\ UNCHANGED <<file, tmp, wr, raced>> /\ \A q \in Procs \ {p} : pc'[q] = pc[q] /\ job'[q] = job[q]
          /\ pc'[p] \in {"restoreRead", "lkgRead"}
          /\ pc'[p] = "restoreRead" => pc[p] = "restoreDirs"
      BY <2>9 DEF FindCandidates, Goto
    <3>2. pc'[p] \in RollingBack => p \in Watchers
      BY <3>1 DEF PrimaryInv, RollingBack
    <3>3. QED BY <1>5, <3>1, <3>2 DEF Sound
  <2>10. CASE RestoreRead(p)
    <3>1. /\ UNCHANGED <<file, tmp, wr, raced>> /\ \A q \in Procs \ {p} : pc'[q] = pc[q] /\ job'[q] = job[q]
          /\ pc[p] = "restoreRead" /\ pc'[p] = "copy" /\ job'[p].text = file[Head(job[p].dirs)]
          /\ ReadableCandidate(p)
      BY <2>10 DEF RestoreRead, Goto, JobType
    <3>2. p \in Watchers
      BY <3>1 DEF PrimaryInv, RollingBack
    <3>3. Head(job[p].dirs) \in Dirs
      BY <3>1, HeadTailProperties DEF ReadableCandidate, JobType
    <3>4. KeptInv(F) => file[Head(job[p].dirs)] \in Valid
      BY <3>1, <3>2, <3>3, KeptPaths DEF KeptInv, ReadableCandidate
    <3>5. QED BY <1>5, <3>1, <3>2, <3>4 DEF Sound
  <2>11. CASE CopyRejected(p)
    <3>1. /\ UNCHANGED <<file, tmp, raced, job>> /\ \A q \in Procs \ {p} : pc'[q] = pc[q]
          /\ pc[p] = "copy" /\ pc'[p] = "restore" /\ W!BeginWrite(p, Primary, job[p].text)
      BY <2>11 DEF CopyRejected, Goto
    <3>2. p \in Watchers
      BY <3>1 DEF PrimaryInv, RollingBack
    <3>3. KeptInv(F) => job[p].text \in Valid
      BY <3>1, <3>2, KeptPaths, PathsAssumption DEF KeptInv, Sound
    <3>4. QED BY <1>7, <3>1, <3>2, <3>3 DEF Sound
  <2>12. QED
    BY <1>10, <2>1, <2>2, <2>3, <2>4, <2>5, <2>6, <2>7, <2>8, <2>9, <2>10, <2>11
    DEF Operate, Watch
<1>11. ASSUME NEW p \in Procs, Command(p) PROVE PrimaryInv(F)'
  BY <1>9, <1>11 DEF Command
<1>12. ASSUME NEW p \in Procs, CopyFails(p) PROVE PrimaryInv(F)'
  BY <1>6, <1>12 DEF CopyFails
<1>13. QED
  BY <1>1, <1>2, <1>3, <1>4, <1>10, <1>11, <1>12 DEF Next

LEMMA KeepsPrimary == ASSUME NEW F, Files(F) PROVE Spec => [](TypeInv /\ PrimaryInv(F))
<1>1. Init => PrimaryInv(F)
  BY InitPrimary
<1>2. TypeInv /\ PrimaryInv(F) /\ [Next]_vars => PrimaryInv(F)'
  BY StepPrimary
<1>3. Spec => []TypeInv
  BY TypeCorrect, PTL DEF TypeInv
<1>4. QED BY <1>1, <1>2, <1>3, PTL DEF Spec

(* Only the rename of a write changes the primary, but for a save.            *)
LEMMA WritesPrimary ==
    ASSUME NEW F, Files(F), TypeInv, PrimaryInv(F), Next, raced' \cap F = {},
           file'[Primary] # file[Primary], wr' # wr
    PROVE  file'[Primary] \in Valid
<1> USE DEF TypeInv, TypeOK, W!WriteType, W!Writing
<1>1. ~\E t \in UserTexts : Save(t)
  BY DEF Save
<1>2. PICK p \in Procs : Operate(p) \/ CopyFails(p) \/ Command(p) \/ Writes(p) \/ Crash(p)
  BY <1>1 DEF Next
<1>3. CASE Operate(p) \/ CopyFails(p) \/ Command(p) \/ Crash(p)
  <2>1. UNCHANGED file
    BY <1>3
    DEF Operate, Watch, Poll, StageRead, CheckPass, CheckFail, LoadPrimary, Reread, SetRead,
        SetWritten, PromoteFallback, Promoted, FindCandidates, SkipCandidate, NoCandidate,
        LoadLastKnownGood, RestoreRead, CopyRejected, Restored, CopyFails, Command, Crash
  <2>2. QED BY <2>1
<1>4. CASE Writes(p)
  <2>1. raced \cap F = {} /\ Primary \in F
    BY <1>4, KeptPaths DEF Writes, WriteOn, Races
  <2>2. W!RenameTmp(p)
    <3>1. ~W!FillTmp(p)
      BY <2>1 DEF W!FillTmp, PrimaryInv, KeptInv, OwnTmp
    <3>2. ~(W!OpenTmp(p) \/ W!RenameMissing(p) \/ W!CutShort(p))
      BY DEF W!OpenTmp, W!RenameMissing, W!CutShort, W!FailWrite
    <3>3. QED BY <1>4, <3>1, <3>2 DEF Writes, WriteOn, W!WriteStep
  <2>3. wr[p].stage = "rename" /\ wr[p].path = Primary /\ file'[Primary] = tmp[Primary]
    BY <2>2 DEF W!RenameTmp
  <2>4. QED BY <2>1, <2>3 DEF PrimaryInv, KeptInv, OwnTmp
<1>5. QED BY <1>2, <1>3, <1>4

LEMMA KeepsPrimaryValid ==
    ASSUME NEW F, Files(F), F = Kept PROVE Spec => PrimaryStaysValid
<1>1. TypeInv /\ PrimaryInv(F) /\ [Next]_vars =>
        [file'[Primary] # file[Primary] /\ wr' # wr /\ raced' \cap Kept = {} =>
           file'[Primary] \in Valid]_vars
  BY WritesPrimary
<1>2. QED BY <1>1, KeepsPrimary, PTL DEF Spec, PrimaryStaysValid

(* yaml_edit::set_values validates before it writes: any number of `set`s,    *)
(* gateway commands, rollbacks, failures and crashes, and anything people     *)
(* save, leave no invalid or half-written config file by a process's hand     *)
(* until two calls hold one temporary file at once (SetRace shows what happens*)
(* then). Beside a watcher, no save may land between two reads of a load: the *)
(* snapshot that is promoted there is what a rollback would bring back.       *)
THEOREM PrimaryValid == ASSUME Watchers = {} \/ "reread" \in Quiet
                        PROVE  Spec => PrimaryStaysValid
<1>1. Files(Kept)
  BY DEF Files, Kept
<1>2. QED BY <1>1, KeepsPrimaryValid

LEMMA KeepsSnapshotsValid ==
    ASSUME NEW F, Files(F), F = Dirs \cup {Primary} PROVE Spec => []SnapshotsValid
<1>1. PrimaryInv(F) => SnapshotsValid
  BY PathsAssumption DEF PrimaryInv, KeptInv, Snapshots, SnapshotsValid
<1>2. QED BY <1>1, KeepsPrimary, PTL

(* docs/RELIABILITY.md:20, for what load_with_recovery promotes, too: as long *)
(* as nobody saves between its two reads, every snapshot parses and validates,*)
(* whichever watchers, gateways and `set`s there are, wherever they fail or   *)
(* are killed, until two calls hold one temporary file.                       *)
THEOREM GatewaySnapshots == ASSUME "reread" \in Quiet PROVE Spec => []SnapshotsValid
<1>1. Files(Dirs \cup {Primary})
  BY DEF Files
<1>2. QED BY <1>1, KeepsSnapshotsValid

----------------------------------------------------------------------------
(* One watcher whose writes succeed and that is not killed, and one data_dir. *)
(* Between promotions both snapshots hold the config it last went on with;    *)
(* where it looks for a snapshot, it finds no other.                          *)
OneDataDir(d) == d \in Dirs /\ \A t \in Valid : DataDir[t] = d

LastInv(w, d) ==
    /\ wr[w].stage # "failed"
    /\ W!Writing(w) => pc[w] \in {"snapshot", "fallback", "restore"}
    /\ pc[w] \notin {"snapshot", "fallback"} => file[d] = lastGood /\ file[Fallback] = lastGood
    /\ pc[w] \in {"snapshot", "fallback"} => job[w].text = job[w].cfg /\ wr[w].text = job[w].cfg
    /\ pc[w] = "snapshot" => wr[w].path = d /\ (wr[w].stage = "done" => file[d] = job[w].cfg)
    /\ pc[w] = "fallback" => /\ wr[w].path = Fallback /\ d # Fallback /\ file[d] = job[w].cfg
                             /\ wr[w].stage = "done" => file[Fallback] = job[w].cfg
    /\ pc[w] = "restore" => wr[w].path = Primary
    /\ pc[w] \in {"restoreRead", "lkgRead"} => job[w].dirs \in Seq({d, Fallback})

LEMMA CandidatesOfOne == ASSUME NEW d, OneDataDir(d) PROVE CandidateDirs \in Seq({d, Fallback})
<1> DEFINE S == {d, Fallback}
<1>1. BestDir \in S /\ Fallback \in S
  BY DEF BestDir, OneDataDir
<1> HIDE DEF S
<1>2. CandidateDirs \in Seq(S)
  BY <1>1 DEF CandidateDirs
<1>3. QED BY <1>2 DEF S

LEMMA StepLast ==
    ASSUME NEW w, OneWatcher(w), Unharmed(w), NEW d, OneDataDir(d),
           TypeInv, VettedInv, LastInv(w, d), [Next]_vars
    PROVE  LastInv(w, d)'
<1> USE DEF TypeInv, TypeOK, W!WriteType
<1>0. /\ Procs = {w} /\ w \in Procs /\ w \in Watchers /\ w \notin Setters /\ w \notin Loaders
      /\ OwnTmp(w) /\ (W!Writing(w) => wr[w].text # None)
      /\ d \in Dirs /\ Fallback \in Dirs /\ Primary \notin Dirs
  BY NoneIsInvalid, PathsAssumption
  DEF OneWatcher, OneDataDir, Procs, VettedInv, OnlyPassedInFlight, OwnTmp
<1>1. CASE UNCHANGED vars
  BY <1>1 DEF vars, LastInv, W!Writing
<1>2. ASSUME NEW t \in UserTexts, Save(t) PROVE LastInv(w, d)'
  <2>1. /\ UNCHANGED <<wr, pc, job, lastGood>>
        /\ file'[d] = file[d] /\ file'[Fallback] = file[Fallback]
    BY <1>0, <1>2 DEF Save
  <2>2. QED BY <2>1 DEF LastInv, W!Writing
<1>3. CASE Writes(w)
  <2>1. UNCHANGED <<pc, job, lastGood>>
    BY <1>3 DEF Writes, WriteOn, storeVars
  <2>2. /\ W!Writing(w) /\ wr'[w].path = wr[w].path /\ wr'[w].text = wr[w].text
        /\ \/ file' = file /\ wr'[w].stage \in {"filling", "rename", "failed"}
           \/ wr'[w].stage = "done" /\ file' = [file EXCEPT ![wr[w].path] = wr[w].text]
        /\ wr'[w].stage # "failed"
    BY <1>0, <1>3, OwnWrite DEF Writes, WriteOn, Unharmed
  <2>3. CASE pc[w] = "snapshot"
    BY <1>0, <2>1, <2>2, <2>3 DEF LastInv, W!Writing
  <2>4. CASE pc[w] = "fallback"
    BY <1>0, <2>1, <2>2, <2>4 DEF LastInv, W!Writing
  <2>5. CASE pc[w] = "restore"
    <3>1. file'[d] = file[d] /\ file'[Fallback] = file[Fallback]
      BY <1>0, <2>2, <2>5 DEF LastInv
    <3>2. QED BY <2>1, <2>2, <2>5, <3>1 DEF LastInv, W!Writing
  <2>6. QED BY <2>2, <2>3, <2>4, <2>5 DEF LastInv
(* Between promotions: neither a snapshot nor lastGood changes.               *)
<1>4. ASSUME UNCHANGED <<file, wr, lastGood>>, pc[w] \notin {"snapshot", "fallback"},
             ~W!Writing(w), pc'[w] \notin {"snapshot", "fallback", "restore"},
             pc'[w] \in {"restoreRead", "lkgRead"} => job'[w].dirs \in Seq({d, Fallback})
      PROVE  LastInv(w, d)'
  BY <1>4 DEF LastInv, W!Writing
<1>5. CASE Poll(w) \/ StageRead(w) \/ CheckFail(w) \/ NoCandidate(w) \/ LoadLastKnownGood(w)
           \/ RestoreRead(w)
  <2>1. /\ UNCHANGED <<file, wr, lastGood>>
        /\ pc[w] \notin {"snapshot", "fallback", "restore"}
    BY <1>5 DEF Poll, StageRead, CheckFail, NoCandidate, LoadLastKnownGood, RestoreRead
  <2>2. pc'[w] \in {"ready", "stage", "check", "restoreDirs", "copy"}
    BY <1>0, <1>5
    DEF Poll, StageRead, CheckFail, NoCandidate, LoadLastKnownGood, RestoreRead, Goto, Err, Succeed,
        Rest
  <2>3. QED BY <1>4, <2>1, <2>2 DEF LastInv
<1>6. CASE FindCandidates(w)
  <2>1. /\ UNCHANGED <<file, wr, lastGood>> /\ job'[w].dirs = CandidateDirs
        /\ pc[w] \in {"restoreDirs", "lkgDirs"} /\ pc'[w] \in {"restoreRead", "lkgRead"}
    BY <1>0, <1>6 DEF FindCandidates, Goto, JobType
  <2>2. QED BY <1>4, <2>1, CandidatesOfOne DEF LastInv
<1>7. CASE SkipCandidate(w)
  <2>1. /\ UNCHANGED <<file, wr, lastGood, pc>> /\ job'[w].dirs = Tail(job[w].dirs)
        /\ pc[w] \in {"restoreRead", "lkgRead"} /\ job[w].dirs # <<>>
        /\ job[w].dirs \in Seq({d, Fallback})
    BY <1>0, <1>7 DEF SkipCandidate, LastInv, JobType
  <2>2. job'[w].dirs \in Seq({d, Fallback})
    BY <2>1, HeadTailProperties
  <2>3. QED BY <1>4, <2>1, <2>2 DEF LastInv
<1>8. CASE CheckPass(w)
  <2> DEFINE text == job[w].text
  <2>1. /\ PromoteBegin(w, text, text) /\ text \in Valid /\ UNCHANGED <<file, lastGood>>
    BY <1>0, <1>8 DEF CheckPass, OnlyValid
  <2>2. wr'[w] = [stage |-> "open", at |-> "tmp", path |-> d, text |-> text]
    BY <1>0, <2>1, Begun DEF PromoteBegin, OneDataDir
  <2>3. pc'[w] = "snapshot" /\ job'[w].cfg = text /\ job'[w].text = text
    BY <1>0, <2>1 DEF PromoteBegin, Goto, JobType
  <2>4. QED BY <2>2, <2>3 DEF LastInv, W!Writing
<1>9. CASE PromoteFallback(w)
  <2>1. wr'[w] = [stage |-> "open", at |-> "tmp", path |-> Fallback, text |-> job[w].text]
    BY <1>0, <1>9, Begun DEF PromoteFallback
  <2>2. /\ pc[w] = "snapshot" /\ pc'[w] = "fallback" /\ UNCHANGED <<file, job>>
        /\ ~W!Writing(w) /\ DataDir[job[w].cfg] # Fallback /\ job[w].cfg \in Valid
    BY <1>0, <1>9 DEF PromoteFallback, Goto, OnlyValid
  <2>3. wr[w].stage = "done" /\ d # Fallback
    BY <1>0, <2>2 DEF LastInv, W!Writing, W!Stage, OneDataDir
  <2>4. QED BY <2>1, <2>2, <2>3 DEF LastInv, W!Writing
<1>10. CASE Promoted(w)
  <2>1. /\ UNCHANGED <<file, wr>> /\ pc'[w] = "ready" /\ lastGood' = job[w].cfg
        /\ ~W!Writing(w) /\ job[w].cfg \in Valid
    BY <1>0, <1>10 DEF Promoted, Succeed, Rest, OnlyValid
  <2>2. wr[w].stage = "done"
    BY <1>0, <2>1 DEF LastInv, W!Writing, W!Stage
  <2>3. file[d] = job[w].cfg /\ file[Fallback] = job[w].cfg
    BY <1>0, <1>10, <2>1, <2>2 DEF Promoted, LastInv, OneDataDir
  <2>4. QED BY <2>1, <2>3 DEF LastInv, W!Writing
<1>11. CASE CopyRejected(w)
  <2>1. wr'[w] = [stage |-> "open", at |-> "tmp", path |-> Primary, text |-> job[w].text]
    BY <1>0, <1>11, Begun DEF CopyRejected
  <2>2. pc[w] = "copy" /\ pc'[w] = "restore" /\ UNCHANGED <<file, lastGood>>
    BY <1>0, <1>11 DEF CopyRejected, Goto
  <2>3. QED BY <2>1, <2>2 DEF LastInv, W!Writing
<1>12. CASE Restored(w)
  <2>1. /\ UNCHANGED <<file, wr, lastGood>> /\ pc[w] = "restore" /\ ~W!Writing(w)
        /\ wr[w].stage # "failed"
    BY <1>12 DEF Restored, LastInv
  <2>2. pc'[w] = "lkgDirs"
    BY <1>0, <1>12, <2>1 DEF Restored, Goto
  <2>3. QED BY <1>4, <2>1, <2>2
<1>13. ~(LoadPrimary(w) \/ Reread(w) \/ SetRead(w) \/ SetWritten(w) \/ Command(w) \/ CopyFails(w)
         \/ Crash(w))
  BY <1>0
  DEF LoadPrimary, Reread, SetRead, SetWritten, Command, CopyFails, Crash, Unharmed, VettedInv,
      OnlyPassedInFlight
<1>14. QED
  BY <1>0, <1>1, <1>2, <1>3, <1>5, <1>6, <1>7, <1>8, <1>9, <1>10, <1>11, <1>12, <1>13
  DEF Next, Operate, Watch

(* docs/RELIABILITY.md: a rollback goes back to the config `watch` last went  *)
(* on with, not to an older one, whatever people save at whatever moment,     *)
(* where its writes succeed and every config names the same data_dir.         *)
THEOREM RollsBack == ASSUME NEW w, OneWatcher(w), Unharmed(w), NEW d, OneDataDir(d)
                     PROVE  Spec => RollsBackToLast
<1>1. Init => LastInv(w, d)
  BY PathsAssumption
  DEF Init, OneWatcher, OneDataDir, LastInv, Procs, Start, W!WriteInit, W!Writing
<1>2. TypeInv /\ VettedInv /\ LastInv(w, d) /\ [Next]_vars => LastInv(w, d)'
  BY StepLast
<1>3. ASSUME TypeInv, VettedInv, LastInv(w, d), [Next]_vars
      PROVE  [\A p \in Watchers : active'[p] # active[p] /\ active'[p].source = "lkg"
                => active'[p].text = lastGood]_vars
  <2> SUFFICES ASSUME Next, active'[w] # active[w], active'[w].source = "lkg"
               PROVE  active'[w].text = lastGood
    BY <1>3 DEF OneWatcher
  <2> USE <1>3 DEF TypeInv, TypeOK, W!WriteType
  <2>0. Procs = {w} /\ w \in Procs /\ w \in Watchers
    BY DEF OneWatcher, Procs
  <2>1. CASE LoadLastKnownGood(w)
    <3>1. Head(job[w].dirs) \in {d, Fallback}
      BY <2>1, HeadTailProperties DEF LoadLastKnownGood, ReadableCandidate, LastInv
    <3>2. file[Head(job[w].dirs)] = lastGood
      BY <2>1, <3>1 DEF LoadLastKnownGood, LastInv
    <3>3. ~Err(w)
      BY <2>0 DEF Err
    <3>4. Succeed(w, file[Head(job[w].dirs)], "lkg")
      BY <2>1, <3>3 DEF LoadLastKnownGood
    <3>5. QED BY <2>0, <3>2, <3>4 DEF Succeed
  <2>2. ~(Promoted(w) \/ Err(w))
    BY <2>0 DEF Promoted, Succeed, Err
  <2>3. ~UNCHANGED active
    OBVIOUS
  <2>4. ~(Crash(w) \/ \E t \in UserTexts : Save(t))
    BY DEF Crash, Save, Unharmed
  <2>5. ~(\/ Poll(w) \/ CheckPass(w) \/ LoadPrimary(w) \/ PromoteFallback(w) \/ FindCandidates(w)
          \/ SkipCandidate(w) \/ RestoreRead(w) \/ CopyRejected(w) \/ Writes(w) \/ Command(w))
    BY <2>3
    DEF Poll, CheckPass, LoadPrimary, PromoteFallback, FindCandidates, SkipCandidate, RestoreRead,
        CopyRejected, Writes, WriteOn, storeVars, Command
  <2>6. ~(\/ StageRead(w) \/ CheckFail(w) \/ Reread(w) \/ SetRead(w) \/ SetWritten(w)
          \/ NoCandidate(w) \/ Restored(w) \/ CopyFails(w))
    BY <2>2, <2>3
    DEF StageRead, CheckFail, Reread, SetRead, SetWritten, NoCandidate, Restored, CopyFails
  <2>7. QED
    BY <2>0, <2>1, <2>2, <2>4, <2>5, <2>6 DEF Next, Operate, Watch
<1>4. Spec => []TypeInv
  BY TypeCorrect, PTL DEF TypeInv
<1>5. Spec => []VettedInv
  BY WatcherVetted
<1>6. QED BY <1>1, <1>2, <1>3, <1>4, <1>5, PTL DEF Spec, RollsBackToLast

----------------------------------------------------------------------------
(* Any number of processes of any kind, any faults: a process writes one file *)
(* at a time, the one its operation is about, and never nothing.              *)
OneWrite(p) ==
    /\ W!Writing(p) =>
         /\ wr[p].text # None
         /\ \/ pc[p] = "snapshot" /\ wr[p].path = DataDir[job[p].cfg]
            \/ pc[p] = "fallback" /\ wr[p].path = Fallback
            \/ pc[p] \in {"restore", "setting"} /\ wr[p].path = Primary
    /\ pc[p] \in {"snapshot", "fallback", "copy"} => job[p].text # None

OneWriteInv == \A p \in Procs : OneWrite(p)

(* Of the processes only p goes on.                                           *)
OnlyMoves(p) == \A q \in Procs \ {p} :
                   /\ pc'[q] = pc[q] /\ job'[q] = job[q]
                   /\ wr'[q].stage = wr[q].stage /\ wr'[q].path = wr[q].path
                   /\ wr'[q].text = wr[q].text

LEMMA OneWriteKept ==
    ASSUME OneWriteInv, NEW p \in Procs, OnlyMoves(p), OneWrite(p)' PROVE OneWriteInv'
  BY DEF OneWriteInv, OneWrite, OnlyMoves, W!Writing

(* A step without a write, to where nothing is held that is still to be       *)
(* written.                                                                   *)
LEMMA NoWriteKept ==
    ASSUME TypeInv, OneWriteInv, NEW p \in Procs, ~W!Writing(p), UNCHANGED wr,
           NEW l, pc' = [pc EXCEPT ![p] = l], l \notin {"snapshot", "fallback", "copy"},
           \A q \in Procs \ {p} : job'[q] = job[q]
    PROVE  OneWriteInv'
<1>1. pc'[p] = l /\ \A q \in Procs \ {p} : pc'[q] = pc[q]
  BY DEF TypeInv, TypeOK
<1>2. OnlyMoves(p)
  BY <1>1 DEF OnlyMoves
<1>3. OneWrite(p)'
  BY <1>1 DEF OneWrite, W!Writing
<1>4. QED BY <1>2, <1>3, OneWriteKept

LEMMA EndKept ==
    ASSUME TypeInv, OneWriteInv, NEW p \in Procs, ~W!Writing(p), UNCHANGED wr,
           Err(p) \/ \E t, source : Succeed(p, t, source)
    PROVE  OneWriteInv'
<1>1. pc' = [pc EXCEPT ![p] = Rest(p)] /\ job' = [job EXCEPT ![p] = NoJob]
  BY DEF Err, Succeed
<1>2. \A q \in Procs \ {p} : job'[q] = job[q]
  BY <1>1 DEF TypeInv, TypeOK
<1>3. Rest(p) \notin {"snapshot", "fallback", "copy"}
  BY DEF Rest
<1>4. QED BY <1>1, <1>2, <1>3, NoWriteKept

(* A step that begins a write.                                                *)
LEMMA BeginKept ==
    ASSUME TypeInv, OneWriteInv, NEW p \in Procs, NEW x \in Dirs \cup {Primary}, NEW t, t # None,
           W!BeginWrite(p, x, t), NEW l, Goto(p, l),
           \A q \in Procs \ {p} : job'[q] = job[q],
           l \in {"snapshot", "fallback"} => job'[p].text = t,
           \/ l = "snapshot" /\ x = DataDir[job'[p].cfg]
           \/ l = "fallback" /\ x = Fallback
           \/ l \in {"restore", "setting"} /\ x = Primary
    PROVE  OneWriteInv'
<1>1. /\ wr'[p] = [stage |-> "open", at |-> "tmp", path |-> x, text |-> t]
      /\ \A q \in Procs \ {p} : wr'[q] = wr[q]
  BY DEF W!BeginWrite, TypeInv, TypeOK, W!WriteType
<1>2. pc'[p] = l /\ \A q \in Procs \ {p} : pc'[q] = pc[q]
  BY DEF Goto, TypeInv, TypeOK
<1>3. OnlyMoves(p)
  BY <1>1, <1>2 DEF OnlyMoves
<1>4. OneWrite(p)'
  BY <1>1, <1>2 DEF OneWrite, W!Writing
<1>5. QED BY <1>3, <1>4, OneWriteKept

LEMMA PromoteKept ==
    ASSUME TypeInv, OneWriteInv, NEW p \in Procs, NEW cfg \in Valid, NEW text, text # None,
           PromoteBegin(p, cfg, text)
    PROVE  OneWriteInv'
<1>1. /\ W!BeginWrite(p, DataDir[cfg], text) /\ Goto(p, "snapshot")
      /\ job' = [job EXCEPT ![p].cfg = cfg, ![p].text = text]
  BY DEF PromoteBegin
<1>2. /\ job'[p].cfg = cfg /\ job'[p].text = text
      /\ \A q \in Procs \ {p} : job'[q] = job[q]
  BY <1>1 DEF TypeInv, TypeOK, JobType
<1>3. DataDir[cfg] \in Dirs
  BY DataDirAssumption
<1>4. QED BY <1>1, <1>2, <1>3, BeginKept

(* A step of a write, its failure included.                                   *)
LEMMA WritesKept ==
    ASSUME TypeInv, OneWriteInv, NEW p \in Procs, Writes(p) PROVE OneWriteInv'
<1> USE DEF TypeInv, TypeOK, W!WriteType
<1>1. UNCHANGED <<pc, job>>
  BY DEF Writes, WriteOn, storeVars
<1>2. /\ W!Writing(p)
      /\ \A q \in Procs : /\ wr'[q].path = wr[q].path /\ wr'[q].text = wr[q].text
                          /\ W!Writing(q)' => W!Writing(q)
  <2>1. CASE W!RenameMissing(p) \/ W!CutShort(p)
    BY <2>1 DEF W!RenameMissing, W!CutShort, W!FailWrite, W!Writing
  <2>2. CASE W!OpenTmp(p)
    BY <2>2 DEF W!OpenTmp, W!Writing
  <2>3. CASE W!FillTmp(p)
    <3>1. wr[p].stage = "filling" /\ wr' = [wr EXCEPT ![p].stage = "rename"]
      BY <2>3 DEF W!FillTmp
    <3>2. QED BY <3>1 DEF W!Writing
  <2>4. CASE W!RenameTmp(p)
    <3>1. /\ wr[p].stage = "rename" /\ wr'[p].stage = "done"
          /\ wr'[p].path = wr[p].path /\ wr'[p].text = wr[p].text
          /\ \A q \in Procs \ {p} : /\ wr'[q].stage = wr[q].stage /\ wr'[q].path = wr[q].path
                                    /\ wr'[q].text = wr[q].text
      BY <2>4 DEF W!RenameTmp
    <3>2. QED BY <3>1 DEF W!Writing
  <2>5. QED BY <2>1, <2>2, <2>3, <2>4 DEF Writes, WriteOn, W!WriteStep
<1>3. QED BY <1>1, <1>2 DEF OneWriteInv, OneWrite

LEMMA OperateKept ==
    ASSUME TypeInv, OneWriteInv, NEW p \in Procs, Operate(p) PROVE OneWriteInv'
<1> USE DEF OneWriteInv
<1>1. pc[p] \notin {"snapshot", "fallback", "restore", "setting"} => ~W!Writing(p)
  BY DEF OneWrite
<1>2. \A j : \A q \in Procs \ {p} : [job EXCEPT ![p] = j][q] = job[q]
  BY DEF TypeInv, TypeOK
<1>3. CASE Poll(p)
  BY <1>1, <1>3, NoWriteKept DEF Poll, Goto
<1>4. CASE StageRead(p)
  <2>1. ~W!Writing(p) /\ UNCHANGED wr
    BY <1>1, <1>4 DEF StageRead
  <2>2. CASE Err(p)
    BY <2>1, <2>2, EndKept
  <2>3. CASE job' = [job EXCEPT ![p].text = file[Primary]] /\ Goto(p, "check")
    BY <1>2, <2>1, <2>3, NoWriteKept DEF Goto
  <2>4. QED BY <1>4, <2>2, <2>3 DEF StageRead
<1>5. CASE CheckPass(p)
  <2>1. job[p].text \in Valid /\ job[p].text # None
    BY <1>5, TextsAssumption DEF CheckPass, TypeInv, OnlyValid
  <2>2. QED BY <1>5, <2>1, PromoteKept DEF CheckPass
<1>6. CASE CheckFail(p)
  BY <1>1, <1>6, NoWriteKept, EndKept DEF CheckFail, Goto
<1>7. CASE LoadPrimary(p)
  <2>1. ~W!Writing(p) /\ UNCHANGED wr /\ \A q \in Procs \ {p} : job'[q] = job[q]
    BY <1>1, <1>2, <1>7 DEF LoadPrimary
  <2>2. \E l \in {"reread", "lkgDirs"} : pc' = [pc EXCEPT ![p] = l]
    BY <1>7 DEF LoadPrimary, Goto
  <2>3. QED BY <2>1, <2>2, NoWriteKept
<1>8. CASE Reread(p)
  <2>1. job[p].cfg \in Valid
    BY <1>8 DEF Reread, TypeInv, OnlyValid
  <2>2. QED BY <1>1, <1>8, <2>1, PromoteKept, EndKept DEF Reread
<1>9. CASE SetRead(p)
  <2>1. ASSUME NEW new \in Valid, W!BeginWrite(p, Primary, new), Goto(p, "setting"), job' = job
        PROVE  OneWriteInv'
    BY <2>1, TextsAssumption, BeginKept
  <2>2. CASE Err(p) /\ UNCHANGED wr
    BY <1>1, <1>9, <2>2, EndKept DEF SetRead
  <2>3. QED BY <1>9, <2>1, <2>2 DEF SetRead
<1>10. CASE SetWritten(p)
  BY <1>10, NoWriteKept, EndKept DEF SetWritten, Goto
<1>11. CASE PromoteFallback(p)
  <2>1. job[p].text # None
    BY <1>11 DEF PromoteFallback, OneWrite
  <2>2. QED BY <1>11, <2>1, BeginKept, PathsAssumption DEF PromoteFallback
<1>12. CASE Promoted(p)
  BY <1>12, EndKept DEF Promoted
<1>13. CASE FindCandidates(p)
  <2>1. ~W!Writing(p) /\ UNCHANGED wr /\ \A q \in Procs \ {p} : job'[q] = job[q]
    BY <1>1, <1>2, <1>13 DEF FindCandidates
  <2>2. \E l \in {"restoreRead", "lkgRead"} : pc' = [pc EXCEPT ![p] = l]
    BY <1>13 DEF FindCandidates, Goto
  <2>3. QED BY <2>1, <2>2, NoWriteKept
<1>14. CASE SkipCandidate(p)
  <2>1. pc' = [pc EXCEPT ![p] = pc[p]]
    BY <1>14 DEF SkipCandidate, TypeInv, TypeOK
  <2>2. pc[p] \notin {"snapshot", "fallback", "copy"} /\ ~W!Writing(p) /\ UNCHANGED wr
    BY <1>1, <1>14 DEF SkipCandidate
  <2>3. \A q \in Procs \ {p} : job'[q] = job[q]
    BY <1>14 DEF SkipCandidate, TypeInv, TypeOK
  <2>4. QED BY <2>1, <2>2, <2>3, NoWriteKept
<1>15. CASE NoCandidate(p) \/ LoadLastKnownGood(p)
  BY <1>1, <1>15, EndKept DEF NoCandidate, LoadLastKnownGood
<1>16. CASE RestoreRead(p)
  <2>1. /\ file[Head(job[p].dirs)] # None /\ UNCHANGED wr /\ ~W!Writing(p)
        /\ job' = [job EXCEPT ![p].text = file[Head(job[p].dirs)]]
        /\ pc' = [pc EXCEPT ![p] = "copy"]
    BY <1>1, <1>16 DEF RestoreRead, ReadableCandidate, Goto
  <2>2. /\ job'[p].text # None /\ pc'[p] = "copy"
        /\ \A q \in Procs \ {p} : job'[q] = job[q] /\ pc'[q] = pc[q]
    BY <2>1 DEF TypeInv, TypeOK, JobType
  <2>3. OnlyMoves(p) /\ OneWrite(p)'
    BY <2>1, <2>2 DEF OnlyMoves, OneWrite, W!Writing
  <2>4. QED BY <2>3, OneWriteKept
<1>17. CASE CopyRejected(p)
  <2>1. job[p].text # None
    BY <1>17 DEF CopyRejected, OneWrite
  <2>2. W!BeginWrite(p, Primary, job[p].text) /\ Goto(p, "restore") /\ job' = job
    BY <1>17 DEF CopyRejected
  <2>3. QED BY <2>1, <2>2, BeginKept
<1>18. CASE Restored(p)
  BY <1>18, NoWriteKept, EndKept DEF Restored, Goto
<1>19. QED BY <1>3, <1>4, <1>5, <1>6, <1>7, <1>8, <1>9, <1>10, <1>11, <1>12, <1>13, <1>14, <1>15,
              <1>16, <1>17, <1>18 DEF Operate, Watch

LEMMA StepOneWrite == TypeInv /\ OneWriteInv /\ [Next]_vars => OneWriteInv'
<1> SUFFICES ASSUME TypeInv, OneWriteInv, [Next]_vars PROVE OneWriteInv'
  OBVIOUS
<1>1. CASE UNCHANGED <<wr, pc, job>>
  BY <1>1 DEF OneWriteInv, OneWrite, W!Writing
<1>2. ASSUME NEW p \in Procs, Crash(p) PROVE OneWriteInv'
  <2>1. /\ pc'[p] = Rest(p) /\ \A q \in Procs \ {p} : pc'[q] = pc[q] /\ job'[q] = job[q]
        /\ ~W!Writing(p)' /\ \A q \in Procs \ {p} : wr'[q] = wr[q]
    BY <1>2 DEF Crash, TypeInv, TypeOK, W!WriteType, W!Writing
  <2>2. OnlyMoves(p) /\ OneWrite(p)'
    BY <2>1 DEF OnlyMoves, OneWrite, Rest
  <2>3. QED BY <2>2, OneWriteKept
<1>3. ASSUME NEW p \in Procs, CopyFails(p) PROVE OneWriteInv'
  <2>1. ~W!Writing(p)
    BY <1>3 DEF CopyFails, OneWriteInv, OneWrite
  <2>2. QED BY <1>3, <2>1, EndKept DEF CopyFails
<1>4. ASSUME NEW p \in Procs, Command(p) PROVE OneWriteInv'
  <2>1. /\ Edit[p][file[Primary]] # None /\ Goto(p, "setting") /\ job' = job
        /\ W!BeginWrite(p, Primary, Edit[p][file[Primary]])
    BY <1>4, TextsAssumption DEF Command
  <2>2. QED BY <2>1, BeginKept
<1>5. QED BY <1>1, <1>2, <1>3, <1>4, OperateKept, WritesKept DEF Next, Save, vars

(* promote and atomic_write: a snapshot, once there, never disappears, and    *)
(* none changes but by the promotion of a valid config to its data_dir or to  *)
(* the fallback directory.                                                    *)
OnlyPromoted ==
    \A d \in Dirs :
      /\ file[d] # None => file'[d] # None
      /\ file'[d] # file[d] =>
           \E p \in Procs : /\ pc[p] \in {"snapshot", "fallback"} /\ job[p].cfg \in Valid
                            /\ wr[p].path = d /\ d \in {DataDir[job[p].cfg], Fallback}

LEMMA WritesPromoted ==
    ASSUME TypeInv, OneWriteInv, NEW p \in Procs, Writes(p) PROVE OnlyPromoted
<1> USE DEF TypeInv, TypeOK, W!WriteType
<1>1. \/ file' = file
      \/ \E c : c # None /\ file' = [file EXCEPT ![wr[p].path] = c] /\ W!Writing(p)
  <2>1. CASE W!OpenTmp(p) \/ W!RenameMissing(p) \/ W!CutShort(p)
    BY <2>1 DEF W!OpenTmp, W!RenameMissing, W!CutShort, W!FailWrite
  <2>2. CASE W!RenameTmp(p)
    BY <2>2 DEF W!RenameTmp, W!Writing
  <2>3. CASE W!FillTmp(p)
    <3>1. W!Writing(p) /\ wr[p].text # None
      BY <2>3 DEF W!FillTmp, W!Writing, OneWriteInv, OneWrite
    <3>2. CASE file' = file
      BY <3>2
    <3>3. CASE \E c \in W!Overlay(file[wr[p].path], wr[p].text) :
                  file' = [file EXCEPT ![wr[p].path] = c]
      <4>1. PICK c \in W!Overlay(file[wr[p].path], wr[p].text) :
                   file' = [file EXCEPT ![wr[p].path] = c]
        BY <3>3
      <4>2. c \in {file[wr[p].path], wr[p].text, Torn}
        BY DEF W!Overlay
      <4>3. CASE c = file[wr[p].path]
        BY <4>1, <4>3, <3>2
      <4>4. CASE c \in {wr[p].text, Torn}
        BY <3>1, <4>1, <4>4, TextsAssumption
      <4>5. QED BY <4>2, <4>3, <4>4
    <3>4. QED BY <2>3, <3>2, <3>3 DEF W!FillTmp
  <2>4. QED BY <2>1, <2>2, <2>3 DEF Writes, WriteOn, W!WriteStep
<1>2. CASE file' = file
  BY <1>2 DEF OnlyPromoted
<1>3. ASSUME NEW c, c # None, file' = [file EXCEPT ![wr[p].path] = c], W!Writing(p)
      PROVE  OnlyPromoted
  <2>1. ASSUME NEW d \in Dirs PROVE file'[d] = IF d = wr[p].path THEN c ELSE file[d]
    BY <1>3
  <2>2. ASSUME NEW d \in Dirs, wr[p].path = d
        PROVE  /\ pc[p] \in {"snapshot", "fallback"} /\ job[p].cfg \in Valid
               /\ d \in {DataDir[job[p].cfg], Fallback}
    BY <1>3, <2>2, PathsAssumption DEF OneWriteInv, OneWrite, OnlyValid
  <2>3. QED BY <1>3, <2>1, <2>2 DEF OnlyPromoted
<1>4. QED BY <1>1, <1>2, <1>3

(* RELIABILITY.md, the snapshots: OnlyPromoted, for processes of every kind   *)
(* at once, whatever people save and whatever fails or dies.                  *)
THEOREM SnapshotsStay == Spec => [][OnlyPromoted]_vars
<1>1. Init => OneWriteInv
  BY DEF Init, W!WriteInit, W!Writing, Start, OneWriteInv, OneWrite
<1>2. TypeInv /\ OneWriteInv /\ [Next]_vars => OnlyPromoted
  <2> SUFFICES ASSUME TypeInv, OneWriteInv, [Next]_vars PROVE OnlyPromoted
    OBVIOUS
  <2>1. CASE UNCHANGED file
    BY <2>1 DEF OnlyPromoted
  <2>2. ASSUME NEW t \in UserTexts, Save(t) PROVE OnlyPromoted
    <3>1. \A d \in Dirs : file'[d] = file[d]
      BY <2>2, PathsAssumption DEF Save, TypeInv, TypeOK, W!WriteType
    <3>2. QED BY <3>1 DEF OnlyPromoted
  <2>3. ASSUME NEW p \in Procs, Operate(p) \/ CopyFails(p) \/ Command(p) \/ Crash(p)
        PROVE  UNCHANGED file
    BY <2>3
    DEF Command, Operate, Watch, Poll, StageRead, CheckPass, CheckFail, LoadPrimary, Reread, SetRead,
        SetWritten, PromoteFallback, Promoted, FindCandidates, SkipCandidate, NoCandidate,
        LoadLastKnownGood, RestoreRead, CopyRejected, Restored, CopyFails, Crash
  <2>4. QED BY <2>1, <2>2, <2>3, WritesPromoted DEF Next, vars
<1>3. Spec => []TypeInv
  BY TypeCorrect, PTL DEF TypeInv
<1>4. QED BY <1>1, <1>2, <1>3, StepOneWrite, PTL DEF Spec

----------------------------------------------------------------------------
(* How long an operation can take: the steps of its own that are still to     *)
(* come at most. The rank of a place is what can follow from it, writes of    *)
(* three steps and two candidate directories included.                        *)
Rank(l) == CASE l \in {"ready", "ended"} -> 0
             [] l \in {"fallback", "lkgRead"} -> 1
             [] l = "lkgDirs" -> 4
             [] l \in {"snapshot", "restore"} -> 5
             [] l \in {"reread", "copy"} -> 9
             [] l \in {"load", "restoreRead"} -> 10
             [] l = "setting" -> 11
             [] l = "restoreDirs" -> 13
             [] l = "check" -> 14
             [] l \in {"stage", "set"} -> 15
WriteSteps(p) == CASE wr[p].stage = "open" -> 3
                   [] wr[p].stage = "filling" -> 2
                   [] wr[p].stage = "rename" -> 1
                   [] OTHER -> 0
DirSteps(p) == IF pc[p] \in {"restoreRead", "lkgRead"} THEN Len(job[p].dirs) ELSE 0
StepsLeft(p) == Rank(pc[p]) + DirSteps(p) + WriteSteps(p)

(* No operation waits for another process, and none can be made longer by one:*)
(* each step of its own brings its end nearer, and no other step defers it.   *)
CountsDown ==
    \A p \in Procs : pc[p] # "ready" =>
       IF Operate(p) \/ Writes(p) THEN StepsLeft(p)' < StepsLeft(p)
                                  ELSE StepsLeft(p)' <= StepsLeft(p)

FewDirs == \A p \in Procs : DirSteps(p) \in 0..2
CountInv == TypeInv /\ OneWriteInv /\ FewDirs

LEMMA Ranks ==
  /\ Rank("ready") = 0 /\ Rank("ended") = 0 /\ Rank("fallback") = 1 /\ Rank("lkgRead") = 1
  /\ Rank("lkgDirs") = 4 /\ Rank("snapshot") = 5 /\ Rank("restore") = 5
  /\ Rank("reread") = 9 /\ Rank("copy") = 9 /\ Rank("load") = 10 /\ Rank("restoreRead") = 10
  /\ Rank("setting") = 11 /\ Rank("restoreDirs") = 13 /\ Rank("check") = 14
  /\ Rank("stage") = 15 /\ Rank("set") = 15
  /\ \A l \in PC : Rank(l) \in 0..15 /\ (l \notin {"ready", "ended"} => Rank(l) >= 1)
BY DEF Rank, PC

LEMMA WriteStepsAre ==
  ASSUME NEW p
  PROVE  /\ WriteSteps(p) \in 0..3 /\ (~W!Writing(p) => WriteSteps(p) = 0)
         /\ WriteSteps(p)' \in 0..3 /\ (~W!Writing(p)' => WriteSteps(p)' = 0)
         /\ wr'[p].stage = wr[p].stage => WriteSteps(p)' = WriteSteps(p)
BY DEF WriteSteps, W!Writing

LEMMA CountType == ASSUME CountInv, NEW p \in Procs PROVE StepsLeft(p) \in 0..15
<1>1. /\ pc[p] \in PC /\ Rank(pc[p]) \in 0..15 /\ DirSteps(p) \in 0..2 /\ WriteSteps(p) \in 0..3
      /\ ~W!Writing(p) => WriteSteps(p) = 0
  BY Ranks, WriteStepsAre DEF CountInv, TypeInv, TypeOK, FewDirs
<1>2. W!Writing(p) => pc[p] \in {"snapshot", "fallback", "restore", "setting"}
  BY DEF CountInv, OneWriteInv, OneWrite
<1>3. CASE W!Writing(p)
  <2>1. Rank(pc[p]) \in 0..11 /\ DirSteps(p) = 0
    BY <1>2, <1>3, Ranks DEF DirSteps
  <2>2. QED BY <1>1, <2>1 DEF StepsLeft
<1>4. CASE ~W!Writing(p) /\ pc[p] \in {"restoreRead", "lkgRead"}
  <2>1. Rank(pc[p]) \in 0..10
    BY <1>4, Ranks
  <2>2. QED BY <1>1, <1>4, <2>1 DEF StepsLeft
<1>5. CASE ~W!Writing(p) /\ pc[p] \notin {"restoreRead", "lkgRead"}
  BY <1>1, <1>5 DEF StepsLeft, DirSteps
<1>6. QED BY <1>3, <1>4, <1>5

(* The kinds of steps: to a place without directories, without a write or with*)
(* one begun; the end of an operation; a step of a write.                     *)
LEMMA GoesDown ==
  ASSUME CountInv, NEW p \in Procs, ~W!Writing(p), NEW l \in PC,
         pc' = [pc EXCEPT ![p] = l], l \notin {"restoreRead", "lkgRead"},
         \/ UNCHANGED wr /\ Rank(l) < Rank(pc[p])
         \/ Rank(l) + 3 < Rank(pc[p])
  PROVE  StepsLeft(p)' < StepsLeft(p) /\ DirSteps(p)' \in 0..2
<1>1. pc[p] \in PC /\ pc'[p] = l /\ DirSteps(p) \in 0..2
  BY DEF CountInv, FewDirs, TypeInv, TypeOK
<1>2. /\ Rank(l) \in Nat /\ Rank(pc[p]) \in Nat /\ WriteSteps(p) = 0
      /\ WriteSteps(p)' \in 0..3 /\ (UNCHANGED wr => WriteSteps(p)' = 0)
  BY <1>1, Ranks, WriteStepsAre DEF W!Writing
<1>3. DirSteps(p)' = 0
  BY <1>1 DEF DirSteps
<1>4. StepsLeft(p)' = Rank(l) + WriteSteps(p)'
  <2>1. Rank(pc[p])' = Rank(pc'[p])
    BY DEF Rank
  <2>2. Rank(pc[p])' = Rank(l)
    BY <1>1, <2>1
  <2>3. StepsLeft(p)' = Rank(pc[p])' + DirSteps(p)' + WriteSteps(p)'
    BY DEF StepsLeft
  <2>4. QED BY <1>2, <1>3, <2>2, <2>3
<1>5. StepsLeft(p) = Rank(pc[p]) + DirSteps(p)
  BY <1>1, <1>2 DEF StepsLeft
<1>6. QED BY <1>1, <1>2, <1>3, <1>4, <1>5

LEMMA EndsDown ==
  ASSUME CountInv, NEW p \in Procs, ~W!Writing(p), UNCHANGED wr, pc[p] \notin {"ready", "ended"},
         Err(p) \/ \E t, source : Succeed(p, t, source)
  PROVE  StepsLeft(p)' < StepsLeft(p) /\ DirSteps(p)' \in 0..2
<1>1. pc' = [pc EXCEPT ![p] = Rest(p)] /\ Rest(p) \in {"ready", "ended"}
  BY DEF Err, Succeed, Rest
<1>2. Rank(Rest(p)) < Rank(pc[p]) /\ Rest(p) \in PC
  <2>1. Rank(Rest(p)) = 0 /\ Rest(p) \in PC
    BY <1>1, Ranks DEF PC
  <2>2. Rank(pc[p]) \in 0..15 /\ Rank(pc[p]) >= 1
    BY Ranks DEF CountInv, TypeInv, TypeOK
  <2>3. QED BY <2>1, <2>2
<1>3. QED BY <1>1, <1>2, GoesDown

LEMMA WritesDown ==
  ASSUME CountInv, NEW p \in Procs, Writes(p)
  PROVE  StepsLeft(p)' < StepsLeft(p) /\ DirSteps(p)' \in 0..2
<1> USE DEF CountInv, TypeInv, TypeOK, W!WriteType
<1>1. UNCHANGED <<pc, job>>
  BY DEF Writes, WriteOn, storeVars
<1>2. Rank(pc[p]) \in Nat /\ DirSteps(p) \in 0..2
  BY Ranks DEF FewDirs
<1>3. DirSteps(p)' = DirSteps(p) /\ Rank(pc[p])' = Rank(pc[p])
  BY <1>1 DEF DirSteps, Rank
<1>4. WriteSteps(p)' < WriteSteps(p)
  <2>1. CASE W!RenameMissing(p) \/ W!CutShort(p)
    BY <2>1 DEF W!RenameMissing, W!CutShort, W!FailWrite, W!Writing, WriteSteps
  <2>2. CASE W!OpenTmp(p)
    BY <2>2 DEF W!OpenTmp, WriteSteps
  <2>3. CASE W!FillTmp(p)
    <3>1. wr[p].stage = "filling" /\ wr' = [wr EXCEPT ![p].stage = "rename"]
      BY <2>3 DEF W!FillTmp
    <3>2. QED BY <3>1 DEF WriteSteps
  <2>4. CASE W!RenameTmp(p)
    <3>1. wr[p].stage = "rename" /\ wr'[p].stage = "done"
      BY <2>4 DEF W!RenameTmp
    <3>2. QED BY <3>1 DEF WriteSteps
  <2>5. QED BY <2>1, <2>2, <2>3, <2>4 DEF Writes, WriteOn, W!WriteStep
<1>5. QED BY <1>2, <1>3, <1>4, WriteStepsAre DEF StepsLeft

LEMMA OperateDown ==
  ASSUME CountInv, NEW p \in Procs, Operate(p)
  PROVE  (pc[p] # "ready" => StepsLeft(p)' < StepsLeft(p)) /\ DirSteps(p)' \in 0..2
<1> USE DEF Goto
<1>1. /\ pc[p] \notin {"snapshot", "fallback", "restore", "setting"} => ~W!Writing(p)
      /\ PC = {"ready", "stage", "check", "snapshot", "fallback", "restoreDirs", "restoreRead",
               "copy", "restore", "lkgDirs", "lkgRead", "set", "setting", "load", "reread", "ended"}
  BY DEF CountInv, OneWriteInv, OneWrite, PC
<1>2. CASE Poll(p) \/ (LoadPrimary(p) /\ pc[p] = "ready")
  <2>1. pc[p] = "ready" /\ \E l \in {"stage", "reread", "lkgDirs"} : pc' = [pc EXCEPT ![p] = l]
    BY <1>2 DEF Poll, LoadPrimary
  <2>2. pc'[p] \in {"stage", "reread", "lkgDirs"}
    BY <2>1 DEF CountInv, TypeInv, TypeOK
  <2>3. QED BY <2>1, <2>2 DEF DirSteps
<1>3. CASE \/ StageRead(p) \/ CheckFail(p) \/ NoCandidate(p) \/ LoadLastKnownGood(p)
           \/ RestoreRead(p) \/ (Reread(p) /\ file[Primary] = None)
           \/ (SetRead(p) /\ Err(p) /\ UNCHANGED wr) \/ (LoadPrimary(p) /\ pc[p] # "ready")
  <2>1. /\ ~W!Writing(p) /\ UNCHANGED wr
        /\ pc[p] \in {"stage", "check", "reread", "set", "restoreRead", "lkgRead", "load"}
    BY <1>1, <1>3
    DEF StageRead, CheckFail, Reread, SetRead, NoCandidate, LoadLastKnownGood, LoadPrimary,
        RestoreRead, Err
  <2>2. \/ Err(p) \/ \E t, source : Succeed(p, t, source)
        \/ \E l \in {"check", "lkgDirs", "restoreDirs", "reread", "copy"} :
              pc' = [pc EXCEPT ![p] = l] /\ Rank(l) < Rank(pc[p])
    <3>1. CASE StageRead(p)
      <4>1. pc[p] = "stage" /\ (Err(p) \/ pc' = [pc EXCEPT ![p] = "check"])
        BY <3>1 DEF StageRead
      <4>2. QED BY <4>1, Ranks
    <3>2. CASE CheckFail(p)
      <4>1. \/ Err(p) \/ \E t, source : Succeed(p, t, source)
            \/ pc[p] = "check" /\ pc' = [pc EXCEPT ![p] = "restoreDirs"]
        BY <3>2 DEF CheckFail
      <4>2. QED BY <4>1, Ranks
    <3>3. CASE Reread(p) /\ file[Primary] = None
      BY <3>3 DEF Reread
    <3>4. CASE SetRead(p) /\ Err(p) /\ UNCHANGED wr
      BY <3>4
    <3>5. CASE NoCandidate(p) \/ LoadLastKnownGood(p)
      BY <3>5 DEF NoCandidate, LoadLastKnownGood
    <3>6. CASE LoadPrimary(p) /\ pc[p] # "ready"
      <4>1. pc[p] = "load" /\ \E l \in {"reread", "lkgDirs"} : pc' = [pc EXCEPT ![p] = l]
        BY <3>6 DEF LoadPrimary
      <4>2. Rank("reread") < Rank("load") /\ Rank("lkgDirs") < Rank("load")
        BY Ranks
      <4>3. QED BY <4>1, <4>2
    <3>7. CASE RestoreRead(p)
      <4>1. pc[p] = "restoreRead" /\ (Err(p) \/ pc' = [pc EXCEPT ![p] = "copy"])
        BY <3>7 DEF RestoreRead
      <4>2. QED BY <4>1, Ranks
    <3>8. QED BY <1>3, <3>1, <3>2, <3>3, <3>4, <3>5, <3>6, <3>7
  <2>3. QED BY <1>1, <2>1, <2>2, GoesDown, EndsDown
<1>4. CASE CheckPass(p) \/ (Reread(p) /\ file[Primary] # None)
  <2>1. /\ ~W!Writing(p) /\ pc[p] \in {"check", "reread"} /\ pc' = [pc EXCEPT ![p] = "snapshot"]
    BY <1>1, <1>4 DEF CheckPass, Reread, PromoteBegin
  <2>2. Rank("snapshot") + 3 < Rank(pc[p])
    BY <2>1, Ranks
  <2>3. QED BY <1>1, <2>1, <2>2, GoesDown
<1>5. CASE (SetRead(p) /\ Goto(p, "setting")) \/ CopyRejected(p) \/ PromoteFallback(p)
  <2>1. /\ ~W!Writing(p)
        /\ \/ pc[p] = "set" /\ pc' = [pc EXCEPT ![p] = "setting"]
           \/ pc[p] = "copy" /\ pc' = [pc EXCEPT ![p] = "restore"]
           \/ pc[p] = "snapshot" /\ pc' = [pc EXCEPT ![p] = "fallback"]
    BY <1>1, <1>5 DEF SetRead, CopyRejected, PromoteFallback
  <2>2. /\ Rank("setting") + 3 < Rank("set") /\ Rank("restore") + 3 < Rank("copy")
        /\ Rank("fallback") + 3 < Rank("snapshot")
    BY Ranks
  <2>3. QED BY <1>1, <2>1, <2>2, GoesDown
<1>6. CASE SetWritten(p) \/ Restored(p) \/ Promoted(p)
  <2>1. /\ ~W!Writing(p) /\ UNCHANGED wr /\ pc[p] \in {"setting", "restore", "snapshot", "fallback"}
        /\ \/ Err(p) \/ \E t, source : Succeed(p, t, source)
           \/ pc[p] = "setting" /\ \E l \in {"load", "ready"} : pc' = [pc EXCEPT ![p] = l]
           \/ pc[p] = "restore" /\ pc' = [pc EXCEPT ![p] = "lkgDirs"]
    BY <1>6 DEF SetWritten, Restored, Promoted
  <2>2. /\ Rank("load") < Rank("setting") /\ Rank("ready") < Rank("setting")
        /\ Rank("lkgDirs") < Rank("restore")
    BY Ranks
  <2>3. QED BY <1>1, <2>1, <2>2, GoesDown, EndsDown
<1>7. CASE FindCandidates(p)
  <2>1. /\ ~W!Writing(p) /\ UNCHANGED wr /\ job'[p].dirs = CandidateDirs
        /\ \/ pc[p] = "restoreDirs" /\ pc'[p] = "restoreRead"
           \/ pc[p] = "lkgDirs" /\ pc'[p] = "lkgRead"
    BY <1>1, <1>7 DEF FindCandidates, CountInv, TypeInv, TypeOK, JobType
  <2>2. Len(CandidateDirs) \in 1..2
    BY DEF CandidateDirs
  <2>3. DirSteps(p)' \in 1..2 /\ DirSteps(p) = 0 /\ WriteSteps(p)' = 0 /\ WriteSteps(p) = 0
    BY <2>1, <2>2, WriteStepsAre DEF DirSteps, W!Writing
  <2>4. Rank(pc[p])' + 2 < Rank(pc[p]) /\ Rank(pc[p])' \in Nat /\ Rank(pc[p]) \in Nat
    <3>1. \/ Rank(pc[p]) = 13 /\ Rank(pc'[p]) = 10
          \/ Rank(pc[p]) = 4 /\ Rank(pc'[p]) = 1
      BY <2>1, Ranks
    <3>2. Rank(pc[p])' = Rank(pc'[p])
      BY DEF Rank
    <3>3. QED BY <3>1, <3>2
  <2>5. QED BY <2>3, <2>4 DEF StepsLeft
<1>8. CASE SkipCandidate(p)
  <2>1. /\ job[p].dirs \in Seq(Dirs) /\ job[p].dirs # <<>> /\ job'[p].dirs = Tail(job[p].dirs)
        /\ UNCHANGED <<wr, pc>> /\ pc[p] \in {"restoreRead", "lkgRead"}
    BY <1>8 DEF SkipCandidate, CountInv, TypeInv, TypeOK, JobType
  <2>2. Len(job'[p].dirs) = Len(job[p].dirs) - 1 /\ Len(job[p].dirs) \in Nat
    BY <2>1
  <2>3. DirSteps(p)' = DirSteps(p) - 1 /\ DirSteps(p) \in 1..2
    BY <2>1, <2>2, Ranks DEF DirSteps, CountInv, FewDirs
  <2>4. WriteSteps(p)' = WriteSteps(p) /\ Rank(pc[p])' = Rank(pc[p]) /\ Rank(pc[p]) \in Nat
    BY <2>1, WriteStepsAre, Ranks DEF Rank
  <2>5. WriteSteps(p) \in 0..3
    BY WriteStepsAre
  <2>6. /\ StepsLeft(p) = Rank(pc[p]) + DirSteps(p) + WriteSteps(p)
        /\ StepsLeft(p)' = Rank(pc[p])' + DirSteps(p)' + WriteSteps(p)'
    BY DEF StepsLeft
  <2>7. QED BY <2>3, <2>4, <2>5, <2>6
<1>9. SetRead(p) => Goto(p, "setting") \/ (Err(p) /\ UNCHANGED wr)
  BY DEF SetRead
<1>10. CASE Watch(p) \/ LoadPrimary(p)
  BY <1>2, <1>3, <1>4, <1>10 DEF Watch
<1>11. CASE Reread(p) \/ SetRead(p)
  BY <1>3, <1>4, <1>5, <1>9, <1>11
<1>12. CASE NoCandidate(p) \/ LoadLastKnownGood(p) \/ RestoreRead(p)
  BY <1>3, <1>12
<1>13. QED BY <1>5, <1>6, <1>7, <1>8, <1>10, <1>11, <1>12 DEF Operate

(* A step of one process leaves the place and the write of the others.        *)
LEMMA OnlyOneMoves ==
  ASSUME TypeInv, NEW p \in Procs,
         Operate(p) \/ CopyFails(p) \/ Command(p) \/ Writes(p) \/ Crash(p)
  PROVE  OnlyMoves(p)
<1> USE DEF TypeInv, TypeOK, W!WriteType
<1>1. ASSUME NEW q \in Procs \ {p} PROVE pc'[q] = pc[q] /\ job'[q] = job[q]
  <2>1. CASE Writes(p)
    BY <2>1 DEF Writes, WriteOn, storeVars
  <2>2. CASE Crash(p) \/ CopyFails(p) \/ Command(p)
    BY <2>2 DEF Crash, CopyFails, Command, Goto, Err
  <2>3. CASE Operate(p)
    <3>1. ASSUME Err(p) \/ \E t, source : Succeed(p, t, source) PROVE pc'[q] = pc[q] /\ job'[q] = job[q]
      BY <3>1 DEF Err, Succeed
    <3>2. CASE Watch(p)
      BY <3>1, <3>2 DEF Watch, Poll, StageRead, CheckPass, CheckFail, PromoteBegin, Goto
    <3>3. CASE LoadPrimary(p) \/ Reread(p) \/ SetRead(p) \/ SetWritten(p)
      BY <3>1, <3>3 DEF LoadPrimary, Reread, SetRead, SetWritten, PromoteBegin, Goto
    <3>4. CASE PromoteFallback(p) \/ Promoted(p) \/ FindCandidates(p) \/ SkipCandidate(p)
      BY <3>1, <3>4 DEF PromoteFallback, Promoted, FindCandidates, SkipCandidate, Goto
    <3>5. CASE NoCandidate(p) \/ LoadLastKnownGood(p) \/ RestoreRead(p) \/ CopyRejected(p) \/ Restored(p)
      BY <3>1, <3>5 DEF NoCandidate, LoadLastKnownGood, RestoreRead, CopyRejected, Restored, Goto
    <3>6. QED BY <2>3, <3>2, <3>3, <3>4, <3>5 DEF Operate
  <2>4. QED BY <2>1, <2>2, <2>3
<1>2. ASSUME NEW q \in Procs \ {p}
      PROVE  wr'[q].stage = wr[q].stage /\ wr'[q].path = wr[q].path /\ wr'[q].text = wr[q].text
  <2>1. CASE Writes(p)
    <3>1. CASE W!RenameTmp(p)
      BY <3>1 DEF W!RenameTmp
    <3>2. CASE W!FillTmp(p)
      <4>1. wr' = [wr EXCEPT ![p].stage = "rename"]
        BY <3>2 DEF W!FillTmp
      <4>2. QED BY <4>1
    <3>3. CASE W!OpenTmp(p) \/ W!RenameMissing(p) \/ W!CutShort(p)
      BY <3>3 DEF W!OpenTmp, W!RenameMissing, W!CutShort, W!FailWrite
    <3>4. QED BY <2>1, <3>1, <3>2, <3>3 DEF Writes, WriteOn, W!WriteStep
  <2>2. CASE Crash(p) \/ CopyFails(p) \/ Command(p)
    BY <2>2 DEF Crash, CopyFails, Command, W!BeginWrite
  <2>3. CASE Operate(p)
    <3>1. UNCHANGED wr \/ \E x, t : W!BeginWrite(p, x, t)
      BY <2>3
      DEF Operate, Watch, Poll, StageRead, CheckPass, CheckFail, LoadPrimary, Reread, SetRead,
          SetWritten, PromoteFallback, Promoted, FindCandidates, SkipCandidate, NoCandidate,
          LoadLastKnownGood, RestoreRead, CopyRejected, Restored, PromoteBegin
    <3>2. QED BY <3>1 DEF W!BeginWrite
  <2>4. QED BY <2>1, <2>2, <2>3
<1>3. QED BY <1>1, <1>2 DEF OnlyMoves

LEMMA Stays ==
  ASSUME CountInv, NEW q \in Procs, pc'[q] = pc[q], job'[q] = job[q], wr'[q].stage = wr[q].stage
  PROVE  StepsLeft(q)' <= StepsLeft(q) /\ DirSteps(q)' \in 0..2
<1>1. StepsLeft(q)' = StepsLeft(q) /\ DirSteps(q)' = DirSteps(q)
  BY DEF StepsLeft, DirSteps, WriteSteps, Rank
<1>2. StepsLeft(q) \in Nat /\ DirSteps(q) \in 0..2
  BY CountType DEF CountInv, FewDirs
<1>3. QED BY <1>1, <1>2

LEMMA StepDown == ASSUME CountInv, [Next]_vars PROVE CountsDown /\ FewDirs'
<1>1. CASE UNCHANGED <<wr, pc, job>>
  <2>1. ASSUME NEW q \in Procs PROVE ~(Operate(q) /\ pc[q] # "ready") /\ ~Writes(q)
    <3>1. StepsLeft(q)' = StepsLeft(q)
      BY <1>1 DEF StepsLeft, DirSteps, WriteSteps, Rank
    <3>2. StepsLeft(q) \in 0..15
      BY CountType
    <3>3. ~(StepsLeft(q)' < StepsLeft(q))
      BY <3>1, <3>2
    <3>4. QED BY <3>3, OperateDown, WritesDown
  <2>2. QED BY <1>1, <2>1, Stays DEF CountsDown, FewDirs
<1>2. ASSUME NEW p \in Procs,
             Operate(p) \/ CopyFails(p) \/ Command(p) \/ Writes(p) \/ Crash(p)
      PROVE  CountsDown /\ FewDirs'
  <2>1. OnlyMoves(p)
    BY <1>2, OnlyOneMoves DEF CountInv
  <2>2. ASSUME NEW q \in Procs
        PROVE  /\ DirSteps(q)' \in 0..2
               /\ pc[q] # "ready" =>
                    IF Operate(q) \/ Writes(q) THEN StepsLeft(q)' < StepsLeft(q)
                                               ELSE StepsLeft(q)' <= StepsLeft(q)
    <3>1. CASE Operate(q) \/ Writes(q)
      BY <3>1, OperateDown, WritesDown
    <3>2. CASE q # p /\ ~(Operate(q) \/ Writes(q))
      BY <2>1, <3>2, Stays DEF OnlyMoves
    <3>3. CASE q = p /\ (CopyFails(p) \/ Crash(p))
      <4>1. pc'[p] = Rest(p) /\ Rest(p) \in {"ready", "ended"} /\ ~W!Writing(p)'
        <5>1. CASE CopyFails(p)
          BY <5>1 DEF CopyFails, Err, Rest, CountInv, TypeInv, TypeOK, OneWriteInv, OneWrite, W!Writing
        <5>2. CASE Crash(p)
          BY <5>2 DEF Crash, Rest, CountInv, TypeInv, TypeOK, W!WriteType, W!Writing
        <5>3. QED BY <3>3, <5>1, <5>2
      <4>2. DirSteps(p)' = 0 /\ WriteSteps(p)' = 0 /\ Rank(pc[p])' = 0
        BY <4>1, WriteStepsAre DEF DirSteps, Rank
      <4>3. StepsLeft(p)' = 0 /\ StepsLeft(p) \in Nat
        BY <4>2, CountType DEF StepsLeft
      <4>4. pc[p] # "ready" /\ (Operate(p) \/ Writes(p)) => StepsLeft(p)' < StepsLeft(p)
        BY OperateDown, WritesDown
      <4>5. QED BY <3>3, <4>2, <4>3, <4>4
    <3>4. CASE q = p /\ Command(p)
      <4>1. pc[p] = "ready" /\ pc'[p] = "setting"
        BY <3>4 DEF Command, Goto, CountInv, TypeInv, TypeOK
      <4>2. QED BY <3>4, <4>1 DEF DirSteps
    <3>5. QED BY <1>2, <3>1, <3>2, <3>3, <3>4
  <2>3. QED BY <2>2 DEF CountsDown, FewDirs
<1>3. QED BY <1>1, <1>2 DEF Next, Save, vars

(* main.rs, config_store.rs: every operation on the config file is done after *)
(* fifteen steps of its own at most, though nothing locks the files: no other *)
(* process, no save and no failure can hold it up or make it start over.      *)
THEOREM OperationsEnd ==
  Spec => [](\A p \in Procs : StepsLeft(p) \in 0..15) /\ [][CountsDown]_vars
<1>1. Init => OneWriteInv /\ FewDirs
  BY DEF Init, W!WriteInit, W!Writing, Start, OneWriteInv, OneWrite, FewDirs, DirSteps
<1>2. CountInv /\ [Next]_vars => CountInv'
  BY StepTypeInv, StepOneWrite, StepDown DEF CountInv
<1>3. Spec => []CountInv
  BY <1>1, <1>2, InitTypeInv, PTL DEF Spec, CountInv
<1>4. CountInv => \A p \in Procs : StepsLeft(p) \in 0..15
  BY CountType
<1>5. QED BY <1>3, <1>4, StepDown, PTL DEF Spec
=============================================================================

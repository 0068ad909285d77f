------------------------- MODULE AtomicWriteProofs -------------------------
(* For any processes, files and texts, and whatever fails half-way: a file    *)
(* whose writers take turns is replaced atomically, and no file disappears.   *)
EXTENDS AtomicWrite, TLAPS

(* Filling a freshly truncated temporary file leaves exactly the new text;    *)
(* filling any file leaves a file.                                            *)
LEMMA OverlayEmpty == \A t : Overlay(Empty, t) = {t}
  BY DEF Overlay

LEMMA OverlayIsFile ==
    ASSUME NEW old \in Contents, NEW t \in Texts, NEW c \in Overlay(old, t)
    PROVE  c \in Contents /\ (old # None => c # None)
  BY ContentsAssumption DEF Overlay, Contents

LEMMA InitTurnsInv == Init => TurnsInv
  BY ContentsAssumption, CallersAssumption
  DEF Init, WriteInit, TurnsInv, TypeOK, WriteType, WritesTexts, OwnsTmp, NeverTorn, Whole,
      Contents, Stage, Where, Writing

(* The filling process changes the temporary file alone where writers take    *)
(* turns, and some file where they do not.                                    *)
LEMMA FillEffect ==
    ASSUME TurnsInv, NEW p \in Procs, FillTmp(p)
    PROVE  LET x == wr[p].path IN
           /\ wr' = [wr EXCEPT ![p].stage = "rename"]
           /\ wr[p].stage = "filling" /\ wr[p].text \in Texts
           /\ x \notin Shared => /\ tmp' = [tmp EXCEPT ![x] = wr[p].text]
                                 /\ UNCHANGED file
           /\ \E c \in Contents : /\ file[x] # None => c # None
                                  /\ file' \in {file, [file EXCEPT ![x] = c]}
           /\ \E c \in Contents : tmp' \in {tmp, [tmp EXCEPT ![x] = c]}
<1> USE DEF TurnsInv, TypeOK, WriteType, Writing
<1> DEFINE x == wr[p].path
<1>1. /\ wr' = [wr EXCEPT ![p].stage = "rename"]
      /\ wr[p].stage = "filling" /\ wr[p].text \in Texts
      /\ x \in Paths /\ file[x] \in Contents /\ tmp[x] \in Contents
  BY DEF FillTmp, WritesTexts
<1>2. ASSUME x \notin Shared
      PROVE  tmp' = [tmp EXCEPT ![x] = wr[p].text] /\ UNCHANGED file
  <2>1. wr[p].at = "tmp" /\ tmp[x] = Empty
    BY <1>1, <1>2 DEF OwnsTmp
  <2>2. QED BY <2>1, OverlayEmpty DEF FillTmp
<1>3. \E c \in Contents : (file[x] # None => c # None) /\ file' \in {file, [file EXCEPT ![x] = c]}
  <2>1. CASE wr[p].at = "file"
    <3>1. PICK c \in Overlay(file[x], wr[p].text) : file' = [file EXCEPT ![x] = c]
      BY <2>1 DEF FillTmp
    <3>2. c \in Contents /\ (file[x] # None => c # None)
      BY <1>1, OverlayIsFile
    <3>3. QED BY <3>1, <3>2
  <2>2. CASE wr[p].at # "file"
    <3>1. UNCHANGED file
      BY <2>2 DEF FillTmp
    <3>2. QED BY <1>1, <3>1
  <2>3. QED BY <2>1, <2>2
<1>4. \E c \in Contents : tmp' \in {tmp, [tmp EXCEPT ![x] = c]}
  <2>1. CASE wr[p].at = "tmp"
    <3>1. PICK c \in Overlay(tmp[x], wr[p].text) : tmp' = [tmp EXCEPT ![x] = c]
      BY <2>1 DEF FillTmp
    <3>2. c \in Contents
      BY <1>1, OverlayIsFile
    <3>3. QED BY <3>1, <3>2
  <2>2. CASE wr[p].at # "tmp"
    <3>1. UNCHANGED tmp
      BY <2>2 DEF FillTmp
    <3>2. QED BY <1>1, <3>1
  <2>3. QED BY <2>1, <2>2
<1>5. QED BY <1>1, <1>2, <1>3, <1>4

(* The rename replaces the target by the temporary file, which is the text of *)
(* the call where writers take turns; other calls only see their descriptor   *)
(* move, and only those on the same path.                                     *)
LEMMA RenameEffect ==
    ASSUME TurnsInv, NEW p \in Procs, RenameTmp(p)
    PROVE  LET x == wr[p].path IN
           /\ wr[p].stage = "rename" /\ x \in Paths
           /\ tmp[x] \in Contents \ {None}
           /\ x \notin Shared => tmp[x] = wr[p].text /\ wr[p].text \in Texts
           /\ file' = [file EXCEPT ![x] = tmp[x]]
           /\ tmp' = [tmp EXCEPT ![x] = None]
           /\ wr' \in [Procs -> [stage : Stage, at : Where, path : Paths, text : Contents]]
           /\ wr'[p].stage = "done"
           /\ wr'[p].path = wr[p].path /\ wr'[p].text = wr[p].text
           /\ \A q \in Procs \ {p} : /\ wr'[q].stage = wr[q].stage
                                     /\ wr'[q].path = wr[q].path /\ wr'[q].text = wr[q].text
                                     /\ wr[q].path # x => wr'[q] = wr[q]
<1> USE DEF TurnsInv, TypeOK, WriteType
<1>1. \A at : Moved(at) \in Where
  BY DEF Moved, Where
<1>2. QED BY <1>1 DEF RenameTmp, OwnsTmp, WritesTexts, Writing, Stage

(* Each step keeps the shape of the variables, the exclusive use of the       *)
(* temporary file and the wholeness of the targets.                           *)
LEMMA StepTurnsInv == TurnsInv /\ [Next]_writeVars => TurnsInv'
<1> SUFFICES ASSUME TurnsInv, [Next]_writeVars PROVE TurnsInv'
  OBVIOUS
<1> USE DEF TurnsInv, TypeOK, WriteType, Writing, Stage, Where
<1>1. ASSUME NEW p \in Procs, NEW x \in Paths, NEW t \in Texts, Request(p, x, t)
      PROVE  TurnsInv'
  <2>1. TypeOK' /\ WritesTexts'
    BY <1>1 DEF Request, BeginWrite, Contents, WritesTexts
  <2>2. OwnsTmp'
    BY <1>1 DEF Request, BeginWrite, OwnsTmp
  <2>3. QED BY <2>1, <2>2, <1>1 DEF Request, NeverTorn, Whole
<1>2. ASSUME NEW p \in Procs, OpenTmp(p)
      PROVE  TurnsInv'
  <2>1. TypeOK' /\ WritesTexts'
    BY ZenonT(60), <1>2 DEF OpenTmp, Contents, WritesTexts
  <2>2. OwnsTmp'
    BY <1>2 DEF OpenTmp, OwnsTmp
  <2>3. QED BY <2>1, <2>2, <1>2 DEF OpenTmp, NeverTorn, Whole
<1>3. ASSUME NEW p \in Procs, FillTmp(p)
      PROVE  TurnsInv'
  <2> DEFINE x == wr[p].path
  <2>1. /\ wr' = [wr EXCEPT ![p].stage = "rename"]
        /\ wr[p].stage = "filling" /\ x \in Paths
        /\ x \notin Shared => tmp' = [tmp EXCEPT ![x] = wr[p].text] /\ UNCHANGED file
    BY <1>3, FillEffect
  <2>2. /\ file' \in [Paths -> Contents] /\ tmp' \in [Paths -> Contents]
        /\ \A y \in Paths \ {x} : file'[y] = file[y] /\ tmp'[y] = tmp[y]
    BY <1>3, FillEffect
  <2>3. TypeOK' /\ WritesTexts'
    BY <2>1, <2>2 DEF WritesTexts
  <2>4. OwnsTmp'
    BY <2>1, <2>2 DEF OwnsTmp
  <2>5. NeverTorn'
    BY <2>1, <2>2 DEF NeverTorn, Whole
  <2>6. QED BY <2>3, <2>4, <2>5
<1>4. ASSUME NEW p \in Procs, RenameTmp(p)
      PROVE  TurnsInv'
  <2> DEFINE x == wr[p].path
  <2>1. /\ tmp[x] \in Contents /\ x \in Paths /\ wr[p].stage = "rename"
        /\ x \notin Shared => tmp[x] \in Texts
        /\ file' = [file EXCEPT ![x] = tmp[x]]
        /\ tmp' = [tmp EXCEPT ![x] = None]
    BY <1>4, RenameEffect
  <2>2. /\ wr' \in [Procs -> [stage : Stage, at : Where, path : Paths, text : Contents]]
        /\ wr'[p].stage = "done"
        /\ \A q \in Procs \ {p} : /\ wr'[q].stage = wr[q].stage
                                  /\ wr'[q].path = wr[q].path /\ wr'[q].text = wr[q].text
                                  /\ wr[q].path # x => wr'[q] = wr[q]
    BY <1>4, RenameEffect
  <2>3. TypeOK'
    BY <2>1, <2>2 DEF Contents
  <2>4. WritesTexts'
    BY <2>2 DEF WritesTexts
  <2>5. OwnsTmp'
    <3> SUFFICES ASSUME NEW q \in Procs, Writing(q)', wr'[q].path \notin Shared
                 PROVE  LET y == wr'[q].path IN
                        /\ wr'[q].stage = "filling" => wr'[q].at = "tmp" /\ tmp'[y] = Empty
                        /\ wr'[q].stage = "rename" => tmp'[y] = wr'[q].text
                        /\ \A r \in Procs \ {q} : Writing(r)' => wr'[r].path # y
      BY DEF OwnsTmp
    <3>1. q # p /\ Writing(q) /\ wr[q].path \notin Shared /\ wr'[q].path = wr[q].path
      BY <2>2
    <3>2. wr[q].path # x
      BY <2>1, <3>1 DEF OwnsTmp
    <3>3. wr'[q] = wr[q] /\ tmp'[wr[q].path] = tmp[wr[q].path]
      BY <2>1, <2>2, <3>1, <3>2
    <3>4. \A r \in Procs \ {q} : Writing(r)' => Writing(r) /\ wr'[r].path = wr[r].path
      BY <2>2
    <3>5. QED BY <3>1, <3>3, <3>4 DEF OwnsTmp
  <2>6. NeverTorn'
    BY <2>1, ContentsAssumption DEF NeverTorn, Whole
  <2>7. QED BY <2>3, <2>4, <2>5, <2>6
<1>5. ASSUME NEW p \in Procs, FailWrite(p)
      PROVE  TurnsInv'
  <2>1. TypeOK' /\ WritesTexts'
    BY <1>5 DEF FailWrite, WritesTexts
  <2>2. OwnsTmp'
    BY <1>5 DEF FailWrite, OwnsTmp
  <2>3. QED BY <2>1, <2>2, <1>5 DEF FailWrite, NeverTorn, Whole
<1>6. ASSUME UNCHANGED writeVars
      PROVE  TurnsInv'
  BY <1>6 DEF writeVars, WritesTexts, OwnsTmp, NeverTorn, Whole
<1>7. QED
  BY <1>1, <1>2, <1>3, <1>4, <1>5, <1>6
  DEF Next, WriteStep, RenameMissing, CutShort

(* TurnsInv holds throughout.                                                 *)
THEOREM TurnsInvariant == Spec => []TurnsInv
BY InitTurnsInv, StepTurnsInv, PTL DEF Spec

(* A reader never sees a truncated or mixed text in a file whose writers take *)
(* turns (config_store.rs:273-288).                                           *)
THEOREM WholeFiles == Spec => []NeverTorn
<1>1. TurnsInv => NeverTorn
  BY DEF TurnsInv
<1>2. QED BY TurnsInvariant, <1>1, PTL

(* A file that exists goes on existing, also where writers do not take turns: *)
(* readers that race them find some text, never no file.                      *)
THEOREM FilesStay == Spec => NeverVanishes
<1>1. ASSUME TurnsInv, [Next]_writeVars
      PROVE  [\A x \in Paths : file[x] # None => file'[x] # None]_writeVars
  <2> SUFFICES ASSUME Next, NEW x \in Paths, file[x] # None
               PROVE  file'[x] # None
    BY <1>1
  <2>1. ASSUME NEW p \in Procs, FillTmp(p)
        PROVE  file'[x] # None
    BY <1>1, <2>1, FillEffect DEF TurnsInv, TypeOK, WriteType
  <2>2. ASSUME NEW p \in Procs, RenameTmp(p)
        PROVE  file'[x] # None
    BY <1>1, <2>2, RenameEffect DEF TurnsInv, TypeOK, WriteType
  <2>3. ASSUME NEW p \in Procs, OpenTmp(p) \/ FailWrite(p)
        PROVE  UNCHANGED file
    BY <2>3 DEF OpenTmp, FailWrite
  <2>4. ASSUME NEW p \in Procs, NEW y \in Paths, NEW t \in Texts, Request(p, y, t)
        PROVE  UNCHANGED file
    BY <2>4 DEF Request
  <2>5. QED
    BY <2>1, <2>2, <2>3, <2>4 DEF Next, WriteStep, RenameMissing, CutShort
<1>2. QED BY <1>1, TurnsInvariant, PTL DEF Spec, NeverVanishes

(* Each step of atomic_write is the register's step of the same call, or      *)
(* changes nothing its callers can see, or disturbs a Shared file.            *)
LEMMA StepImplements == TurnsInv /\ [Next]_writeVars => [Register!Next]_(Register!vars)
<1> SUFFICES ASSUME TurnsInv, [Next]_writeVars PROVE [Register!Next]_(Register!vars)
  OBVIOUS
<1> USE DEF TurnsInv, TypeOK, WriteType, Writing, Stage, Where, Register!vars, OpView
<1>1. ASSUME NEW p \in Procs, NEW x \in Paths, NEW t \in Texts, Request(p, x, t)
      PROVE  Register!Request(p)
  <2>1. OpView' = [OpView EXCEPT ![p] = [stage |-> "pending", path |-> x, text |-> t]]
    BY <1>1 DEF Request, BeginWrite
  <2>2. OpView[p].stage # "pending" /\ UNCHANGED file
    BY <1>1 DEF Request
  <2>3. t \in Contents
    BY DEF Contents
  <2>4. QED BY <2>1, <2>2, <2>3 DEF Register!Request
<1>2. ASSUME NEW p \in Procs, OpenTmp(p)
      PROVE  UNCHANGED Register!vars
  BY <1>2 DEF OpenTmp
<1>3. ASSUME NEW p \in Procs, FillTmp(p)
      PROVE  UNCHANGED Register!vars \/ Register!Meddle
  <2> DEFINE x == wr[p].path
  <2>1. /\ wr' = [wr EXCEPT ![p].stage = "rename"] /\ wr[p].stage = "filling"
        /\ x \notin Shared => UNCHANGED file
        /\ \E c \in Contents : file' \in {file, [file EXCEPT ![x] = c]}
    BY <1>3, FillEffect
  <2>2. UNCHANGED OpView
    BY <2>1
  <2>3. CASE UNCHANGED file
    BY <2>2, <2>3
  <2>4. CASE file' # file
    BY <2>1, <2>2, <2>4 DEF Register!Meddle
  <2>5. QED BY <2>3, <2>4
<1>4. ASSUME NEW p \in Procs, RenameTmp(p)
      PROVE  Register!Commit(p)
  <2> DEFINE x == wr[p].path
  <2>1. /\ wr[p].stage = "rename"
        /\ tmp[x] \in Contents /\ (x \notin Shared => tmp[x] = wr[p].text)
        /\ file' = [file EXCEPT ![x] = tmp[x]]
    BY <1>4, RenameEffect
  <2>2. OpView' = [OpView EXCEPT ![p].stage = "done"]
    <3>1. /\ wr' \in [Procs -> [stage : Stage, at : Where, path : Paths, text : Contents]]
          /\ wr'[p].stage = "done"
          /\ wr'[p].path = wr[p].path /\ wr'[p].text = wr[p].text
          /\ \A q \in Procs \ {p} : /\ wr'[q].stage = wr[q].stage
                                    /\ wr'[q].path = wr[q].path /\ wr'[q].text = wr[q].text
      BY <1>4, RenameEffect
    <3>2. wr[p].stage = "rename"
      BY <2>1
    <3>3. ASSUME NEW q \in Procs
          PROVE  OpView'[q] = [OpView EXCEPT ![p].stage = "done"][q]
      <4>1. CASE q = p BY <3>1, <3>2, <4>1
      <4>2. CASE q # p BY <3>1, <4>2
      <4>3. QED BY <4>1, <4>2
    <3>4. QED BY <3>3
  <2>3. OpView[p].stage = "pending" /\ OpView[p].path = x /\ OpView[p].text = wr[p].text
    BY <2>1
  <2>4. QED BY <2>1, <2>2, <2>3 DEF Register!Commit
<1>5. ASSUME NEW p \in Procs, Writing(p), FailWrite(p)
      PROVE  Register!Fail(p)
  BY <1>5 DEF FailWrite, Register!Fail
<1>6. CASE UNCHANGED writeVars
  BY <1>6 DEF writeVars
<1>7. QED
  BY <1>1, <1>2, <1>3, <1>4, <1>5, <1>6
  DEF Next, WriteStep, RenameMissing, CutShort, Register!Next

(* atomic_write keeps the promise of docs/CONFIG.md:27 to callers that take   *)
(* turns on a path: it implements the atomic register.                        *)
THEOREM TurnsImplement == Spec => ImplementsRegister
<1>1. Init => Register!Init
  BY ContentsAssumption, CallersAssumption
  DEF Init, WriteInit, Register!Init, OpView, Writing, Contents
<1>2. QED
  BY <1>1, StepImplements, TurnsInvariant, PTL DEF Spec, ImplementsRegister, Register!Spec
=============================================================================

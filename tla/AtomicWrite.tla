---------------------------- MODULE AtomicWrite ----------------------------
(* config_store::atomic_write, at the level of the system calls it makes:     *)
(* fs::write creates or TRUNCATES the temporary file and then writes the      *)
(* text, fs::rename moves the temporary file over the target. The name of     *)
(* the temporary file depends on the target alone (config_store.rs:278), so   *)
(* every process writing one target shares it, and nothing locks it.          *)
CONSTANTS Procs,      \* the processes that call atomic_write
          Paths,      \* the files they replace
          Texts,      \* the whole texts they write
          Empty,      \* the content of a file truncated and not yet written
          Torn,       \* a new text written over the start of a longer one
          None,       \* there is no such file
          Shared,     \* the paths whose writers do not take turns
          MayFail     \* the processes whose call may fail or die half-way

ASSUME ContentsAssumption == /\ Empty \notin Texts /\ Torn \notin Texts
                             /\ None \notin Texts \cup {Empty, Torn}
                             /\ Empty # Torn
ASSUME CallersAssumption == /\ Paths # {}
                            /\ Shared \subseteq Paths /\ MayFail \subseteq Procs

VARIABLES file,  \* content of each target
          tmp,   \* content of the temporary file beside each target
          wr     \* each process's atomic_write: where it is, its path and text

writeVars == <<file, tmp, wr>>

Contents == Texts \cup {Empty, Torn, None}

(* "filling" is between open(O_TRUNC) and write; "at" says where the inode    *)
(* behind the open descriptor is by now: still the temporary file, renamed    *)
(* by another process to be the target, or replaced there and unlinked.       *)
Stage == {"open", "filling", "rename", "done", "failed"}
Where == {"tmp", "file", "orphan"}

WriteType == /\ file \in [Paths -> Contents]
             /\ tmp \in [Paths -> Contents]
             /\ wr \in [Procs -> [stage : Stage, at : Where, path : Paths, text : Contents]]

WriteInit == /\ tmp = [x \in Paths |-> None]
             /\ wr \in [Procs -> [stage : {"done"}, at : {"tmp"}, path : {CHOOSE x \in Paths : TRUE},
                                  text : {None}]]

Writing(p) == wr[p].stage \in {"open", "filling", "rename"}

BeginWrite(p, x, t) ==
    wr' = [wr EXCEPT ![p] = [stage |-> "open", at |-> "tmp", path |-> x, text |-> t]]

(* Mutant: no temporary file, the target itself is opened and truncated.      *)
OpenTarget(p) ==
    /\ wr[p].stage = "open"
    /\ file' = [file EXCEPT ![wr[p].path] = Empty]
    /\ wr' = [wr EXCEPT ![p].stage = "filling", ![p].at = "file"]
    /\ UNCHANGED tmp

OpenTmp(p) ==
    /\ wr[p].stage = "open"
    /\ tmp' = [tmp EXCEPT ![wr[p].path] = Empty]
    /\ wr' = [wr EXCEPT ![p].stage = "filling", ![p].at = "tmp"]
    /\ UNCHANGED file

(* What writing text over old from offset 0 leaves: the tail of a longer old  *)
(* text stays, and a write of nothing changes nothing.                        *)
Overlay(old, text) == IF text = Empty THEN {old}
                      ELSE IF old \in {Empty, text} THEN {text} ELSE {text, Torn}

FillTmp(p) ==
    LET x == wr[p].path IN
    /\ wr[p].stage = "filling"
    /\ \/ /\ wr[p].at = "tmp"
          /\ \E c \in Overlay(tmp[x], wr[p].text) : tmp' = [tmp EXCEPT ![x] = c]
          /\ UNCHANGED file
       \/ /\ wr[p].at = "file"
          /\ \E c \in Overlay(file[x], wr[p].text) : file' = [file EXCEPT ![x] = c]
          /\ UNCHANGED tmp
       \/ /\ wr[p].at = "orphan"
          /\ UNCHANGED <<file, tmp>>
    /\ wr' = [wr EXCEPT ![p].stage = "rename"]

(* The rename moves whatever is in the temporary file, and with it every      *)
(* descriptor another process still has open on it.                           *)
Moved(at) == IF at = "tmp" THEN "file" ELSE "orphan"

RenameTmp(p) ==
    LET x == wr[p].path IN
    /\ wr[p].stage = "rename"
    /\ tmp[x] # None
    /\ file' = [file EXCEPT ![x] = tmp[x]]
    /\ tmp' = [tmp EXCEPT ![x] = None]
    /\ wr' = [q \in Procs |->
                IF q = p THEN [wr[q] EXCEPT !.stage = "done"]
                ELSE IF wr[q].stage = "filling" /\ wr[q].path = x
                     THEN [wr[q] EXCEPT !.at = Moved(wr[q].at)]
                     ELSE wr[q]]

(* Mutant: an error on the way is swallowed and the call returns Ok.          *)
FailUnnoticed(p) == /\ wr' = [wr EXCEPT ![p].stage = "done"]
                    /\ UNCHANGED <<file, tmp>>

(* A call of atomic_write ends early: the rename finds no temporary file      *)
(* (another process moved it), a system call fails, or the process dies. The  *)
(* temporary file stays as it is; nothing removes it.                         *)
FailWrite(p) == /\ wr' = [wr EXCEPT ![p].stage = "failed"]
                /\ UNCHANGED <<file, tmp>>

RenameMissing(p) == /\ wr[p].stage = "rename"
                    /\ tmp[wr[p].path] = None
                    /\ FailWrite(p)

WriteStep(p) == OpenTmp(p) \/ FillTmp(p) \/ RenameTmp(p) \/ RenameMissing(p)

----------------------------------------------------------------------------
(* The component on its own: any process may ask for any write at any time,   *)
(* of a path not Shared only in its turn, and any call may be cut short.      *)
Request(p, x, t) ==
    /\ ~Writing(p)
    /\ x \notin Shared => \A q \in Procs : Writing(q) => wr[q].path # x
    /\ BeginWrite(p, x, t)
    /\ UNCHANGED <<file, tmp>>

CutShort(p) == p \in MayFail /\ Writing(p) /\ FailWrite(p)

Init == WriteInit /\ file \in [Paths -> Texts \cup {None}]

Next == \E p \in Procs : \/ \E x \in Paths, t \in Texts : Request(p, x, t)
                         \/ WriteStep(p)
                         \/ CutShort(p)

Spec == Init /\ [][Next]_writeVars

----------------------------------------------------------------------------
(* TLC and the proofs agree on the shape of every variable.                   *)
TypeOK == WriteType

(* docs/CONFIG.md:27, the setter "writes atomically": no reader of a file     *)
(* (load_primary, read_last_known_good_text) sees it truncated or mixed. What *)
(* atomic_write keeps of it: readers see whole texts where writers take turns,*)
(* wherever a call fails and whatever temporary file it leaves.               *)
Whole(x) == file[x] \notin {Empty, Torn}
NeverTorn == \A x \in Paths \ Shared : Whole(x)

(* A config or snapshot that exists never disappears, however the truncations *)
(* and renames of its writers interleave: atomic_write only ever replaces it. *)
NeverVanishes == [][\A x \in Paths : file[x] # None => file'[x] # None]_writeVars

(* Why: a process that opened the temporary file of a path that is not Shared *)
(* has it to itself until it renames it (inductive beside WritesTexts).       *)
WritesTexts == \A p \in Procs : Writing(p) => wr[p].text \in Texts

OwnsTmp == \A p \in Procs :
    LET x == wr[p].path IN
    Writing(p) /\ x \notin Shared =>
       /\ wr[p].stage = "filling" => wr[p].at = "tmp" /\ tmp[x] = Empty
       /\ wr[p].stage = "rename" => tmp[x] = wr[p].text
       /\ \A q \in Procs \ {p} : Writing(q) => wr[q].path # x

TurnsInv == TypeOK /\ WritesTexts /\ OwnsTmp /\ NeverTorn

(* atomic_write implements the register its callers rely on: an unfinished    *)
(* call is pending, its outcome is the call's result.                         *)
OpView == [p \in Procs |->
             [stage |-> IF Writing(p) THEN "pending" ELSE wr[p].stage,
              path |-> wr[p].path, text |-> wr[p].text]]

Register == INSTANCE AtomicRegister WITH value <- file, op <- OpView

ImplementsRegister == Register!Spec
=============================================================================

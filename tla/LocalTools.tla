------------------------------ MODULE LocalTools ------------------------------
(* local_tools.rs: what a message, or the model, can do on the computer. Files *)
(* are read and searched under the thread's working directory, which lives in  *)
(* the config file; commands run there and then, or as background terminals.   *)
(* Terminals live in the gateway's memory (LocalToolState) beside the processes*)
(* of the system, and the two can part: a step of starting or killing one      *)
(* fails, a process ends by itself, the gateway dies. A command runs in a shell*)
(* and may start programs of its own; the gateway knows the shell only.        *)
EXTENDS Integers, FiniteSets

CONSTANTS Dirs,        \* directories
          Files,       \* text files
          Endless,     \* neither: a pipe or a device, which rg reads for ever
          Nowhere,     \* a path where there is nothing
          Home,        \* $HOME
          Names, Join, \* relative paths, and what each names under each directory
          NoArg,       \* a call without argument
          Commands,    \* shell commands
          Slow,        \* the ones that do not end within COMMAND_TIMEOUT
          Floods,      \* the ones that print more than a pipe holds
          Forks,       \* the ones whose shell starts a program of its own
          MaxProcs,    \* bound: processes that outlive their call, at one time
          MaxSessions, \* features.terminal.max_sessions
          Saved,       \* config files that people save
          MaxIds       \* bound: terminal ids given in one run

Paths == Dirs \cup Files \cup Endless \cup {Nowhere}
Procs == 1..MaxProcs

VARIABLES file,      \* config file: threads.main.cwd, features.terminal.enabled, the router
          terminals, \* the processes of LocalToolState::terminals
          nextId,    \* LocalToolState::next_terminal_id
          status,    \* of each process
          id,        \* the terminal id it was started under in this run, or 0
          kids,      \* the ones whose own programs run
          hung,      \* the one that the gateway waits for without a limit
          reported,  \* history: processes whose loss was an error, or a crash
          result     \* how the last tool of this prompt answered

sessions == <<terminals, nextId, status, id, kids, hung>>
toolVars == <<file, sessions, reported, result>>

Statuses == {"new", "running", "exited", "reaped"}
(* How the router is set up: off (prompts go to the connector), without what   *)
(* it needs, or with a provider that has tools or has none.                    *)
Routers == {"off", "unset", "gemini", "plain"}
Config == [cwd : Paths, terminal : BOOLEAN, router : Routers]
Results == {"ok", "failed", "timed out", "suppressed"}

ReadTools == {"pwd", "ls", "find", "grep", "cat"}
Calls == [tool : ReadTools \cup {"cd"}, arg : Paths \cup Names \cup {NoArg}]
         \cup [tool : {"sh", "sudo", "bg", "sudo_bg"}, arg : Commands]
         \cup [tool : {"term_tail", "term_kill"}, arg : 1..MaxIds]
         \cup [tool : {"term_list"}, arg : {NoArg}]

ASSUME ToolsAssumption ==
    /\ Home \in Dirs /\ Join \in [Paths \X Names -> Paths]
    /\ Saved \subseteq Config
    /\ NoArg \notin Paths \cup Names
    /\ Endless \cap (Dirs \cup Files) = {} /\ Nowhere \notin Dirs \cup Files \cup Endless
    /\ MaxProcs \in Nat /\ MaxSessions \in Nat /\ MaxIds \in Nat

Answer(said) == result' = said
Failed == Answer("failed") /\ UNCHANGED <<file, sessions>>

ToolsInit ==
    /\ file \in Saved
    /\ terminals = {} /\ nextId = 1 /\ kids = {} /\ hung = {} /\ reported = {}
    /\ status = [p \in Procs |-> "new"]
    /\ id = [p \in Procs |-> 0]
    /\ result = "ok"

----------------------------------------------------------------------------
(* Processes. A slot for one: the first where nothing runs.                    *)
Free(p) == status[p] = "new" /\ p \notin kids
Fresh(p) == Free(p) /\ \A q \in Procs : q < p => ~Free(q)

(* Mutant: ids are counted by the sessions there are.                          *)
SpawnByCount(p, n) == /\ Fresh(p)
                      /\ status' = [status EXCEPT ![p] = "running"]
                      /\ id' = [id EXCEPT ![p] = Cardinality(terminals) + 1]

(* A child, under terminal id n or (0) under none.                             *)
Spawn(p, n) == /\ Fresh(p)
               /\ status' = [status EXCEPT ![p] = "running"]
               /\ id' = [id EXCEPT ![p] = n]

(* What the shell of a command starts.                                         *)
Starts(p, command) == kids' = IF command \in Forks THEN kids \cup {p} ELSE kids

(* Programs that stay when their shell is gone.                                *)
Stay(p) == Fresh(p) /\ kids' = kids \cup {p} /\ UNCHANGED <<status, id>>

----------------------------------------------------------------------------
(* Paths. The config c is the one the caller loaded, not the file of now.      *)
Resolve(c, arg) == IF arg \in Names THEN Join[<<c.cwd, arg>>] ELSE arg
ResolveOptional(c, arg) == IF arg = NoArg THEN c.cwd ELSE Resolve(c, arg)

(* pwd, ls, find, grep, cat: what they need to answer. find skips what it      *)
(* cannot enter, and answers "no matching files" for a path that is missing.   *)
CanRead(c, call) ==
    \/ call.tool = "pwd"
    \/ call.tool = "find" /\ call.arg # NoArg
    \/ call.tool = "ls" /\ ResolveOptional(c, call.arg) \in Dirs
    \/ call.tool = "grep" /\ ResolveOptional(c, call.arg) # Nowhere
    \/ call.tool = "cat" /\ call.arg # NoArg /\ Resolve(c, call.arg) \in Files

(* grep runs rg, where there is one, and waits for it without a timeout.       *)
Searches(c, call) ==
    /\ call.tool = "grep" /\ ResolveOptional(c, call.arg) \in Endless
    /\ \E p \in Procs : Spawn(p, 0) /\ hung' = {p}
    /\ Answer("ok") /\ UNCHANGED <<file, terminals, nextId, kids>>

Read(c, call) ==
    /\ call.tool \in ReadTools
    /\ \/ /\ Answer(IF CanRead(c, call) THEN "ok" ELSE "failed")
          /\ UNCHANGED <<file, sessions>>
       \/ Searches(c, call)

(* cd edits threads.main.cwd in the file as it is now; it fails where there is *)
(* no such directory, or where the file cannot be edited.                      *)
Cd(c, call) ==
    LET path == Resolve(c, call.arg) IN
    /\ call.tool = "cd"
    /\ \/ path \in Dirs /\ file' = [file EXCEPT !.cwd = path]
          /\ Answer("ok") /\ UNCHANGED sessions
       \/ Failed

(* run_with_timeout waits before it reads: a command that fills the pipe is    *)
(* as good as one that takes too long. Its shell is killed and waited for.     *)
Outcome(command) == IF command \in Slow \cup Floods THEN "timed out" ELSE "ok"

(* The timeout is for the shell alone. What it started may run on, after a     *)
(* timeout too; and when the shell ended in time, wait_with_output reads until *)
(* nobody holds its pipes open, however long that is.                          *)
Ends(command) ==
    /\ Answer(Outcome(command)) /\ UNCHANGED file
    /\ \/ UNCHANGED sessions
       \/ /\ command \in Forks
          /\ \E p \in Procs :
               Stay(p) /\ (UNCHANGED hung \/ (Outcome(command) = "ok" /\ hung' = {p}))
          /\ UNCHANGED <<terminals, nextId>>

(* It fails where the feature is off, or where there is no shell to be had.    *)
Sh(c, call) ==
    /\ call.tool = "sh"
    /\ \/ Failed
       \/ c.terminal /\ Ends(call.arg)

----------------------------------------------------------------------------
(* Processes started for longer than one call.                                 *)
Listed(n) == {p \in terminals : id[p] = n}
Collect(ps) == status' = [p \in Procs |-> IF p \in ps THEN "reaped" ELSE status[p]]

(* start_terminal: the id is spent before the log and the process exist, and   *)
(* any of them may fail (all do past MaxIds); sudo's password is written before*)
(* the session is listed, and where that fails nobody kills the process.       *)
Start(c, call) ==
    LET admitted == c.terminal /\ Cardinality(terminals) < MaxSessions IN
    /\ call.tool \in {"bg", "sudo_bg"}
    /\ \/ ~admitted /\ Failed
       \/ admitted /\ nextId > MaxIds /\ Failed
       \/ /\ admitted /\ nextId <= MaxIds
          /\ nextId' = nextId + 1
          /\ \/ Answer("failed") /\ UNCHANGED <<terminals, status, id, kids>>
             \/ \E p \in Procs :
                  /\ Spawn(p, nextId) /\ Starts(p, call.arg)
                  /\ \/ terminals' = terminals \cup {p} /\ Answer("ok")
                     \/ /\ call.tool = "sudo_bg"
                        /\ Answer("failed") /\ UNCHANGED terminals
          /\ UNCHANGED <<file, hung>>

(* list_terminals, tail_terminal: try_wait collects the processes that ended,  *)
(* up to the first it fails on; the log may not be readable.                   *)
Inspect(call) ==
    LET asked == IF call.tool = "term_list" THEN terminals ELSE Listed(call.arg)
        ended == {p \in asked : status[p] = "exited"}
    IN /\ call.tool \in {"term_list", "term_tail"}
       /\ \E ps \in SUBSET ended, said \in {"ok", "failed"} :
            /\ said = "ok" => ps = ended /\ (asked # {} \/ call.tool = "term_list")
            /\ Collect(ps) /\ Answer(said)
       /\ UNCHANGED <<file, terminals, nextId, id, kids, hung>>

(* Mutant: a session is dropped without killing its process.                   *)
KillForgets(call) ==
    /\ call.tool = "term_kill"
    /\ terminals' = terminals \ Listed(call.arg) /\ Answer("ok")
    /\ UNCHANGED <<file, nextId, status, id, kids, hung>>

(* kill_terminal: the session leaves the list first; then try_wait, kill (which*)
(* the system refuses where sudo made the process root's) and wait may fail.   *)
(* What is killed is the shell; the programs it started are not.               *)
Kill(call) ==
    /\ call.tool = "term_kill"
    /\ \/ Listed(call.arg) = {} /\ Failed
       \/ \E p \in Listed(call.arg) :
            /\ terminals' = terminals \ {p}
            /\ \/ Collect({p}) /\ Answer("ok")
               \/ Answer("failed") /\ UNCHANGED status
            /\ UNCHANGED <<file, nextId, id, kids, hung>>

(* sudo, in the foreground: nobody kills a process that does not take the      *)
(* password. After the timeout a refused kill is ignored and the wait for the  *)
(* process has no timeout of its own.                                          *)
SudoLeaves(command) ==
    \E p \in Procs : /\ Spawn(p, 0) /\ Starts(p, command)
                     /\ Answer("failed") /\ UNCHANGED <<file, terminals, nextId, hung>>
SudoHangs(command) ==
    \E p \in Procs : /\ Spawn(p, 0) /\ Starts(p, command) /\ hung' = {p}
                     /\ Answer("timed out") /\ UNCHANGED <<file, terminals, nextId>>
Sudo(c, call) ==
    /\ call.tool = "sudo"
    /\ \/ Failed
       \/ c.terminal /\ Ends(call.arg)
       \/ c.terminal /\ SudoLeaves(call.arg)
       \/ c.terminal /\ call.arg \in Slow \cup Floods /\ SudoHangs(call.arg)

(* Shells that run, and that the gateway neither lists nor waits for.          *)
Unlisted == {p \in Procs : status[p] = "running"} \ (terminals \cup hung)

(* LocalToolState::run_tool, called when nothing hangs.                        *)
RunTool(c, call) ==
    /\ hung = {}
    /\ \/ Read(c, call) \/ Cd(c, call) \/ Sh(c, call) \/ Sudo(c, call)
       \/ Start(c, call) \/ Inspect(call) \/ Kill(call)
    /\ reported' = IF result' = "ok" THEN reported ELSE Unlisted'

(* The system: a process ends, and stays a zombie while it is on the list. Its *)
(* slot is free again when no terminal id remembers it.                        *)
Exit(p) ==
    /\ status[p] = "running"
    /\ status' = [status EXCEPT ![p] = IF p \in terminals THEN "exited"
                                       ELSE IF id[p] = 0 THEN "new" ELSE "reaped"]
    /\ hung' = hung \ {p} /\ reported' = reported \ {p}
    /\ UNCHANGED <<file, terminals, nextId, id, kids, result>>

(* The programs of a shell end, and let go of its pipes.                       *)
KidsEnd(p) ==
    /\ p \in kids
    /\ kids' = kids \ {p}
    /\ hung' = IF status[p] = "running" THEN hung ELSE hung \ {p}
    /\ UNCHANGED <<file, terminals, nextId, status, id, reported, result>>

(* The gateway dies and starts again: its list is gone, and of its children    *)
(* and theirs the service manager ends all but some.                           *)
Restart ==
    /\ terminals' = {} /\ nextId' = 1 /\ hung' = {} /\ id' = [p \in Procs |-> 0]
    /\ \E ps \in SUBSET {p \in Procs : status[p] = "running"} :
         /\ status' = [p \in Procs |-> IF p \in ps THEN "running" ELSE "new"]
         /\ reported' = ps
    /\ kids' \in SUBSET kids
    /\ result' = "ok" /\ UNCHANGED file

----------------------------------------------------------------------------
ToolsType ==
    /\ file \in Config /\ result \in Results
    /\ terminals \subseteq Procs /\ kids \subseteq Procs
    /\ hung \subseteq Procs /\ reported \subseteq Procs
    /\ nextId \in 1..MaxIds + 1
    /\ status \in [Procs -> Statuses]
    /\ id \in [Procs -> 0..MaxIds + 1]

(* local_tools.rs start_terminal and kill_terminal: a shell that runs without  *)
(* being on the list was let go by a call that said it failed (a password not  *)
(* taken, a kill that was refused) or by a gateway that died: no call that was *)
(* answered as done leaves one behind; the list never outgrows max_sessions.   *)
(* What the shells started is on no list, and kill_terminal leaves it running. *)
Accounted ==
    /\ Unlisted \subseteq reported
    /\ Cardinality(terminals) <= MaxSessions

(* local_tools.rs next_terminal_id: two terminals of one run never share an id,*)
(* so `/term tail` and `/term kill` mean one process and its log, however many *)
(* were started, failed or were killed before.                                 *)
OwnId ==
    \A p, q \in Procs :
       p # q /\ id[p] # 0 => id[p] # id[q]
=============================================================================

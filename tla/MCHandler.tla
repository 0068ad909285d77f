------------------------------ MODULE MCHandler ------------------------------
(* A small instance of Handler: two directories and a way down from one to the *)
(* other, a pipe, and two slots for processes.                                 *)
EXTENDS Handler, TLC

CONSTANTS home, work, fifo, nowhere, sub, none, quick, slow, serves

MCJoin == [pair \in Paths \X {sub} |-> IF pair[1] = home THEN work ELSE nowhere]
Call(tool, arg) == [tool |-> tool, arg |-> arg]

(* The calls a model makes, and the commands beside them: whatever starts,     *)
(* ends or shows a process, and what can keep the gateway waiting.             *)
MCModelCalls == {Call("cd", sub), Call("bg", serves)}
MCSlashCalls == {Call("sh", serves), Call("grep", fifo), Call("sudo", slow), Call("sudo_bg", quick),
                 Call("term_list", none), Call("term_kill", 1), Call("ls", sub)}

Conf(cwd, terminal, router) == [cwd |-> cwd, terminal |-> terminal, router |-> router]
MCSaved == {Conf(home, TRUE, "gemini"), Conf(work, TRUE, "off"),
            Conf(nowhere, FALSE, "unset"), Conf(work, TRUE, "plain")}

Plain == [begins |-> {}, bytes |-> 30, inside |-> {}, exact |-> FALSE,
          call |-> Call("pwd", none), asks |-> FALSE]
(* "What is up", "What's up" with a typographic apostrophe, "run date", "cd sub"*)
(* and the same with a question in it.                                         *)
MCTexts == {Plain, [Plain EXCEPT !.inside = {5, 6}],
            [Plain EXCEPT !.begins = {"run "}, !.call = Call("sh", quick)],
            [Plain EXCEPT !.begins = {"cd "}, !.call = Call("cd", sub)],
            [Plain EXCEPT !.begins = {"cd "}, !.call = Call("cd", sub), !.asks = TRUE]}
=============================================================================

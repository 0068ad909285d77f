------------------------------- MODULE Handler -------------------------------
(* telegram.rs handle_text_with_state, one message at a time: which words are  *)
(* a tool call, which go to the model or the connector, and what happens to    *)
(* the config file, the terminals and the gateway meanwhile. (The commands     *)
(* that change settings are in Settings.)                                      *)
EXTENDS LlmRouter

CONSTANTS SlashCalls, \* calls that commands such as /ls, /bg or /term spell out
          Texts       \* plain texts

vars == <<toolVars, pc, promptVars>>

Init == ToolsInit /\ RouterInit

----------------------------------------------------------------------------
(* try_parse_natural: phrases in the order they are tried, with their bytes.   *)
Phrase(words, bytes, tool) == [words |-> words, bytes |-> bytes, tool |-> tool]
Phrases == <<
    Phrase("cd ", 3, "cd"), Phrase("go to ", 6, "cd"), Phrase("go into ", 8, "cd"),
    Phrase("change directory to ", 20, "cd"), Phrase("change directories to ", 22, "cd"),
    Phrase("open folder ", 12, "cd"),
    Phrase("ls ", 3, "ls"), Phrase("list files ", 11, "ls"), Phrase("show files ", 11, "ls"),
    Phrase("find ", 5, "find"), Phrase("find file ", 10, "find"), Phrase("find files ", 11, "find"),
    Phrase("search for file ", 16, "find"),
    Phrase("grep ", 5, "grep"), Phrase("search text ", 12, "grep"),
    Phrase("search for text ", 16, "grep"),
    Phrase("cat ", 4, "cat"), Phrase("show file ", 10, "cat"), Phrase("read file ", 10, "cat"),
    Phrase("open file ", 10, "cat"),
    Phrase("run in background ", 18, "bg"), Phrase("start background ", 17, "bg"),
    Phrase("start terminal ", 15, "bg"),
    Phrase("run ", 4, "sh"), Phrase("run command ", 12, "sh"), Phrase("execute ", 8, "sh"),
    Phrase("execute command ", 16, "sh"), Phrase("terminal ", 9, "sh")>>

(* A text: which phrases it begins with, its length, the byte offsets that are *)
(* inside a character, the call its rest makes, whether it is exactly "pwd" or *)
(* a bare "ls", and whether a question word makes it one for the model.        *)
Text == [begins : SUBSET {Phrases[i].words : i \in DOMAIN Phrases}, bytes : Nat,
         inside : SUBSET Nat, exact : BOOLEAN, call : Calls, asks : BOOLEAN]

ASSUME HandlerAssumption == SlashCalls \subseteq Calls /\ Texts \subseteq Text

(* strip_prefix_case cuts the text at the length of the phrase and panics where*)
(* that is inside a character; the first phrase that fits, or panics, decides. *)
Panics(text, i) == Phrases[i].bytes <= text.bytes /\ Phrases[i].bytes \in text.inside
Hits(text) == {i \in DOMAIN Phrases :
                 Panics(text, i) \/ Phrases[i].words \in text.begins}
FirstHit(text) == CHOOSE i \in Hits(text) : \A k \in Hits(text) : i <= k

Parse(text) == IF text.exact THEN text.call.tool
               ELSE IF Hits(text) = {} THEN "none"
               ELSE IF Panics(text, FirstHit(text)) THEN "panic"
               ELSE Phrases[FirstHit(text)].tool

(* should_route_tool_request_through_ai.                                       *)
Routed(text) == file.router # "off" /\ (Parse(text) \in {"sh", "bg"} \/ text.asks)

----------------------------------------------------------------------------
(* One message. The config is loaded for it, so all of it goes by the file of  *)
(* this moment; command_reply makes a panic a reply.                          *)
Direct(call) == pc' = "direct" /\ Locals(file, <<call>>) /\ UNCHANGED toolVars

SlashCall(call) == pc = "idle" /\ Direct(call)

(* is_terminal_request parses a prompt again before it goes to Gemini.         *)
RunCommand(text) ==
    /\ pc = "idle"
    /\ \/ file.router = "gemini" /\ Parse(text) = "panic" /\ Refuses
       \/ ~(file.router = "gemini" /\ Parse(text) = "panic") /\ Begin(file)

PlainText(text) ==
    /\ pc = "idle"
    /\ \/ Parse(text) = "panic" /\ Refuses
       \/ Parse(text) = "none" /\ Begin(file)
       \/ /\ Parse(text) \notin {"panic", "none"}
          /\ IF Routed(text) THEN Begin(file) ELSE Direct(text.call)

RunDirect == /\ pc = "direct" /\ RunTool(conf, Head(calls))
             /\ pc' = "reply" /\ UNCHANGED promptVars

(* ConnectorManager::run (see ConnectorProcess): where the command cannot be   *)
(* killed or does not take its request, or where a program it started holds its*)
(* pipes, the call waits for it without a limit.                               *)
ConnectorHangs ==
    /\ \E p \in Procs : (Spawn(p, 0) /\ UNCHANGED kids) \/ Stay(p)
    /\ hung' = {p \in Procs : Fresh(p)}
    /\ pc' = "reply" /\ NoPrompt /\ result' = "ok"
    /\ UNCHANGED <<file, terminals, nextId, reported>>
ConnectorAnswers == pc = "connector" /\ (Replies \/ ConnectorHangs)

SendReply == pc = "reply" /\ Replies

Handle == hung = {} /\ (Router \/ RunDirect \/ ConnectorAnswers \/ SendReply)

----------------------------------------------------------------------------
(* Beside it: a person or another process edits the file, processes end, the   *)
(* gateway dies.                                                               *)
Edit == file' \in Saved /\ UNCHANGED <<sessions, reported, result, pc, promptVars>>

Ended == \E p \in Procs : (Exit(p) \/ KidsEnd(p)) /\ UNCHANGED <<pc, promptVars>>

Died == Restart /\ pc' = "idle" /\ NoPrompt

Message == \/ \E call \in SlashCalls : SlashCall(call)
           \/ \E text \in Texts : RunCommand(text) \/ PlainText(text)

Next == (hung = {} /\ Message) \/ Handle \/ Edit \/ Ended \/ Died

Spec == Init /\ [][Next]_vars

(* Requests have timeouts (LLM_REQUEST_TIMEOUT) and shells have theirs, so a   *)
(* message that is being handled goes on, unless the gateway waits (hung) for  *)
(* one of the processes that nothing limits; they end when they like.          *)
FairSpec == Spec /\ WF_vars(Handle)

TypeOK == ToolsType /\ RouterType

(* run_google_gemini and run_tool: every message is answered, however many     *)
(* tools the model calls, repeats or gets errors from, as long as what the     *)
(* gateway waits for without a limit ends each time: a search of a device, a   *)
(* sudo or connector that cannot be killed, a program that keeps pipes open.   *)
EveryMessageAnswered == []<>(hung = {}) => (pc # "idle" ~> pc = "idle")

(* docs/TELEGRAM.md:59 "Plain text messages are treated like `/run <message>`  *)
(* on the `main` thread": a text that is no tool request does what /run does.  *)
(* The code does not: see the run Apostrophe.                                  *)
PlainTextLikeRun ==
    [][\A text \in Texts :
         ~text.exact /\ text.begins = {} /\ PlainText(text) => RunCommand(text)]_vars
=============================================================================

------------------------------ MODULE LlmRouter ------------------------------
(* llm_router.rs: a prompt is sent to the configured model. Gemini models may  *)
(* answer with tool calls; the parent runs them, sends the results back and    *)
(* goes on until the model answers in words, a call repeats or the rounds are  *)
(* used up. All of it happens under the config loaded for the message.         *)
EXTENDS LocalTools, Sequences

CONSTANTS ModelCalls, \* the calls a model makes (any, declared to it or not)
          MaxCalls,   \* bound: calls of one response
          MaxRounds   \* requests before the last one (8)

ASSUME RouterAssumption ==
    ModelCalls \subseteq Calls /\ MaxCalls \in Nat /\ MaxRounds \in Nat \ {0}

VARIABLES pc,       \* idle, ask, tools, final; connector, direct, reply
          conf,     \* the config loaded for the message
          round,    \* requests answered with calls
          calls,    \* the calls of the response that are still to run
          seen,     \* seen_tool_calls
          repeated, \* whether the last of them was there before
          executed, \* history: the calls run for this prompt
          wrong     \* history: calls run twice or suppressed without a result

promptVars == <<conf, round, calls, seen, repeated, executed, wrong>>

(* Between messages nothing of a prompt is kept.                               *)
NoConfig == [cwd |-> Home, terminal |-> FALSE, router |-> "off"]

RouterInit ==
    /\ pc = "idle" /\ conf = NoConfig /\ round = 0 /\ calls = <<>>
    /\ seen = {} /\ repeated = FALSE /\ executed = {} /\ wrong = {}

(* The local variables, under config c and with the calls cs to run.           *)
Locals(c, cs) ==
    /\ conf' = c /\ round' = 0 /\ calls' = cs
    /\ seen' = {} /\ repeated' = FALSE /\ executed' = {} /\ wrong' = {}
NoPrompt == Locals(NoConfig, <<>>)
Replies == /\ pc' = "idle" /\ NoPrompt /\ result' = "ok"
           /\ UNCHANGED <<file, sessions, reported>>
Refuses == /\ pc' = "reply" /\ NoPrompt /\ result' = "failed"
           /\ UNCHANGED <<file, sessions, reported>>
Say(said) == Answer(said) /\ UNCHANGED <<file, sessions, reported>>

----------------------------------------------------------------------------
(* run_prompt: to the connector where the router is off; an error where it has *)
(* no provider, model or key, or the provider is not in the catalog; to a      *)
(* provider without tools as one request (run_openai_compatible,               *)
(* run_anthropic). A prompt starts with an empty conversation.                 *)
Started(c, next) == /\ pc' = next /\ Locals(c, <<>>) /\ UNCHANGED toolVars

Begin(c) ==
    \/ c.router = "off" /\ Started(c, "connector")
    \/ c.router = "unset" /\ Refuses
    \/ c.router = "gemini" /\ Started(c, "ask")
    \/ c.router = "plain" /\ Started(c, "final")

(* extract_gemini_function_calls.                                              *)
Responses == UNION {[1..n -> ModelCalls] : n \in 1..MaxCalls}

(* A round of run_google_gemini: words, an error (of HTTP, of an empty result, *)
(* of a call to a tool that does not exist), or calls.                         *)
Ask ==
    /\ pc = "ask"
    /\ \/ Replies
       \/ \E cs \in Responses :
            /\ calls' = cs /\ pc' = "tools" /\ Say("ok")
            /\ UNCHANGED <<conf, round, seen, repeated, executed, wrong>>

Known(call) == call \in seen

(* Mutant: a call is compared with the one before it only.                     *)
RunCallForgets ==
    LET call == Head(calls) IN
    /\ pc = "tools" /\ calls # <<>>
    /\ calls' = Tail(calls)
    /\ repeated' = Known(call) /\ seen' = {call}
    /\ \/ Known(call) /\ wrong' = wrong \cup ({call} \ executed)
          /\ Say("suppressed") /\ UNCHANGED executed
       \/ /\ ~Known(call) /\ wrong' = wrong \cup ({call} \cap executed)
          /\ executed' = executed \cup {call}
          /\ RunTool(conf, call)
    /\ UNCHANGED <<pc, conf, round>>

(* run_local_tool_isolated, unless the same call was seen before: its errors   *)
(* and panics are results like any other.                                      *)
RunCall ==
    LET call == Head(calls) IN
    /\ pc = "tools" /\ calls # <<>>
    /\ calls' = Tail(calls)
    /\ repeated' = Known(call) /\ seen' = seen \cup {call}
    /\ \/ Known(call) /\ wrong' = wrong \cup ({call} \ executed)
          /\ Say("suppressed") /\ UNCHANGED executed
       \/ /\ ~Known(call) /\ wrong' = wrong \cup ({call} \cap executed)
          /\ executed' = executed \cup {call}
          /\ RunTool(conf, call)
    /\ UNCHANGED <<pc, conf, round>>

(* Mutants: neither repeats nor rounds end the loop; one round too many.       *)
RoundEndsNever ==
    /\ pc = "tools" /\ calls = <<>>
    /\ pc' = "ask"
    /\ UNCHANGED <<toolVars, promptVars>>

RoundEndsLate ==
    /\ pc = "tools" /\ calls = <<>>
    /\ round' = round + 1
    /\ pc' = IF repeated \/ round = MaxRounds THEN "final" ELSE "ask"
    /\ UNCHANGED <<toolVars, conf, calls, seen, repeated, executed, wrong>>

RoundEnds ==
    /\ pc = "tools" /\ calls = <<>>
    /\ round' = round + 1
    /\ pc' = IF repeated \/ round + 1 = MaxRounds THEN "final" ELSE "ask"
    /\ UNCHANGED <<toolVars, conf, calls, seen, repeated, executed, wrong>>

(* finalize_google_gemini, and the one request of the other formats: no tools  *)
(* are offered, an answer without words is an error.                           *)
Finalize == pc = "final" /\ Replies

Router == Ask \/ RunCall \/ RoundEnds \/ Finalize

----------------------------------------------------------------------------
RouterType ==
    /\ pc \in {"idle", "ask", "tools", "final", "connector", "direct", "reply"}
    /\ conf \in Config /\ calls \in Seq(Calls)
    /\ round \in 0..MaxRounds
    /\ seen \subseteq Calls /\ executed \subseteq Calls /\ wrong \subseteq Calls
    /\ repeated \in BOOLEAN

(* llm_router.rs seen_tool_calls: for one prompt no call runs twice, and one is*)
(* suppressed only when its result is in the conversation already, whatever    *)
(* mixture of new and repeated calls the rounds bring.                         *)
RunsOnce == wrong = {}
=============================================================================

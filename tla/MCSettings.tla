------------------------------ MODULE MCSettings ------------------------------
(* A small instance of Settings: two threads, the builtin connector and a      *)
(* program, two providers of which one takes any model.                        *)
EXTENDS Settings, TLC

MCStrings == {"echo", "shell", "openai", "groq", "api.openai.com", "api.groq.com", "proxy",
              "gpt", "llama", "key"}

OpenAi == [url |-> "api.openai.com", default |-> "gpt", custom |-> FALSE, models |-> {"gpt"}]
Groq == [url |-> "api.groq.com", default |-> "", custom |-> FALSE, models |-> {"llama"}]
MCBundled == ("openai" :> OpenAi) @@ ("groq" :> Groq)
MCCatalogs == {MCBundled, "groq" :> [url |-> "proxy", default |-> "llama", custom |-> TRUE,
                                     models |-> {}]}

(* A config with a program as connector, without watch; one whose selection is *)
(* invalid and of another provider than the last one.                          *)
WithShell == [Installed EXCEPT ![Definition("shell", "type")] = Value("string", "json"),
                                 ![Definition("shell", "command")] = Value("list", "[sh]"),
                                 ![Feature("watch")] = Truth(FALSE)]
NumberAsModel == [Installed EXCEPT ![Llm("provider")] = Value("string", "groq"),
                                     ![Llm("base_url")] = Value("string", "api.groq.com"),
                                     ![Llm("model")] = Value("number", "42")]
MCSaves == {WithShell, NumberAsModel}

MCWords == {"groq", "llama"}
MCCliEdits == {<<ThreadConnector("work"), "shell">>, <<ThreadSwitch("work", "watch"), "true">>,
               <<Llm("provider"), "groq">>}

All == {"connector.health", "connector.run", "connector.cancel", "connector.stream",
        "threads.cwd", "attachments.images"}
MCReports == {[k \in ConnectorNames |-> offers] :
                offers \in {{}, All, All \ {"connector.stream"}}}
=============================================================================

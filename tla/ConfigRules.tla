----------------------------- MODULE ConfigRules -----------------------------
(* The rules a config goes by: what an edit makes of a text (yaml_edit.rs),    *)
(* which texts are configs (config.rs), what they ask of connectors            *)
(* (features.rs, connector.rs) and which models belong to which provider       *)
(* (provider_catalog.rs). A text is the value at each path; what is not there  *)
(* has its default.                                                            *)
EXTENDS Integers, Sequences

CONSTANTS ThreadNames,    \* "main" and others
          ConnectorNames, \* "echo" and others
          Strings,        \* words that are none of the scalars below
          Providers, Urls, Models

ASSUME NamesAssumption ==
    /\ "main" \in ThreadNames /\ "echo" \in ConnectorNames
    /\ "openai" \in Providers /\ "api.openai.com" \in Urls
    /\ ConnectorNames \cup Providers \cup Urls \cup Models \subseteq Strings
    /\ Strings \cap {"", "true", "false", "null", "~", "0", "42", "[]", "[sh]", "'42'"} = {}

Features == {"screenshots", "file_transfer", "terminal", "watch", "queue", "cancel",
             "history", "threads", "images", "llm_router"}

Feature(f) == <<"features", f, "enabled">>
Llm(field) == <<"llm_router", field>>
Definition(k, field) == <<"connectors", "definitions", k, field>>
ThreadConnector(t) == <<"threads", t, "connector">>
ThreadSwitch(t, s) == <<"threads", t, s, "enabled">>
Default == <<"connectors", "default">>
Telegram == <<"mobile", "telegram", "enabled">>

Paths == {Feature(f) : f \in Features}
         \cup {Llm(field) : field \in {"enabled", "provider", "base_url", "model", "api_key"}}
         \cup {Definition(k, field) : k \in ConnectorNames,
                                      field \in {"type", "command", "timeout_seconds"}}
         \cup {ThreadConnector(t) : t \in ThreadNames}
         \cup {ThreadSwitch(t, s) : t \in ThreadNames, s \in {"watch", "queue"}}
         \cup {Default, Telegram}

----------------------------------------------------------------------------
(* Values, and what parse_scalar makes of a raw word: anything that reads as   *)
(* another type is one, so a model named 42 is a number.                       *)
Value(type, word) == [type |-> type, word |-> word]
Absent == Value("absent", "")
Mistyped == Value("mapping", "")
Truth(b) == Value("bool", IF b THEN "true" ELSE "false")

Scalar(raw) ==
    CASE raw \in {"true", "false"} -> Value("bool", raw)
      [] raw \in {"null", "~"} -> Value("null", "")
      [] raw \in {"0", "42"} -> Value("number", raw)
      [] raw \in {"[]", "[sh]"} -> Value("list", raw)
      [] raw = "'42'" -> Value("string", "42")
      [] OTHER -> Value("string", raw)

Raws == Strings \cup {"", "builtin_echo", "json", "true", "false", "null", "~", "0", "42", "[]", "[sh]", "'42'"}
Values == {Scalar(raw) : raw \in Raws} \cup {Absent, Mistyped}
Texts == [Paths -> Values]

(* set_nested_value: a value above a path takes the place of its mapping, one  *)
(* below it makes a mapping of it; what no field is read from has no effect.   *)
Above(p, q) == Len(p) < Len(q) /\ SubSeq(q, 1, Len(p)) = p
Touches(path, p) == path = p \/ Above(path, p) \/ Above(p, path)
Put(text, path, raw) ==
    [p \in Paths |-> IF p = path THEN Scalar(raw)
                     ELSE IF Touches(path, p) THEN Mistyped ELSE text[p]]

(* Mutant: each edit starts over from the text as it was read.                 *)
EditedAlone(text, edits) == Put(text, edits[Len(edits)][1], edits[Len(edits)][2])

(* set_values: one after the other, so that the last one to touch a path       *)
(* decides what is there.                                                      *)
Edited(text, edits) ==
    [p \in Paths |->
       LET hits == {i \in DOMAIN edits : Touches(edits[i][1], p)}
           last == CHOOSE i \in hits : \A k \in hits : k <= i
       IN IF hits = {} THEN text[p] ELSE Put(text, edits[last][1], edits[last][2])[p]]

----------------------------------------------------------------------------
(* AppConfig: the types of its fields, and their defaults.                     *)
Types(p) ==
    IF p[Len(p)] = "enabled" THEN {"bool"}
    ELSE IF p[Len(p)] = "timeout_seconds" THEN {"number"}
    ELSE IF p[Len(p)] = "command" THEN {"list"}
    ELSE IF p[1] = "threads" THEN {"string", "null"}
    ELSE {"string"}

Typed(text) ==
    /\ \A p \in Paths : text[p] = Absent \/ text[p].type \in Types(p)
    /\ \A k \in ConnectorNames :
         text[Definition(k, "type")] = Absent
         \/ text[Definition(k, "type")].word \in {"builtin_echo", "json"}

Get(c, path, default) == IF c[path] = Absent THEN default ELSE c[path].word
On(c, path, default) == Get(c, path, IF default THEN "true" ELSE "false") = "true"
Enabled(c, f) == On(c, Feature(f), f # "llm_router")

OrElse(names, name) == IF names = {} THEN {name} ELSE names
Defined(c) == OrElse({k \in ConnectorNames :
                        \E field \in {"type", "command", "timeout_seconds"} :
                           c[Definition(k, field)] # Absent}, "echo")
Kind(c, k) == Get(c, Definition(k, "type"), "builtin_echo")

Named(c) == OrElse({t \in ThreadNames :
                      \/ c[ThreadConnector(t)] # Absent
                      \/ \E s \in {"watch", "queue"} : c[ThreadSwitch(t, s)] # Absent}, "main")
Watches(c, t) == On(c, ThreadSwitch(t, "watch"), FALSE)
Queues(c, t) == On(c, ThreadSwitch(t, "queue"), TRUE)

(* The text that init writes; where it spells out a default that no property   *)
(* tells from an absent value (a null connector, echo's timeout), it is absent.*)
DefaultText ==
    [p \in Paths |->
       IF p \in {Feature(f) : f \in Features \ {"llm_router"}} THEN Truth(TRUE)
       ELSE IF p = ThreadSwitch("main", "queue") THEN Truth(TRUE)
       ELSE IF p \in {Feature("llm_router"), Llm("enabled"), ThreadSwitch("main", "watch"),
                      Telegram} THEN Truth(FALSE)
       ELSE IF p = Default THEN Value("string", "echo")
       ELSE IF p = Definition("echo", "type") THEN Value("string", "builtin_echo")
       ELSE IF p = Llm("provider") THEN Value("string", "openai")
       ELSE IF p = Llm("base_url") THEN Value("string", "api.openai.com")
       ELSE IF p \in {Llm("model"), Llm("api_key")} THEN Value("string", "") ELSE Absent]

----------------------------------------------------------------------------
(* AppConfig::connector_for_thread, for any name, configured or not.           *)
Own(c, t) == t \in ThreadNames /\ c[ThreadConnector(t)].type = "string"
ConnectorFor(c, t) ==
    IF Own(c, t) THEN c[ThreadConnector(t)].word ELSE Get(c, Default, "echo")

(* Mutants: the default connector is looked up for no thread; the watch switch *)
(* of a thread is not compared with the feature.                               *)
ValidDefaultOnly(c) == Get(c, Default, "echo") \in Defined(c)
ValidQueuesOnly(c) == \A t \in Named(c) : Queues(c, t) => Enabled(c, "queue")

(* AppConfig::validate, check by check.                                        *)
ValidConnectors(c) ==
    \A k \in Defined(c) :
       /\ Get(c, Definition(k, "timeout_seconds"), "60") # "0"
       /\ Kind(c, k) = "json" => Get(c, Definition(k, "command"), "[]") # "[]"
ValidRoutes(c) == /\ Get(c, Default, "echo") \in Defined(c)
                  /\ \A t \in Named(c) : ConnectorFor(c, t) \in Defined(c)
ValidSwitches(c) == \A t \in Named(c) : /\ Watches(c, t) => Enabled(c, "watch")
                                        /\ Queues(c, t) => Enabled(c, "queue")

Valid(text) == Typed(text) /\ ValidConnectors(text) /\ ValidRoutes(text) /\ ValidSwitches(text)

----------------------------------------------------------------------------
(* features::registry: the capability each feature needs of a connector, or "".*)
Registry ==
    [key \in {"gateway.telegram", "gateway.llm_router", "jobs.queue", "jobs.cancel",
              "jobs.history", "threads.named", "threads.cwd", "threads.watch",
              "attachments.images", "attachments.files", "mac.screenshot", "mac.terminal",
              "connector.health", "connector.run", "connector.status",
              "connector.capabilities"} |->
       CASE key = "jobs.cancel" -> "connector.cancel"
         [] key = "threads.watch" -> "connector.stream"
         [] key \in {"threads.cwd", "attachments.images", "connector.health", "connector.run",
                     "connector.status", "connector.capabilities"} -> key
         [] OTHER -> ""]

(* AppConfig::enabled_feature_keys.                                            *)
KeysOf(f) == CASE f = "queue" -> {"jobs.queue"} [] f = "cancel" -> {"jobs.cancel"}
               [] f = "history" -> {"jobs.history"} [] f = "threads" -> {"threads.named", "threads.cwd"}
               [] f = "watch" -> {"threads.watch"} [] f = "images" -> {"attachments.images"}
               [] f = "file_transfer" -> {"attachments.files"} [] f = "screenshots" -> {"mac.screenshot"}
               [] f = "terminal" -> {"mac.terminal"} [] f = "llm_router" -> {"gateway.llm_router"}
EnabledKeys(c) ==
    {"connector.health", "connector.run", "connector.status", "connector.capabilities"}
    \cup (UNION {KeysOf(f) : f \in {f \in Features : Enabled(c, f)}})
    \cup (IF On(c, Llm("enabled"), FALSE) THEN {"gateway.llm_router"} ELSE {})
    \cup (IF On(c, Telegram, FALSE) THEN {"gateway.telegram"} ELSE {})

(* ConnectorManager::required_capabilities and validate_capabilities; a        *)
(* connector that reports none at all passes.                                  *)
Selecting(c, k) == {t \in Named(c) : ConnectorFor(c, t) = k}
Required(c, k) ==
    {"connector.health", "connector.run"}
    \cup (IF Selecting(c, k) = {} THEN {} ELSE
            {needs[2] : needs \in {n \in {<<"threads", "threads.cwd">>,
                                          <<"images", "attachments.images">>,
                                          <<"cancel", "connector.cancel">>} : Enabled(c, n[1])}})
    \cup (IF \E t \in Selecting(c, k) : Watches(c, t) THEN {"connector.stream"} ELSE {})
Suffices(c, k, capabilities) == capabilities = {} \/ Required(c, k) \subseteq capabilities

(* What the builtin connector reports.                                         *)
EchoCapabilities == {"connector.health", "connector.run", "connector.cancel",
                     "connector.status", "connector.stream", "connector.capabilities",
                     "threads.cwd", "attachments.images"}

(* check_all, where json connectors report what reports says (or are ill).     *)
CheckAll(c, ill, reports) ==
    \A k \in Defined(c) :
       /\ Kind(c, k) = "json" => k \notin ill
       /\ Suffices(c, k, IF Kind(c, k) = "json" THEN reports[k] ELSE EchoCapabilities)

----------------------------------------------------------------------------
(* A provider catalog: per provider a URL, a default model ("" for the first   *)
(* one), whether it takes models it does not list, and the ones it lists.      *)
Entry == [url : Urls, default : Models \cup {""}, custom : BOOLEAN, models : SUBSET Models]
Catalog == UNION {[known -> Entry] : known \in SUBSET Providers}

ModelOrCustom(catalog, p, m) ==
    p \in DOMAIN catalog /\ (m \in catalog[p].models \/ catalog[p].custom)
DefaultModels(catalog, p) == IF catalog[p].default = "" THEN catalog[p].models
                                                        ELSE {catalog[p].default}
=============================================================================

---------------------------- MODULE SettingsProofs ----------------------------
(* For any names of threads and connectors, any texts people save, any number *)
(* of writes and any catalogs.                                                *)
EXTENDS Settings, WellFoundedInduction, TLAPS

(* The config of init, whether or not Telegram was switched on since.         *)
DefaultLike(c) ==
    /\ \A f \in Features : c[Feature(f)].type = "bool"
    /\ c[Feature("queue")] = Truth(TRUE)
    /\ \A field \in {"provider", "base_url", "model", "api_key"} : c[Llm(field)].type = "string"
    /\ c[Llm("enabled")].type = "bool" /\ c[Telegram].type = "bool"
    /\ c[Default] = Value("string", "echo")
    /\ c[Definition("echo", "type")] = Value("string", "builtin_echo")
    /\ \A k \in ConnectorNames, field \in {"type", "command", "timeout_seconds"} :
         k # "echo" \/ field # "type" => c[Definition(k, field)] = Absent
    /\ \A t \in ThreadNames : c[ThreadConnector(t)] = Absent
    /\ \A t \in ThreadNames, s \in {"watch", "queue"} :
         t # "main" => c[ThreadSwitch(t, s)] = Absent
    /\ c[ThreadSwitch("main", "watch")] = Truth(FALSE)
    /\ c[ThreadSwitch("main", "queue")] = Truth(TRUE)

(* Paths of different kinds, or with different names in them, are different.  *)
LEMMA FeaturePaths ==
  ASSUME NEW a, NEW b, NEW d
  PROVE  /\ Feature(a) = Feature(b) => a = b
         /\ Feature(a) # Llm(b) /\ Feature(a) # ThreadConnector(b)
         /\ Feature(a) # ThreadSwitch(b, d) /\ Feature(a) # Definition(b, d)
         /\ Feature(a) # Default /\ Feature(a) # Telegram
BY DEF Feature, Llm, ThreadConnector, ThreadSwitch, Definition, Default, Telegram

LEMMA LlmPaths ==
  ASSUME NEW a, NEW b, NEW d
  PROVE  /\ Llm(a) = Llm(b) => a = b
         /\ Llm(a) # ThreadConnector(b) /\ Llm(a) # Default /\ Llm(a) # Telegram
         /\ Llm(a) # ThreadSwitch(b, d) /\ Llm(a) # Definition(b, d)
BY DEF Llm, ThreadConnector, ThreadSwitch, Definition, Default, Telegram

LEMMA ThreadPaths ==
  ASSUME NEW a, NEW b, NEW d, NEW e
  PROVE  /\ ThreadConnector(a) # ThreadSwitch(b, d) /\ ThreadConnector(a) # Definition(b, d)
         /\ ThreadConnector(a) # Default /\ ThreadConnector(a) # Telegram
         /\ ThreadSwitch(a, b) = ThreadSwitch(d, e) => a = d /\ b = e
         /\ ThreadSwitch(a, b) # Definition(d, e)
         /\ ThreadSwitch(a, b) # Default /\ ThreadSwitch(a, b) # Telegram
BY DEF ThreadConnector, ThreadSwitch, Definition, Default, Telegram

LEMMA DefinitionPaths ==
  ASSUME NEW a, NEW b, NEW d, NEW e
  PROVE  /\ Definition(a, b) = Definition(d, e) => a = d /\ b = e
         /\ Definition(a, b) # Default /\ Definition(a, b) # Telegram
         /\ Default # Telegram
BY DEF Definition, Default, Telegram

LEMMA PathsThere ==
  /\ \A f \in Features : Feature(f) \in Paths
  /\ \A field \in {"enabled", "provider", "base_url", "model", "api_key"} : Llm(field) \in Paths
  /\ \A k \in ConnectorNames, field \in {"type", "command", "timeout_seconds"} :
       Definition(k, field) \in Paths
  /\ \A t \in ThreadNames : ThreadConnector(t) \in Paths
  /\ \A t \in ThreadNames, s \in {"watch", "queue"} : ThreadSwitch(t, s) \in Paths
  /\ Default \in Paths /\ Telegram \in Paths
BY DEF Paths

LEMMA DefaultsAreDefault == DefaultLike(DefaultText) /\ DefaultLike(Installed)
<1>1. \A f \in Features \ {"llm_router"} : DefaultText[Feature(f)] = Truth(TRUE)
  BY PathsThere DEF DefaultText
<1>2. DefaultText[Feature("llm_router")] = Truth(FALSE)
  BY PathsThere, FeaturePaths DEF DefaultText, Features
<1>3. /\ DefaultText[Llm("enabled")] = Truth(FALSE)
      /\ DefaultText[Llm("provider")] = Value("string", "openai")
      /\ DefaultText[Llm("base_url")] = Value("string", "api.openai.com")
      /\ DefaultText[Llm("model")] = Value("string", "")
      /\ DefaultText[Llm("api_key")] = Value("string", "")
  BY ZenonT(60), PathsThere, FeaturePaths, LlmPaths DEF DefaultText
<1>4. ASSUME NEW t \in ThreadNames PROVE DefaultText[ThreadConnector(t)] = Absent
  <2>1. \A a, b : /\ ThreadConnector(t) # Feature(a) /\ ThreadConnector(t) # Llm(a)
                  /\ ThreadConnector(t) # ThreadSwitch(a, b) /\ ThreadConnector(t) # Definition(a, b)
                  /\ ThreadConnector(t) # Default /\ ThreadConnector(t) # Telegram
    BY FeaturePaths, LlmPaths, ThreadPaths
  <2>2. QED BY <2>1, PathsThere DEF DefaultText
<1>5. ASSUME NEW t \in ThreadNames, NEW s \in {"watch", "queue"}
      PROVE  DefaultText[ThreadSwitch(t, s)] = IF t # "main" THEN Absent ELSE Truth(s = "queue")
  <2>1. \A a, b : /\ ThreadSwitch(t, s) # Feature(a) /\ ThreadSwitch(t, s) # Llm(a)
                  /\ ThreadSwitch(t, s) = ThreadSwitch(a, b) => t = a /\ s = b
                  /\ ThreadSwitch(t, s) # Definition(a, b)
                  /\ ThreadSwitch(t, s) # Default /\ ThreadSwitch(t, s) # Telegram
    BY FeaturePaths, LlmPaths, ThreadPaths
  <2>2. ThreadSwitch(t, s) \in Paths
    BY PathsThere
  <2>3. CASE t # "main"
    BY <2>1, <2>2, <2>3 DEF DefaultText
  <2>4. CASE t = "main" /\ s = "queue"
    BY <2>1, <2>2, <2>4 DEF DefaultText, Truth
  <2>5. CASE t = "main" /\ s = "watch"
    BY <2>1, <2>2, <2>5 DEF DefaultText, Truth
  <2>6. QED BY <2>3, <2>4, <2>5
<1>6. ASSUME NEW k \in ConnectorNames, NEW field \in {"type", "command", "timeout_seconds"}
      PROVE  DefaultText[Definition(k, field)] =
               IF k = "echo" /\ field = "type" THEN Value("string", "builtin_echo") ELSE Absent
  <2>1. \A a, b : /\ Definition(k, field) # Feature(a) /\ Definition(k, field) # Llm(a)
                  /\ Definition(k, field) # ThreadSwitch(a, b)
                  /\ Definition(k, field) = Definition(a, b) => k = a /\ field = b
                  /\ Definition(k, field) # Default /\ Definition(k, field) # Telegram
    BY FeaturePaths, LlmPaths, ThreadPaths, DefinitionPaths
  <2>2. QED BY <2>1, PathsThere DEF DefaultText
<1>7. DefaultText[Default] = Value("string", "echo") /\ DefaultText[Telegram] = Truth(FALSE)
  BY PathsThere, FeaturePaths, LlmPaths, ThreadPaths, DefinitionPaths DEF DefaultText
<1>8. DefaultLike(DefaultText)
  <2>1. \A b \in BOOLEAN : Truth(b).type = "bool"
    BY DEF Truth, Value
  <2>2. \A word : Value("string", word).type = "string"
    BY DEF Value
  <2>3. \A f \in Features : DefaultText[Feature(f)].type = "bool"
    BY <1>1, <1>2, <2>1
  <2>4. \A field \in {"provider", "base_url", "model", "api_key"} :
          DefaultText[Llm(field)].type = "string"
    BY <1>3, <2>2
  <2>5. DefaultText[Feature("queue")] = Truth(TRUE)
    BY <1>1 DEF Features
  <2>6. /\ DefaultText[ThreadSwitch("main", "watch")] = Truth(FALSE)
        /\ DefaultText[ThreadSwitch("main", "queue")] = Truth(TRUE)
    BY <1>5, NamesAssumption DEF Truth
  <2>7. DefaultText[Definition("echo", "type")] = Value("string", "builtin_echo")
    BY <1>6, NamesAssumption
  <2>8. QED BY <1>3, <1>4, <1>5, <1>6, <1>7, <2>1, <2>3, <2>4, <2>5, <2>6, <2>7 DEF DefaultLike
<1>9. /\ Installed[Telegram] = Truth(TRUE) /\ Truth(TRUE).type = "bool"
      /\ \A p \in Paths : p # Telegram => Installed[p] = DefaultText[p]
  BY PathsThere DEF Installed, DefaultText, Truth, Value
<1>10. DefaultLike(Installed)
  <2>1. /\ \A f \in Features : Installed[Feature(f)] = DefaultText[Feature(f)]
        /\ \A field \in {"enabled", "provider", "base_url", "model", "api_key"} :
             Installed[Llm(field)] = DefaultText[Llm(field)]
    BY <1>9, PathsThere, FeaturePaths, LlmPaths
  <2>2. /\ \A t \in ThreadNames : Installed[ThreadConnector(t)] = DefaultText[ThreadConnector(t)]
        /\ \A t \in ThreadNames, s \in {"watch", "queue"} :
             Installed[ThreadSwitch(t, s)] = DefaultText[ThreadSwitch(t, s)]
    BY <1>9, PathsThere, ThreadPaths
  <2>3. /\ \A k \in ConnectorNames, field \in {"type", "command", "timeout_seconds"} :
             Installed[Definition(k, field)] = DefaultText[Definition(k, field)]
        /\ Installed[Default] = DefaultText[Default]
    BY <1>9, PathsThere, DefinitionPaths
  <2>4. /\ \A f \in Features : Installed[Feature(f)].type = "bool"
        /\ Installed[Feature("queue")] = Truth(TRUE)
        /\ Installed[Llm("enabled")].type = "bool"
    BY <1>8, <2>1 DEF DefaultLike, Features
  <2>5. \A field \in {"provider", "base_url", "model", "api_key"} :
          Installed[Llm(field)].type = "string"
    BY <1>8, <2>1 DEF DefaultLike
  <2>6. /\ \A t \in ThreadNames : Installed[ThreadConnector(t)] = Absent
        /\ \A t \in ThreadNames, s \in {"watch", "queue"} :
             t # "main" => Installed[ThreadSwitch(t, s)] = Absent
        /\ Installed[ThreadSwitch("main", "watch")] = Truth(FALSE)
        /\ Installed[ThreadSwitch("main", "queue")] = Truth(TRUE)
    BY <1>8, <2>2, NamesAssumption DEF DefaultLike
  <2>7. /\ \A k \in ConnectorNames, field \in {"type", "command", "timeout_seconds"} :
             k # "echo" \/ field # "type" => Installed[Definition(k, field)] = Absent
        /\ Installed[Definition("echo", "type")] = Value("string", "builtin_echo")
        /\ Installed[Default] = Value("string", "echo")
    BY <1>8, <2>3, NamesAssumption DEF DefaultLike
  <2>8. QED BY <1>9, <2>4, <2>5, <2>6, <2>7 DEF DefaultLike
<1>11. QED BY <1>8, <1>10

LEMMA DefaultsValid == ASSUME NEW c, DefaultLike(c) PROVE Valid(c)
<1>1. \A p \in Paths : c[p] = Absent \/ c[p].type \in Types(p)
  <2>1. \A f \in Features : Types(Feature(f)) = {"bool"}
    BY DEF Types, Feature
  <2>2. Types(Telegram) = {"bool"} /\ Types(Llm("enabled")) = {"bool"}
    BY DEF Types, Telegram, Llm
  <2>3. /\ \A field \in {"provider", "base_url", "model", "api_key"} : Types(Llm(field)) = {"string"}
        /\ Types(Default) = {"string"}
    BY DEF Types, Llm, Default
  <2>4. Types(Definition("echo", "type")) = {"string"}
    BY DEF Types, Definition
  <2>5. \A t \in ThreadNames, s \in {"watch", "queue"} : Types(ThreadSwitch(t, s)) = {"bool"}
    BY DEF Types, ThreadSwitch
  <2>6. \A b \in BOOLEAN : Truth(b).type = "bool"
    BY DEF Truth, Value
  <2>7. \A word : Value("string", word).type = "string"
    BY DEF Value
  <2>8. ASSUME NEW t \in ThreadNames, NEW s \in {"watch", "queue"}
        PROVE  c[ThreadSwitch(t, s)] = Absent \/ c[ThreadSwitch(t, s)].type = "bool"
    BY <2>6 DEF DefaultLike
  <2>9. ASSUME NEW k \in ConnectorNames, NEW field \in {"type", "command", "timeout_seconds"}
        PROVE  \/ c[Definition(k, field)] = Absent
               \/ Definition(k, field) = Definition("echo", "type")
                  /\ c[Definition(k, field)].type = "string"
    BY <2>7 DEF DefaultLike
  <2>10. QED BY <2>1, <2>2, <2>3, <2>4, <2>5, <2>7, <2>8, <2>9 DEF Paths, DefaultLike
<1>2. \A k \in ConnectorNames : c[Definition(k, "type")] = Absent
                                \/ c[Definition(k, "type")].word = "builtin_echo"
  BY DEF DefaultLike, Value
<1>3. /\ Absent.type = "absent"
      /\ \A type, word : Value(type, word).type = type /\ Value(type, word).word = word
      /\ Truth(TRUE).type = "bool" /\ Truth(TRUE).word = "true"
      /\ Truth(FALSE).type = "bool" /\ Truth(FALSE).word = "false"
  BY DEF Absent, Value, Truth
<1>4. Defined(c) = {"echo"}
  <2>1. c[Definition("echo", "type")] # Absent
    BY <1>3 DEF DefaultLike
  <2>2. \A k \in ConnectorNames, field \in {"type", "command", "timeout_seconds"} :
          k # "echo" => c[Definition(k, field)] = Absent
    BY DEF DefaultLike
  <2>3. {k \in ConnectorNames : \E field \in {"type", "command", "timeout_seconds"} :
           c[Definition(k, field)] # Absent} = {"echo"}
    BY <2>1, <2>2, NamesAssumption
  <2>4. QED BY <2>3 DEF Defined, OrElse
<1>5. ValidConnectors(c)
  BY <1>2, <1>4, NamesAssumption DEF ValidConnectors, DefaultLike, Get, Kind
<1>6. ValidRoutes(c)
  <2>1. Get(c, Default, "echo") = "echo"
    BY DEF Get, DefaultLike, Value
  <2>2. \A t : ~Own(c, t)
    BY <1>3 DEF Own, DefaultLike
  <2>3. QED BY <1>4, <2>1, <2>2 DEF ValidRoutes, ConnectorFor
<1>7. ValidSwitches(c)
  <2>1. /\ \A t \in ThreadNames : t # "main" =>
             c[ThreadConnector(t)] = Absent
             /\ \A s \in {"watch", "queue"} : c[ThreadSwitch(t, s)] = Absent
        /\ c[ThreadSwitch("main", "queue")] # Absent
    BY <1>3 DEF DefaultLike
  <2>2. {t \in ThreadNames :
           \/ c[ThreadConnector(t)] # Absent
           \/ \E s \in {"watch", "queue"} : c[ThreadSwitch(t, s)] # Absent} = {"main"}
    BY <2>1, NamesAssumption
  <2>3. Named(c) = {"main"}
    BY <2>2 DEF Named, OrElse
  <2>4. ~Watches(c, "main")
    BY <1>3 DEF Watches, On, Get, DefaultLike
  <2>5. Enabled(c, "queue")
    BY <1>3 DEF Enabled, On, Get, DefaultLike
  <2>6. QED BY <2>3, <2>4, <2>5 DEF ValidSwitches
<1>8. QED BY <1>1, <1>2, <1>5, <1>6, <1>7 DEF Valid, Typed

----------------------------------------------------------------------------
(* A valid config routes every thread, also one it does not name.             *)
Routes(c) ==
    \A t \in ThreadNames \cup {"elsewhere"} :
       LET k == ConnectorFor(c, t) IN
       /\ k \in Defined(c)
       /\ Kind(c, k) = "json" => Get(c, Definition(k, "command"), "[]") # "[]"

LEMMA ValidRoutesAll == ASSUME NEW c, Valid(c) PROVE Routes(c)
<1>1. /\ Get(c, Default, "echo") \in Defined(c)
      /\ \A t \in Named(c) : ConnectorFor(c, t) \in Defined(c)
      /\ \A k \in Defined(c) : Kind(c, k) = "json" => Get(c, Definition(k, "command"), "[]") # "[]"
  BY DEF Valid, ValidRoutes, ValidConnectors
<1>2. \A t \in ThreadNames : Own(c, t) => t \in Named(c)
  <2>1. ASSUME NEW t \in ThreadNames, Own(c, t) PROVE c[ThreadConnector(t)] # Absent
    <3>1. Absent.type = "absent"
      BY DEF Absent, Value
    <3>2. QED BY <2>1, <3>1 DEF Own
  <2>2. QED BY <2>1 DEF Named, OrElse
<1>3. \A t \in ThreadNames \cup {"elsewhere"} : ConnectorFor(c, t) \in Defined(c)
  BY <1>1, <1>2 DEF ConnectorFor, Own
<1>4. QED BY <1>1, <1>3 DEF Routes

(* What the registry asks for the features a config has on.                   *)
Needs(c) == {Registry[key] : key \in EnabledKeys(c)}

LEMMA KeysAre ==
  ASSUME NEW c, NEW x
  PROVE  x \in EnabledKeys(c) <=>
           \/ x \in {"connector.health", "connector.run", "connector.status",
                     "connector.capabilities"}
           \/ \E f \in Features : Enabled(c, f) /\ x \in KeysOf(f)
           \/ On(c, Llm("enabled"), FALSE) /\ x = "gateway.llm_router"
           \/ On(c, Telegram, FALSE) /\ x = "gateway.telegram"
<1> DEFINE keys == UNION {KeysOf(f) : f \in {f \in Features : Enabled(c, f)}}
           llm == IF On(c, Llm("enabled"), FALSE) THEN {"gateway.llm_router"} ELSE {}
           tel == IF On(c, Telegram, FALSE) THEN {"gateway.telegram"} ELSE {}
<1>1. x \in keys <=> \E f \in Features : Enabled(c, f) /\ x \in KeysOf(f)
  OBVIOUS
<1>2. /\ x \in llm <=> On(c, Llm("enabled"), FALSE) /\ x = "gateway.llm_router"
      /\ x \in tel <=> On(c, Telegram, FALSE) /\ x = "gateway.telegram"
  OBVIOUS
<1>3. EnabledKeys(c) = {"connector.health", "connector.run", "connector.status",
                        "connector.capabilities"} \cup keys \cup llm \cup tel
  BY DEF EnabledKeys
<1> HIDE DEF keys, llm, tel
<1>4. QED BY <1>1, <1>2, <1>3

LEMMA KeysRegistered == ASSUME NEW c PROVE EnabledKeys(c) \subseteq DOMAIN Registry
<1>1. ASSUME NEW f \in Features PROVE KeysOf(f) \subseteq DOMAIN Registry
  BY DEF KeysOf, Features, Registry
<1>2. {"connector.health", "connector.run", "connector.status", "connector.capabilities",
       "gateway.llm_router", "gateway.telegram"} \subseteq DOMAIN Registry
  BY DEF Registry
<1>3. ASSUME NEW x, x \in EnabledKeys(c) PROVE x \in DOMAIN Registry
  <2>1. \/ x \in {"connector.health", "connector.run", "connector.status",
                  "connector.capabilities"}
        \/ \E f \in Features : Enabled(c, f) /\ x \in KeysOf(f)
        \/ x \in {"gateway.llm_router", "gateway.telegram"}
    BY <1>3, KeysAre, Zenon
  <2>2. CASE x \in {"connector.health", "connector.run", "connector.status",
                   "connector.capabilities"} \/ x \in {"gateway.llm_router", "gateway.telegram"}
    BY <1>2, <2>2
  <2>3. CASE \E f \in Features : Enabled(c, f) /\ x \in KeysOf(f)
    BY <1>1, <2>3
  <2>4. QED BY <2>1, <2>2, <2>3
<1>4. QED BY <1>3

(* Each capability connectors are asked for belongs to one feature.           *)
LEMMA NeedsOf ==
  ASSUME NEW c
  PROVE  /\ {"connector.health", "connector.run"} \subseteq Needs(c)
         /\ "threads.cwd" \in Needs(c) <=> Enabled(c, "threads")
         /\ "attachments.images" \in Needs(c) <=> Enabled(c, "images")
         /\ "connector.cancel" \in Needs(c) <=> Enabled(c, "cancel")
         /\ "connector.stream" \in Needs(c) <=> Enabled(c, "watch")
<1>1. ASSUME NEW f \in Features
      PROVE  /\ "threads.cwd" \in KeysOf(f) <=> f = "threads"
             /\ "attachments.images" \in KeysOf(f) <=> f = "images"
             /\ "jobs.cancel" \in KeysOf(f) <=> f = "cancel"
             /\ "threads.watch" \in KeysOf(f) <=> f = "watch"
  BY DEF KeysOf, Features
<1>2. {"threads", "images", "cancel", "watch"} \subseteq Features
  BY DEF Features
<1> DEFINE Asked(x) == \E f \in Features : Enabled(c, f) /\ x \in KeysOf(f)
<1>0. ASSUME NEW x,
             x \notin {"connector.health", "connector.run", "connector.status",
                       "connector.capabilities", "gateway.llm_router", "gateway.telegram"}
      PROVE  x \in EnabledKeys(c) <=> Asked(x)
  <2>1. x # "gateway.llm_router" /\ x # "gateway.telegram"
    BY <1>0
  <2>2. x \notin {"connector.health", "connector.run", "connector.status",
                  "connector.capabilities"}
    BY <1>0
  <2>3. QED BY <2>1, <2>2, KeysAre, Zenon
<1>3. "threads.cwd" \in EnabledKeys(c) <=> Enabled(c, "threads")
  <2>1. "threads.cwd" \in EnabledKeys(c) <=> Asked("threads.cwd")
    BY <1>0
  <2>2. QED BY <1>1, <1>2, <2>1
<1>4. "attachments.images" \in EnabledKeys(c) <=> Enabled(c, "images")
  <2>1. "attachments.images" \in EnabledKeys(c) <=> Asked("attachments.images")
    BY <1>0
  <2>2. QED BY <1>1, <1>2, <2>1
<1>5. "jobs.cancel" \in EnabledKeys(c) <=> Enabled(c, "cancel")
  <2>1. "jobs.cancel" \in EnabledKeys(c) <=> Asked("jobs.cancel")
    BY <1>0
  <2>2. QED BY <1>1, <1>2, <2>1
<1>6. "threads.watch" \in EnabledKeys(c) <=> Enabled(c, "watch")
  <2>1. "threads.watch" \in EnabledKeys(c) <=> Asked("threads.watch")
    BY <1>0
  <2>2. QED BY <1>1, <1>2, <2>1
<1>7. {"connector.health", "connector.run"} \subseteq EnabledKeys(c)
  BY KeysAre
<1>8. \A key \in DOMAIN Registry :
        /\ Registry[key] = "threads.cwd" <=> key = "threads.cwd"
        /\ Registry[key] = "attachments.images" <=> key = "attachments.images"
        /\ Registry[key] = "connector.cancel" <=> key = "jobs.cancel"
        /\ Registry[key] = "connector.stream" <=> key = "threads.watch"
  BY DEF Registry
<1>9. /\ Registry["connector.health"] = "connector.health"
      /\ Registry["connector.run"] = "connector.run"
  BY DEF Registry
<1>10. \A x : x \in Needs(c) <=> \E key \in EnabledKeys(c) : Registry[key] = x
  BY DEF Needs
<1>11. \A key \in EnabledKeys(c) : key \in DOMAIN Registry
  BY KeysRegistered
<1>12. {"threads.cwd", "attachments.images", "jobs.cancel", "threads.watch"} \subseteq DOMAIN Registry
  BY DEF Registry
<1>13. QED BY <1>3, <1>4, <1>5, <1>6, <1>7, <1>8, <1>9, <1>10, <1>11, <1>12

Follows(c) ==
    /\ EnabledKeys(c) \subseteq DOMAIN Registry
    /\ \A k \in Defined(c) : Required(c, k) \subseteq Needs(c)
    /\ \A reports \in Reports, t \in Named(c) :
         LET k == ConnectorFor(c, t)
             offers == IF Kind(c, k) = "json" THEN reports[k] ELSE EchoCapabilities
         IN CheckAll(c, Ill, reports) =>
              \/ offers = {}
              \/ /\ Needs(c) \cap {"threads.cwd", "attachments.images", "connector.cancel"}
                     \subseteq offers
                 /\ Watches(c, t) => "connector.stream" \in offers

LEMMA ValidFollows == ASSUME NEW c, Valid(c) PROVE Follows(c)
<1>1. ASSUME NEW k \in Defined(c) PROVE Required(c, k) \subseteq Needs(c)
  <2>1. ASSUME NEW t \in Selecting(c, k), Watches(c, t) PROVE Enabled(c, "watch")
    BY <2>1 DEF Selecting, Valid, ValidSwitches
  <2>2. QED BY <2>1, NeedsOf DEF Required
<1>2. ASSUME NEW t \in Named(c), NEW k, k = ConnectorFor(c, t)
      PROVE  /\ k \in Defined(c)
             /\ Needs(c) \cap {"threads.cwd", "attachments.images", "connector.cancel"}
                   \subseteq Required(c, k)
             /\ Watches(c, t) => "connector.stream" \in Required(c, k)
  <2>1. k \in Defined(c)
    BY <1>2 DEF Valid, ValidRoutes
  <2>2. t \in Selecting(c, k)
    BY <1>2 DEF Selecting
  <2>3. Watches(c, t) => "connector.stream" \in Required(c, k)
    BY <2>2 DEF Required
  <2>4. /\ Enabled(c, "threads") => "threads.cwd" \in Required(c, k)
        /\ Enabled(c, "images") => "attachments.images" \in Required(c, k)
        /\ Enabled(c, "cancel") => "connector.cancel" \in Required(c, k)
    <3> DEFINE n == {<<"threads", "threads.cwd">>, <<"images", "attachments.images">>,
                     <<"cancel", "connector.cancel">>}
    <3>1. ASSUME NEW m \in n, Enabled(c, m[1]) PROVE m[2] \in Required(c, k)
      BY <2>2, <3>1 DEF Required
    <3>2. /\ <<"threads", "threads.cwd">> \in n /\ <<"images", "attachments.images">> \in n
          /\ <<"cancel", "connector.cancel">> \in n
      OBVIOUS
    <3> HIDE DEF n
    <3>3. QED BY <3>1, <3>2
  <2>5. QED BY <2>1, <2>3, <2>4, NeedsOf
<1>3. ASSUME NEW reports \in Reports, NEW t \in Named(c), NEW k, k = ConnectorFor(c, t),
             CheckAll(c, Ill, reports),
             NEW offers, offers = IF Kind(c, k) = "json" THEN reports[k] ELSE EchoCapabilities
      PROVE  offers = {} \/ Required(c, k) \subseteq offers
  BY <1>2, <1>3 DEF CheckAll, Suffices
<1>4. QED BY <1>1, <1>2, <1>3, KeysRegistered DEF Follows

----------------------------------------------------------------------------
(* What an edit makes of a text.                                              *)
EditsOK(edits) ==
    /\ DOMAIN edits \subseteq {1, 2, 3}
    /\ \A i \in DOMAIN edits : edits[i][2] \in Raws
    /\ \A i, k \in DOMAIN edits : edits[i][1] = edits[k][1] => i = k

LEMMA EditedIs ==
  ASSUME NEW text \in Texts, NEW edits, EditsOK(edits)
  PROVE  /\ Edited(text, edits) \in Texts
         /\ \A p \in Paths :
              \/ /\ \A i \in DOMAIN edits : ~Touches(edits[i][1], p)
                 /\ Edited(text, edits)[p] = text[p]
              \/ \E i \in DOMAIN edits :
                    /\ Touches(edits[i][1], p)
                    /\ Edited(text, edits)[p] =
                         IF p = edits[i][1] THEN Scalar(edits[i][2]) ELSE Mistyped
<1> DEFINE hits(p) == {i \in DOMAIN edits : Touches(edits[i][1], p)}
           last(p) == CHOOSE i \in hits(p) : \A k \in hits(p) : k <= i
<1>1. ASSUME NEW p \in Paths, hits(p) # {} PROVE last(p) \in hits(p)
  <2>1. hits(p) \subseteq {1, 2, 3}
    BY DEF EditsOK
  <2>2. \E i \in hits(p) : \A k \in hits(p) : k <= i
    BY <1>1, <2>1
  <2>3. QED BY <2>2
<1>2. Edited(text, edits) =
        [p \in Paths |-> IF hits(p) = {} THEN text[p]
                         ELSE Put(text, edits[last(p)][1], edits[last(p)][2])[p]]
  BY DEF Edited
<1> HIDE DEF last
<1>3. ASSUME NEW p \in Paths, NEW i \in hits(p)
      PROVE  Put(text, edits[i][1], edits[i][2])[p] =
               IF p = edits[i][1] THEN Scalar(edits[i][2]) ELSE Mistyped
  BY DEF Put
<1>4. ASSUME NEW p \in Paths
      PROVE  \/ /\ \A i \in DOMAIN edits : ~Touches(edits[i][1], p)
                /\ Edited(text, edits)[p] = text[p]
             \/ \E i \in DOMAIN edits :
                   /\ Touches(edits[i][1], p)
                   /\ Edited(text, edits)[p] =
                        IF p = edits[i][1] THEN Scalar(edits[i][2]) ELSE Mistyped
  <2>1. CASE hits(p) = {}
    <3>1. Edited(text, edits)[p] = text[p]
      BY <1>2, <2>1
    <3>2. \A i \in DOMAIN edits : ~Touches(edits[i][1], p)
      BY <2>1
    <3>3. QED BY <3>1, <3>2
  <2>2. CASE hits(p) # {}
    <3>1. last(p) \in DOMAIN edits /\ Touches(edits[last(p)][1], p)
      BY <1>1, <2>2
    <3>2. Edited(text, edits)[p] = Put(text, edits[last(p)][1], edits[last(p)][2])[p]
      BY <1>2, <2>2
    <3>3. Edited(text, edits)[p] =
            IF p = edits[last(p)][1] THEN Scalar(edits[last(p)][2]) ELSE Mistyped
      BY <1>1, <1>3, <2>2, <3>2
    <3>4. QED BY <3>1, <3>3
  <2>3. QED BY <2>1, <2>2
<1>5. ASSUME NEW p \in Paths PROVE Edited(text, edits)[p] \in Values
  <2>1. text[p] \in Values /\ Mistyped \in Values
    BY DEF Texts, Values
  <2>2. \A i \in DOMAIN edits : Scalar(edits[i][2]) \in Values
    BY DEF EditsOK, Values
  <2>3. QED BY <1>4, <2>1, <2>2
<1>6. Edited(text, edits) \in Texts
  <2>1. Edited(text, edits) = [p \in Paths |-> Edited(text, edits)[p]]
    BY <1>2
  <2>2. QED BY <1>5, <2>1 DEF Texts
<1>7. QED BY <1>4, <1>6

(* An edit that leaves a valid config has taken nothing's place: what it set  *)
(* is there and nothing else has changed.                                     *)
LEMMA EditedValid ==
  ASSUME NEW text \in Texts, NEW edits, EditsOK(edits), Valid(Edited(text, edits))
  PROVE  /\ \A i \in DOMAIN edits :
              edits[i][1] \in Paths => Edited(text, edits)[edits[i][1]] = Scalar(edits[i][2])
         /\ \A p \in Paths \ Written(edits) : Edited(text, edits)[p] = text[p]
<1>1. ASSUME NEW p \in Paths PROVE Edited(text, edits)[p] # Mistyped
  <2>1. Mistyped # Absent /\ Mistyped.type = "mapping"
    BY DEF Mistyped, Absent, Value
  <2>2. "mapping" \notin Types(p)
    BY DEF Types
  <2>3. Edited(text, edits)[p] = Absent \/ Edited(text, edits)[p].type \in Types(p)
    BY DEF Valid, Typed
  <2>4. QED BY <2>1, <2>2, <2>3
<1>2. ASSUME NEW p \in Paths
      PROVE  \/ /\ \A i \in DOMAIN edits : ~Touches(edits[i][1], p)
                /\ Edited(text, edits)[p] = text[p]
             \/ \E i \in DOMAIN edits : /\ p = edits[i][1]
                                        /\ Edited(text, edits)[p] = Scalar(edits[i][2])
  BY <1>1, EditedIs
<1>3. ASSUME NEW i \in DOMAIN edits, edits[i][1] \in Paths
      PROVE  Edited(text, edits)[edits[i][1]] = Scalar(edits[i][2])
  <2>1. Touches(edits[i][1], edits[i][1])
    BY DEF Touches
  <2>2. PICK k \in DOMAIN edits : /\ edits[i][1] = edits[k][1]
                                  /\ Edited(text, edits)[edits[i][1]] = Scalar(edits[k][2])
    BY <1>2, <1>3, <2>1
  <2>3. QED BY <2>2 DEF EditsOK
<1>4. ASSUME NEW p \in Paths \ Written(edits) PROVE Edited(text, edits)[p] = text[p]
  BY <1>2 DEF Written
<1>5. QED BY <1>3, <1>4

----------------------------------------------------------------------------
LEMMA CatalogNames ==
  ASSUME NEW known \in Catalogs, NEW p \in DOMAIN known
  PROVE  p \in Strings /\ known[p].url \in Strings /\ known[p].models \subseteq Strings
<1>1. PICK names \in SUBSET Providers : known \in [names -> Entry]
  BY SettingsAssumption DEF Catalog
<1>2. p \in Providers /\ known[p] \in Entry
  BY <1>1
<1>3. known[p].url \in Urls /\ known[p].models \subseteq Models
  BY <1>2 DEF Entry
<1>4. QED BY <1>2, <1>3, NamesAssumption

(* A model that is taken for a word belongs to the provider as what the word  *)
(* reads as too, where that is a name at all.                                 *)
LEMMA ModelTaken ==
  ASSUME NEW known \in Catalogs, NEW p, NEW m \in Raws, ModelOrCustom(known, p, m)
  PROVE  ModelOrCustom(known, p, Scalar(m).word)
<1>1. CASE known[p].custom
  BY <1>1 DEF ModelOrCustom
<1>2. CASE m \in known[p].models
  <2>1. m \in Strings
    BY <1>2, CatalogNames DEF ModelOrCustom
  <2>2. Scalar(m).word = m
    BY <2>1, NamesAssumption DEF Scalar, Value
  <2>3. QED BY <1>2, <2>2 DEF ModelOrCustom
<1>3. QED BY <1>1, <1>2 DEF ModelOrCustom

Chosen(edits) ==
    \E known \in Catalogs, m \in Raws : \E p \in DOMAIN known :
       /\ ModelOrCustom(known, p, m)
       /\ edits = <<<<Llm("provider"), p>>, <<Llm("base_url"), known[p].url>>,
                    <<Llm("model"), m>>>>

LEMMA ChosenOK ==
  ASSUME NEW edits, Chosen(edits)
  PROVE  EditsOK(edits) /\ Written(edits) = Selection
<1>1. PICK known \in Catalogs, m \in Raws : \E p \in DOMAIN known :
         /\ ModelOrCustom(known, p, m)
         /\ edits = <<<<Llm("provider"), p>>, <<Llm("base_url"), known[p].url>>,
                      <<Llm("model"), m>>>>
  BY DEF Chosen
<1>2. PICK p \in DOMAIN known :
         edits = <<<<Llm("provider"), p>>, <<Llm("base_url"), known[p].url>>, <<Llm("model"), m>>>>
  BY <1>1
<1>3. p \in Raws /\ known[p].url \in Raws
  BY CatalogNames DEF Raws
<1>4. /\ DOMAIN edits = {1, 2, 3}
      /\ edits[1] = <<Llm("provider"), p>> /\ edits[2] = <<Llm("base_url"), known[p].url>>
      /\ edits[3] = <<Llm("model"), m>>
  BY <1>2
<1>5. /\ Llm("provider") # Llm("base_url") /\ Llm("provider") # Llm("model")
      /\ Llm("base_url") # Llm("model")
  BY LlmPaths
<1>6. EditsOK(edits)
  BY <1>3, <1>4, <1>5 DEF EditsOK
<1>7. Written(edits) = Selection
  BY <1>4 DEF Written, Selection
<1>8. QED BY <1>6, <1>7

LEMMA ChosenFits ==
  ASSUME NEW edits, Chosen(edits), NEW text,
         \A i \in DOMAIN edits : text[edits[i][1]] = Scalar(edits[i][2])
  PROVE  Fits(text)
<1>1. PICK known \in Catalogs, m \in Raws : \E p \in DOMAIN known :
         /\ ModelOrCustom(known, p, m)
         /\ edits = <<<<Llm("provider"), p>>, <<Llm("base_url"), known[p].url>>,
                      <<Llm("model"), m>>>>
  BY DEF Chosen
<1>2. PICK p \in DOMAIN known :
         /\ ModelOrCustom(known, p, m)
         /\ edits = <<<<Llm("provider"), p>>, <<Llm("base_url"), known[p].url>>, <<Llm("model"), m>>>>
  BY <1>1
<1>3. p \in Strings /\ known[p].url \in Strings
  BY CatalogNames
<1>4. /\ DOMAIN edits = {1, 2, 3}
      /\ edits[1] = <<Llm("provider"), p>> /\ edits[2] = <<Llm("base_url"), known[p].url>>
      /\ edits[3] = <<Llm("model"), m>>
  BY <1>2
<1>5. /\ text[Llm("provider")] = Scalar(p) /\ text[Llm("base_url")] = Scalar(known[p].url)
      /\ text[Llm("model")] = Scalar(m)
  BY <1>4
<1>6. \A w \in Strings : Scalar(w) = Value("string", w)
  BY NamesAssumption DEF Scalar
<1>7. \A w : Scalar(w) # Absent
  BY DEF Scalar, Value, Absent
<1>8. /\ Get(text, Llm("provider"), "openai") = p
      /\ Get(text, Llm("base_url"), "api.openai.com") = known[p].url
      /\ Get(text, Llm("model"), "") = Scalar(m).word
  <2>1. \A w \in Strings : Scalar(w).word = w
    BY <1>6 DEF Value
  <2>2. QED BY <1>3, <1>5, <1>7, <2>1 DEF Get
<1>9. ModelOrCustom(known, p, Scalar(m).word)
  BY <1>2, ModelTaken
<1>10. QED BY <1>8, <1>9 DEF Fits, Provider, Model

(* /model: the edit of a file whose selection fits.                           *)
LEMMA ModelFits ==
  ASSUME NEW text, NEW old, Fits(old), NEW known \in Catalogs, NEW m \in Raws,
         ModelOrCustom(known, Provider(old), m), text[Llm("model")] = Scalar(m),
         text[Llm("provider")] = old[Llm("provider")],
         text[Llm("base_url")] = old[Llm("base_url")]
  PROVE  Fits(text)
<1>1. \A w : Scalar(w) # Absent
  BY DEF Scalar, Value, Absent
<1>2. Model(text) = Scalar(m).word
  BY <1>1 DEF Model, Get
<1>3. ModelOrCustom(known, Provider(old), Scalar(m).word)
  BY ModelTaken
<1>4. Provider(text) = Provider(old)
      /\ Get(text, Llm("base_url"), "api.openai.com") = Get(old, Llm("base_url"), "api.openai.com")
  BY DEF Provider, Get
<1>5. QED BY <1>2, <1>3, <1>4 DEF Fits

----------------------------------------------------------------------------
(* The inductive invariant. An edit that has read the file and has not been   *)
(* overtaken holds what the file holds but for what it sets; what the handler *)
(* sets was checked against a config that is still the file's.                *)
TypeInv ==
    /\ file \in Texts \cup {None, Garbage} /\ catalog \in Catalogs \cup {None}
    /\ snapshot \in Texts /\ Valid(snapshot)
    /\ active # None => active \in Texts /\ Valid(active)
    /\ changed \in BOOLEAN /\ stale \subseteq Editors /\ writes \in 0..MaxWrites
    /\ mixed \in BOOLEAN

EditorsInv ==
    /\ ed = [e \in Editors |-> [stage |-> ed[e].stage, edits |-> ed[e].edits,
                                text |-> ed[e].text]]
    /\ \A e \in Editors : /\ ed[e].stage \in Stages /\ ed[e].text \in Texts \cup {None}
                          /\ EditsOK(ed[e].edits)

WriteInv(e) ==
    ed[e].stage = "write" =>
    /\ ed[e].text \in Texts /\ Valid(ed[e].text)
    /\ \A i \in DOMAIN ed[e].edits : ed[e].edits[i][1] \in Paths =>
         ed[e].text[ed[e].edits[i][1]] = Scalar(ed[e].edits[i][2])
    /\ e \notin stale =>
         file \in Texts /\ \A p \in Paths \ Written(ed[e].edits) : ed[e].text[p] = file[p]

LoadedInv ==
    ed["handler"].stage = "loaded" => active # None /\ (~changed => active = file)

ModelOnly(edits) ==
    \E m \in Raws : /\ edits = <<<<Llm("model"), m>>>>
                    /\ ~changed => \E known \in Catalogs : ModelOrCustom(known, Provider(file), m)

KindInv ==
    /\ ed["cli"].stage \in {"read", "write"} =>
         \E path, w : ed["cli"].edits = <<<<path, w>>>>
    /\ ed["handler"].stage \in {"read", "write"} =>
         \/ Chosen(ed["handler"].edits) \/ ModelOnly(ed["handler"].edits)
         \/ Selection \cap Written(ed["handler"].edits) = {}

AckInv == \A a \in acked : a[1] \in Paths /\ file \in Texts /\ file[a[1]] = a[2]
FitInv == file \in Texts => mixed \/ Fits(file)

SettingsInv == /\ TypeInv /\ EditorsInv /\ (\A e \in Editors : WriteInv(e))
               /\ LoadedInv /\ KindInv /\ AckInv /\ FitInv

LEMMA EditorSet ==
  ASSUME EditorsInv, NEW e \in Editors, NEW s \in Stages, NEW x, EditsOK(x),
         NEW t \in Texts \cup {None},
         ed' = [ed EXCEPT ![e] = [stage |-> s, edits |-> x, text |-> t]]
  PROVE  /\ EditorsInv'
         /\ ed'[e].stage = s /\ ed'[e].edits = x /\ ed'[e].text = t
         /\ \A d \in Editors \ {e} : ed'[d] = ed[d]
<1>1. DOMAIN ed = Editors
  BY DEF EditorsInv
<1>2. /\ ed' = [d \in Editors |-> IF d = e THEN [stage |-> s, edits |-> x, text |-> t] ELSE ed[d]]
      /\ ed'[e] = [stage |-> s, edits |-> x, text |-> t]
      /\ \A d \in Editors \ {e} : ed'[d] = ed[d]
  BY <1>1
<1>3. ed'[e].stage = s /\ ed'[e].edits = x /\ ed'[e].text = t
  BY <1>2
<1>4. \A d \in Editors : ed[d] = [stage |-> ed[d].stage, edits |-> ed[d].edits, text |-> ed[d].text]
  BY DEF EditorsInv
<1>5. \A d \in Editors :
         ed'[d] = [stage |-> ed'[d].stage, edits |-> ed'[d].edits, text |-> ed'[d].text]
  BY <1>2, <1>3, <1>4
<1>6. ed' = [d \in Editors |-> [stage |-> ed'[d].stage, edits |-> ed'[d].edits,
                                text |-> ed'[d].text]]
  BY <1>2, <1>5
<1>7. \A d \in Editors : /\ ed'[d].stage \in Stages /\ ed'[d].text \in Texts \cup {None}
                         /\ EditsOK(ed'[d].edits)
  BY <1>2, <1>3 DEF EditorsInv
<1>8. QED BY <1>2, <1>3, <1>6, <1>7 DEF EditorsInv

LEMMA NoEdits == EditsOK(<<>>)
BY DEF EditsOK

LEMMA Idling ==
  /\ Idle = [stage |-> "idle", edits |-> <<>>, text |-> None]
  /\ [Idle EXCEPT !.stage = "loaded"] = [stage |-> "loaded", edits |-> <<>>, text |-> None]
BY DEF Idle

LEMMA DefaultTyped == DefaultText \in Texts
<1>1. \A w \in {"", "echo", "builtin_echo", "openai", "api.openai.com"} : Scalar(w) = Value("string", w)
  BY NamesAssumption DEF Scalar
<1>2. {"", "echo", "builtin_echo", "openai", "api.openai.com"} \subseteq Raws
  BY NamesAssumption DEF Raws
<1>3. {Value("string", w) : w \in {"", "echo", "builtin_echo", "openai", "api.openai.com"}} \subseteq Values
  BY <1>1, <1>2 DEF Values
<1>4. Truth(TRUE) \in Values /\ Truth(FALSE) \in Values /\ Absent \in Values
  BY DEF Truth, Value, Values, Raws, Scalar
<1>5. QED BY <1>3, <1>4 DEF DefaultText, Texts

LEMMA DefaultSelection ==
  /\ Installed[Llm("provider")] = Value("string", "openai")
  /\ Installed[Llm("base_url")] = Value("string", "api.openai.com")
  /\ Installed[Llm("model")] = Value("string", "")
<1>1. \A field \in {"provider", "base_url", "model"} :
        Installed[Llm(field)] = DefaultText[Llm(field)]
  BY PathsThere, LlmPaths DEF Installed, DefaultText
<1>2. /\ DefaultText[Llm("provider")] = Value("string", "openai")
      /\ DefaultText[Llm("base_url")] = Value("string", "api.openai.com")
      /\ DefaultText[Llm("model")] = Value("string", "")
  BY PathsThere, FeaturePaths, LlmPaths DEF DefaultText
<1>3. QED BY <1>1, <1>2

LEMMA InitKeeps == Init => SettingsInv
<1> SUFFICES ASSUME Init PROVE SettingsInv
  OBVIOUS
<1>1. Valid(Installed)
  BY DefaultsAreDefault, DefaultsValid
<1>2. Installed \in Texts
  <2>1. DefaultText \in Texts
    BY DefaultTyped
  <2>2. Truth(TRUE) \in Values
    BY DEF Truth, Value, Values, Raws, Scalar
  <2>3. QED BY <2>1, <2>2 DEF Installed, Texts
<1>3. Fits(Installed)
  <2>1. /\ Installed[Llm("provider")] = Value("string", "openai")
        /\ Installed[Llm("base_url")] = Value("string", "api.openai.com")
        /\ Installed[Llm("model")] = Value("string", "")
    BY DefaultSelection
  <2>2. \A w : Value("string", w) # Absent
    BY DEF Value, Absent
  <2>3. \A w : Value("string", w).word = w
    BY DEF Value
  <2>4. /\ Get(Installed, Llm("provider"), "openai") = "openai"
        /\ Get(Installed, Llm("base_url"), "api.openai.com") = "api.openai.com"
        /\ Get(Installed, Llm("model"), "") = ""
    BY <2>1, <2>2, <2>3 DEF Get
  <2>5. QED BY <2>4, SettingsAssumption DEF Fits, Provider, Model
<1>4. TypeInv
  <2>1. 0 \in 0..MaxWrites
    BY SettingsAssumption
  <2>2. QED BY <1>1, <1>2, <2>1 DEF Init, TypeInv
<1>5. /\ ed = [e \in Editors |-> [stage |-> "idle", edits |-> <<>>, text |-> None]]
      /\ \A e \in Editors : ed[e].stage = "idle" /\ ed[e].edits = <<>> /\ ed[e].text = None
  BY Idling DEF Init
<1>6. EditorsInv
  BY <1>5, NoEdits DEF EditorsInv, Stages
<1>7. (\A e \in Editors : WriteInv(e)) /\ LoadedInv /\ KindInv
  BY <1>5 DEF WriteInv, LoadedInv, KindInv, Editors
<1>8. AckInv /\ FitInv
  BY <1>3 DEF Init, AckInv, FitInv
<1>9. QED BY <1>4, <1>6, <1>7, <1>8 DEF SettingsInv

LEMMA MessageKeeps == SettingsInv /\ Message => SettingsInv'
<1> SUFFICES ASSUME SettingsInv, Message PROVE SettingsInv'
  OBVIOUS
<1> USE DEF SettingsInv
<1>1. snapshot \notin {None, Garbage}
  BY SettingsAssumption DEF TypeInv
<1>2. active' \in Texts /\ Valid(active') /\ active' # None
  <2>1. Usable(snapshot)
    BY <1>1 DEF Usable, TypeInv
  <2>2. Usable(file) => file \in Texts /\ Valid(file)
    BY DEF Usable, TypeInv
  <2>3. QED BY <1>1, <2>1, <2>2 DEF Message, Loaded, TypeInv, Usable
<1>3. TypeInv'
  BY <1>2 DEF Message, TypeInv
<1>4. "handler" \in Editors /\ "loaded" \in Stages
  BY DEF Editors, Stages
<1>5. /\ EditorsInv'
      /\ ed'["handler"].stage = "loaded"
      /\ \A d \in Editors \ {"handler"} : ed'[d] = ed[d]
  <2>1. ed' = [ed EXCEPT !["handler"] = [stage |-> "loaded", edits |-> <<>>, text |-> None]]
    BY Idling DEF Message
  <2>2. QED BY <1>4, <2>1, NoEdits, EditorSet
<1>6. (\A e \in Editors : WriteInv(e))'
  BY <1>5 DEF WriteInv, Message
<1>7. LoadedInv'
  BY <1>2, <1>5 DEF LoadedInv, Message
<1>8. KindInv'
  BY <1>5 DEF KindInv, Editors
<1>9. AckInv' /\ FitInv'
  BY DEF AckInv, FitInv, Message
<1>10. QED BY <1>3, <1>5, <1>6, <1>7, <1>8, <1>9

LEMMA GivesUpKeeps == ASSUME SettingsInv, NEW e \in Editors, GivesUp(e) PROVE SettingsInv'
<1> USE DEF SettingsInv
<1>1. TypeInv'
  BY DEF GivesUp, Unloads, TypeInv
<1>2. /\ EditorsInv'
      /\ ed'[e].stage = "idle"
      /\ \A d \in Editors \ {e} : ed'[d] = ed[d]
  BY NoEdits, Idling, EditorSet DEF GivesUp, Stages
<1>3. (\A d \in Editors : WriteInv(d))'
  BY <1>2 DEF WriteInv, GivesUp
<1>4. LoadedInv'
  BY <1>2 DEF LoadedInv, GivesUp, Unloads, Editors
<1>5. KindInv'
  <2>1. CASE e = "cli"
    <3>1. (~changed' => ~changed) /\ file' = file
      BY <2>1 DEF GivesUp
    <3>2. \A x : ModelOnly(x) => ModelOnly(x)'
      BY <3>1 DEF ModelOnly
    <3>3. QED BY <1>2, <2>1, <3>2 DEF KindInv, Editors
  <2>2. CASE e = "handler"
    BY <1>2, <2>2 DEF KindInv, Editors
  <2>3. QED BY <2>1, <2>2 DEF Editors
<1>6. AckInv' /\ FitInv'
  BY DEF AckInv, FitInv, GivesUp
<1>7. QED BY <1>1, <1>2, <1>3, <1>4, <1>5, <1>6

LEMMA BeginsKeeps ==
  ASSUME SettingsInv, NEW e \in Editors, NEW edits, EditsOK(edits), Begins(e, edits),
         e = "cli" => \E path, w : edits = <<<<path, w>>>>,
         e = "handler" => \/ Chosen(edits) \/ ModelOnly(edits)
                          \/ Selection \cap Written(edits) = {}
  PROVE  SettingsInv'
<1> USE DEF SettingsInv
<1>1. TypeInv'
  BY DEF Begins, Unloads, TypeInv
<1>2. /\ EditorsInv'
      /\ ed'[e].stage = "read" /\ ed'[e].edits = edits
      /\ \A d \in Editors \ {e} : ed'[d] = ed[d]
  BY EditorSet DEF Begins, Stages
<1>3. (\A d \in Editors : WriteInv(d))'
  BY <1>2 DEF WriteInv, Begins
<1>4. LoadedInv'
  BY <1>2 DEF LoadedInv, Begins, Unloads, Editors
<1>5. KindInv'
  <2>1. \A x : ModelOnly(x) => ModelOnly(x)'
    BY DEF ModelOnly, Begins
  <2>2. QED BY <1>2, <2>1 DEF KindInv, Editors
<1>6. AckInv' /\ FitInv'
  BY DEF AckInv, FitInv, Begins
<1>7. QED BY <1>1, <1>2, <1>3, <1>4, <1>5, <1>6

LEMMA ReadKeeps == ASSUME SettingsInv, NEW e \in Editors, Read(e) PROVE SettingsInv'
<1> USE DEF SettingsInv
<1> DEFINE edits == ed[e].edits
           text == Edited(file, edits)
<1>1. file \in Texts /\ EditsOK(edits) /\ Valid(text)
  BY DEF Read, Acceptable, Usable, TypeInv, EditorsInv
<1>2. text \in Texts
  BY <1>1, EditedIs
<1>3. ed' = [ed EXCEPT ![e] = [stage |-> "write", edits |-> edits, text |-> text]]
  BY DEF Read, EditorsInv
<1>4. /\ EditorsInv'
      /\ ed'[e].stage = "write" /\ ed'[e].edits = edits /\ ed'[e].text = text
      /\ \A d \in Editors \ {e} : ed'[d] = ed[d]
  BY ZenonT(60), <1>1, <1>2, <1>3, EditorSet DEF Stages
<1>5. /\ \A i \in DOMAIN edits : edits[i][1] \in Paths => text[edits[i][1]] = Scalar(edits[i][2])
      /\ \A p \in Paths \ Written(edits) : text[p] = file[p]
  BY <1>1, EditedValid
<1> HIDE DEF edits, text
<1>6. TypeInv'
  BY DEF Read, TypeInv
<1>7. (\A d \in Editors : WriteInv(d))'
  <2>1. file' = file /\ stale' = stale
    BY DEF Read
  <2>2. WriteInv(e)'
    BY <1>1, <1>2, <1>4, <1>5, <2>1 DEF WriteInv
  <2>3. ASSUME NEW d \in Editors \ {e} PROVE WriteInv(d)'
    BY <1>4, <2>1 DEF WriteInv
  <2>4. QED BY <2>2, <2>3
<1>8. LoadedInv'
  BY <1>4 DEF LoadedInv, Read, Editors
<1>9. KindInv'
  <2>1. \A x : ModelOnly(x) => ModelOnly(x)'
    BY DEF ModelOnly, Read
  <2>2. ed[e].stage = "read" /\ edits = ed[e].edits
    BY DEF Read, edits
  <2>3. QED BY <1>4, <2>1, <2>2 DEF KindInv, Editors
<1>10. AckInv' /\ FitInv'
  BY DEF AckInv, FitInv, Read
<1>11. QED BY <1>4, <1>6, <1>7, <1>8, <1>9, <1>10

LEMMA WriteKeeps == ASSUME SettingsInv, NEW e \in Editors, Write(e) PROVE SettingsInv'
<1> USE DEF SettingsInv
<1> DEFINE edits == ed[e].edits
           text == ed[e].text
<1>1. /\ file' = text /\ text \in Texts /\ Valid(text)
      /\ \A i \in DOMAIN edits : edits[i][1] \in Paths => text[edits[i][1]] = Scalar(edits[i][2])
      /\ e \notin stale =>
           file \in Texts /\ \A p \in Paths \ Written(edits) : text[p] = file[p]
  BY DEF Write, WriteInv
<1>2. /\ writes' \in 0..MaxWrites /\ stale' = {d \in Editors \ {e} : ed[d].stage = "write"}
      /\ changed' = (e # "handler" /\ ed["handler"].stage # "idle")
  <2>1. writes < MaxWrites /\ writes' = writes + 1 /\ writes \in 0..MaxWrites
    BY DEF Write, Overtakes, TypeInv
  <2>2. QED BY <2>1, SettingsAssumption DEF Write, Overtakes
<1>3. /\ acked' = {a \in acked : e \notin stale /\ a[1] \notin Written(edits)}
                  \cup {<<edits[i][1], Scalar(edits[i][2])>> :
                           i \in {i \in DOMAIN edits : edits[i][1] \in Paths}}
      /\ mixed' = IF Selection \subseteq Written(edits) THEN FALSE
                  ELSE \/ mixed \/ e \in stale
                       \/ Selection \cap Written(edits) # {} /\ (e = "cli" \/ changed)
      /\ snapshot' = IF e = "cli" THEN text ELSE snapshot
      /\ UNCHANGED <<catalog, active>>
  BY DEF Write
<1>4. ed[e].stage = "write"
  BY DEF Write
<1>5. /\ EditorsInv'
      /\ ed'[e].stage = "idle"
      /\ \A d \in Editors \ {e} : ed'[d] = ed[d]
  BY NoEdits, Idling, EditorSet DEF Write, Stages
<1>6. edits = ed[e].edits /\ EditsOK(edits)
  BY DEF EditorsInv
<1> HIDE DEF edits, text
<1>7. TypeInv'
  <2>1. mixed' \in BOOLEAN /\ changed' \in BOOLEAN /\ stale' \subseteq Editors
    BY <1>2, <1>3 DEF TypeInv
  <2>2. QED BY <1>1, <1>2, <1>3, <2>1 DEF TypeInv
<1>8. (\A d \in Editors : WriteInv(d))'
  <2>1. ASSUME NEW d \in Editors, d # e, ed[d].stage = "write" PROVE d \in stale'
    BY <1>2, <2>1
  <2>2. ASSUME NEW d \in Editors PROVE WriteInv(d)'
    BY <1>5, <2>1 DEF WriteInv
  <2>3. QED BY <2>2
<1>9. ASSUME e = "cli", ed["handler"].stage # "idle" PROVE changed'
  BY <1>2, <1>9
<1>10. LoadedInv'
  BY <1>3, <1>5, <1>9 DEF LoadedInv, Editors
<1>11. KindInv'
  <2>1. ASSUME changed', NEW x, ModelOnly(x) PROVE ModelOnly(x)'
    BY <2>1 DEF ModelOnly
  <2>2. QED BY <1>5, <1>9, <2>1 DEF KindInv, Editors
<1>12. AckInv'
  <2>1. ASSUME NEW a \in acked, e \notin stale, a[1] \notin Written(edits)
        PROVE  a[1] \in Paths /\ text[a[1]] = a[2]
    BY <1>1, <2>1 DEF AckInv
  <2>2. ASSUME NEW i \in DOMAIN edits, edits[i][1] \in Paths
        PROVE  text[edits[i][1]] = Scalar(edits[i][2])
    BY <1>1, <2>2
  <2>3. QED BY <1>1, <1>3, <2>1, <2>2 DEF AckInv
<1>13. ASSUME ~mixed' PROVE Fits(text)
  <2>1. CASE Selection \subseteq Written(edits)
    <3>1. Chosen(edits)
      <4>1. CASE e = "cli"
        <5>1. PICK path, w : edits = <<<<path, w>>>>
          BY <1>4, <1>6, <4>1 DEF KindInv
        <5>2. Written(edits) = {path}
          BY <5>1 DEF Written
        <5>3. Llm("provider") # Llm("model")
          BY LlmPaths
        <5>4. QED BY <2>1, <5>2, <5>3 DEF Selection
      <4>2. CASE e = "handler"
        <5>1. \/ Chosen(edits) \/ ModelOnly(edits) \/ Selection \cap Written(edits) = {}
          BY <1>4, <1>6, <4>2 DEF KindInv
        <5>2. Selection \cap Written(edits) # {}
          BY <2>1 DEF Selection
        <5>3. ~ModelOnly(edits)
          <6>1. ASSUME NEW m, edits = <<<<Llm("model"), m>>>>
                PROVE  Written(edits) = {Llm("model")}
            BY <6>1 DEF Written
          <6>2. Llm("provider") # Llm("model")
            BY LlmPaths
          <6>3. QED BY <2>1, <6>1, <6>2 DEF ModelOnly, Selection
        <5>4. QED BY <5>1, <5>2, <5>3
      <4>3. QED BY <4>1, <4>2 DEF Editors
    <3>2. \A i \in DOMAIN edits : edits[i][1] \in Paths
      <4>1. Selection \subseteq Paths
        BY PathsThere DEF Selection
      <4>2. Written(edits) = Selection
        BY <3>1, ChosenOK
      <4>3. QED BY <4>1, <4>2 DEF Written
    <3>3. QED BY <1>1, <3>1, <3>2, ChosenFits
  <2>2. CASE ~(Selection \subseteq Written(edits))
    <3>1. /\ ~mixed /\ e \notin stale
          /\ Selection \cap Written(edits) = {} \/ (e # "cli" /\ ~changed)
      BY <1>3, <1>13, <2>2 DEF TypeInv
    <3>2. /\ file \in Texts /\ Fits(file)
          /\ \A p \in Paths \ Written(edits) : text[p] = file[p]
      BY <1>1, <3>1 DEF FitInv
    <3>3. /\ {Llm("provider"), Llm("base_url"), Llm("model")} \subseteq Paths
          /\ Llm("provider") # Llm("model") /\ Llm("base_url") # Llm("model")
      BY PathsThere, LlmPaths
    <3>4. CASE Selection \cap Written(edits) = {}
      <4>1. \A p \in Selection : text[p] = file[p]
        BY <3>2, <3>3, <3>4 DEF Selection
      <4>2. QED BY <3>2, <4>1 DEF Fits, Get, Provider, Model, Selection
    <3>5. CASE Selection \cap Written(edits) # {}
      <4>1. e = "handler" /\ ~changed
        BY <3>1, <3>5 DEF Editors
      <4>2. ~Chosen(edits)
        BY <2>2, ChosenOK
      <4>3. ModelOnly(edits)
        BY <1>4, <1>6, <3>5, <4>1, <4>2 DEF KindInv
      <4>4. PICK m \in Raws : /\ edits = <<<<Llm("model"), m>>>>
                              /\ \E known \in Catalogs : ModelOrCustom(known, Provider(file), m)
        BY <4>1, <4>3 DEF ModelOnly
      <4>5. PICK known \in Catalogs : ModelOrCustom(known, Provider(file), m)
        BY <4>4
      <4>6. Written(edits) = {Llm("model")} /\ text[Llm("model")] = Scalar(m)
        <5>1. DOMAIN edits = {1} /\ edits[1] = <<Llm("model"), m>>
          BY <4>4
        <5>2. QED BY <1>1, <3>3, <5>1 DEF Written
      <4>7. text[Llm("provider")] = file[Llm("provider")]
            /\ text[Llm("base_url")] = file[Llm("base_url")]
        BY <3>2, <3>3, <4>6
      <4>8. QED BY <3>2, <4>4, <4>5, <4>6, <4>7, ModelFits
    <3>6. QED BY <3>4, <3>5
  <2>3. QED BY <2>1, <2>2
<1>14. FitInv'
  BY <1>1, <1>13 DEF FitInv
<1>15. QED BY <1>5, <1>7, <1>8, <1>10, <1>11, <1>12, <1>14

(* Somebody else replaces the file.                                           *)
LEMMA ReplaceKeeps ==
  ASSUME SettingsInv, NEW text \in Texts \cup {None, Garbage}, Replace(text),
         catalog' \in Catalogs \cup {None}, snapshot' \in Texts, Valid(snapshot)'
  PROVE  SettingsInv'
<1> USE DEF SettingsInv
<1>1. /\ file' = text /\ UNCHANGED <<active, ed>> /\ acked' = {}
      /\ mixed' = ~(text \in Texts /\ Fits(text))
  BY DEF Replace
<1>2. /\ writes' \in 0..MaxWrites /\ stale' = {d \in Editors : ed[d].stage = "write"}
      /\ changed' = (ed["handler"].stage # "idle")
  <2>1. writes < MaxWrites /\ writes' = writes + 1 /\ writes \in 0..MaxWrites
    BY DEF Replace, Overtakes, TypeInv
  <2>2. "nobody" \notin Editors
    BY DEF Editors
  <2>3. QED BY <2>1, <2>2, SettingsAssumption DEF Replace, Overtakes
<1>3. TypeInv'
  <2>1. mixed' \in BOOLEAN /\ changed' \in BOOLEAN /\ stale' \subseteq Editors
    BY <1>1, <1>2
  <2>2. QED BY <1>1, <1>2, <2>1 DEF TypeInv
<1>4. EditorsInv'
  BY <1>1 DEF EditorsInv
<1>5. (\A d \in Editors : WriteInv(d))'
  BY <1>1, <1>2 DEF WriteInv
<1>6. LoadedInv'
  BY <1>1, <1>2 DEF LoadedInv
<1>7. KindInv'
  <2>1. ASSUME changed', NEW x, ModelOnly(x) PROVE ModelOnly(x)'
    BY <2>1 DEF ModelOnly
  <2>2. QED BY <1>1, <1>2, <2>1 DEF KindInv
<1>8. AckInv' /\ FitInv'
  BY <1>1 DEF AckInv, FitInv
<1>9. QED BY <1>3, <1>4, <1>5, <1>6, <1>7, <1>8

LEMMA SaveCatalogKeeps ==
  ASSUME SettingsInv, NEW new \in Catalogs, SaveCatalog(new) PROVE SettingsInv'
<1> USE DEF SettingsInv
<1>1. /\ catalog' = new
      /\ UNCHANGED <<file, snapshot, active, ed, changed, stale, acked, writes, mixed>>
  BY DEF SaveCatalog
<1>2. TypeInv' /\ EditorsInv'
  BY <1>1 DEF TypeInv, EditorsInv
<1>3. (\A d \in Editors : WriteInv(d))' /\ LoadedInv'
  BY <1>1 DEF WriteInv, LoadedInv
<1>4. KindInv'
  BY <1>1 DEF KindInv, ModelOnly
<1>5. AckInv' /\ FitInv'
  BY <1>1 DEF AckInv, FitInv
<1>6. QED BY <1>2, <1>3, <1>4, <1>5

LEMMA DefaultModelsAre ==
  ASSUME NEW known \in Catalogs, NEW p \in DOMAIN known, NEW m \in DefaultModels(known, p)
  PROVE  m \in Raws /\ ModelOrCustom(known, p, m)
<1>1. PICK names \in SUBSET Providers : known \in [names -> Entry]
  BY SettingsAssumption DEF Catalog
<1>2. known[p] \in Entry
  BY <1>1
<1>3. known[p].models \subseteq Models /\ known[p].default \in Models \cup {""}
  BY <1>2 DEF Entry
<1>4. m \in Models
  BY <1>3 DEF DefaultModels
<1>5. m \in Raws
  BY <1>4, NamesAssumption DEF Raws
<1>6. ModelOrCustom(known, p, m)
  BY SettingsAssumption
<1>7. QED BY <1>5, <1>6

LEMMA CommandsKeep == SettingsInv /\ Commands => SettingsInv'
<1> SUFFICES ASSUME SettingsInv, Commands PROVE SettingsInv'
  OBVIOUS
<1>1. Effective \in Catalogs
  BY SettingsAssumption DEF Effective, SettingsInv, TypeInv
<1>2. ASSUME NEW edits, EditsOK(edits), Command(edits),
             \/ Chosen(edits) \/ ModelOnly(edits) \/ Selection \cap Written(edits) = {}
      PROVE  SettingsInv'
  BY <1>2, BeginsKeeps DEF Command, Editors
<1>3. ASSUME NEW p \in DOMAIN Effective, NEW m \in Raws, ModelOrCustom(Effective, p, m), Choose(p, m)
      PROVE  SettingsInv'
  <2> DEFINE edits == <<<<Llm("provider"), p>>, <<Llm("base_url"), Effective[p].url>>,
                        <<Llm("model"), m>>>>
  <2>1. Chosen(edits)
    BY <1>1, <1>3 DEF Chosen
  <2>2. Command(edits)
    BY <1>3 DEF Choose
  <2> HIDE DEF edits
  <2>3. QED BY <1>2, <2>1, <2>2, ChosenOK
<1>4. ASSUME NEW p, SetProvider(p) PROVE SettingsInv'
  BY <1>1, <1>3, <1>4, DefaultModelsAre DEF SetProvider
<1>5. ASSUME NEW p, NEW m \in Raws, SetProviderAndModel(p, m) PROVE SettingsInv'
  BY <1>3, <1>5 DEF SetProviderAndModel, ModelOrCustom
<1>6. ASSUME NEW m \in Raws, SetModel(m) PROVE SettingsInv'
  <2> DEFINE edits == <<<<Llm("model"), m>>>>
  <2>1. Command(edits) /\ ModelOrCustom(Effective, Provider(active), m)
    BY <1>6 DEF SetModel
  <2>2. ~changed => active = file
    BY <2>1 DEF Command, SettingsInv, LoadedInv
  <2>3. ModelOnly(edits)
    BY <1>1, <2>1, <2>2 DEF ModelOnly
  <2>4. EditsOK(edits)
    BY DEF EditsOK
  <2> HIDE DEF edits
  <2>5. QED BY <1>2, <2>1, <2>3, <2>4
<1>7. ASSUME NEW w \in Raws, SetToken(w) PROVE SettingsInv'
  <2> DEFINE edits == <<<<Llm("api_key"), w>>>>
  <2>1. Written(edits) = {Llm("api_key")} /\ EditsOK(edits)
    BY DEF Written, EditsOK
  <2>2. Selection \cap Written(edits) = {}
    BY <2>1, LlmPaths DEF Selection
  <2>3. Command(edits)
    BY <1>7 DEF SetToken
  <2> HIDE DEF edits
  <2>4. QED BY <1>2, <2>1, <2>2, <2>3
<1>8. ASSUME NEW w \in Raws, SetAiEnabled(w) PROVE SettingsInv'
  <2> DEFINE edits == <<<<Llm("enabled"), w>>, <<Feature("llm_router"), w>>>>
  <2>1. /\ DOMAIN edits = {1, 2} /\ edits[1] = <<Llm("enabled"), w>>
        /\ edits[2] = <<Feature("llm_router"), w>>
    OBVIOUS
  <2>2. Command(edits)
    BY <1>8 DEF SetAiEnabled
  <2> HIDE DEF edits
  <2>3. Feature("llm_router") # Llm("enabled")
    BY FeaturePaths
  <2>4. EditsOK(edits)
    BY <2>1, <2>3 DEF EditsOK
  <2>5. Written(edits) = {Llm("enabled"), Feature("llm_router")}
    BY <2>1 DEF Written
  <2>6. Selection \cap Written(edits) = {}
    BY <2>5, FeaturePaths, LlmPaths DEF Selection
  <2>7. QED BY <1>2, <2>2, <2>4, <2>6
<1>9. Words \subseteq Raws /\ Tokens \subseteq Raws /\ {"true", "false"} \subseteq Raws
  BY SettingsAssumption DEF Raws
<1>10. QED BY <1>4, <1>5, <1>6, <1>7, <1>8, <1>9 DEF Commands

LEMMA OthersKeep == SettingsInv /\ Others => SettingsInv'
<1> SUFFICES ASSUME SettingsInv, Others PROVE SettingsInv'
  OBVIOUS
<1>1. /\ catalog \in Catalogs \cup {None} /\ snapshot \in Texts /\ Valid(snapshot)
      /\ Bundled \in Catalogs /\ Saves \subseteq Texts \cup {Garbage}
  BY SettingsAssumption DEF SettingsInv, TypeInv
<1>2. ASSUME NEW text \in Saves, Save(text) PROVE SettingsInv'
  BY <1>1, <1>2, ReplaceKeeps DEF Save
<1>3. ASSUME NEW new \in Catalogs, SaveCatalog(new) PROVE SettingsInv'
  BY <1>3, SaveCatalogKeeps
<1>4. ASSUME NEW force \in BOOLEAN, InitDefault(force) PROVE SettingsInv'
  <2>1. DefaultText \in Texts /\ Valid(DefaultText)
    BY DefaultTyped, DefaultsAreDefault, DefaultsValid
  <2>2. /\ Replace(DefaultText) /\ snapshot' = DefaultText
        /\ catalog' \in Catalogs \cup {None}
    BY <1>1, <1>4 DEF InitDefault
  <2>3. QED BY <2>1, <2>2, ReplaceKeeps
<1>5. ASSUME ResetConfig PROVE SettingsInv'
  BY <1>1, <1>5, ReplaceKeeps DEF ResetConfig
<1>6. QED BY <1>2, <1>3, <1>4, <1>5 DEF Others

LEMMA StutterKeeps == SettingsInv /\ UNCHANGED vars => SettingsInv'
<1> SUFFICES ASSUME SettingsInv, UNCHANGED vars PROVE SettingsInv'
  OBVIOUS
<1> USE DEF SettingsInv, vars
<1>1. TypeInv' /\ EditorsInv'
  BY DEF TypeInv, EditorsInv
<1>2. (\A d \in Editors : WriteInv(d))' /\ LoadedInv'
  BY DEF WriteInv, LoadedInv
<1>3. KindInv'
  BY DEF KindInv, ModelOnly
<1>4. AckInv' /\ FitInv'
  BY DEF AckInv, FitInv
<1>5. QED BY <1>1, <1>2, <1>3, <1>4

LEMMA NextKeeps == SettingsInv /\ [Next]_vars => SettingsInv'
<1> SUFFICES ASSUME SettingsInv, [Next]_vars PROVE SettingsInv'
  OBVIOUS
<1>1. ASSUME NEW edit \in CliEdits, CliSet(edit[1], edit[2]) PROVE SettingsInv'
  <2> DEFINE edits == <<<<edit[1], edit[2]>>>>
  <2>1. EditsOK(edits)
    BY SettingsAssumption DEF EditsOK
  <2>2. Begins("cli", edits) /\ "cli" \in Editors
    BY <1>1 DEF CliSet, Editors
  <2>3. \E path, w : edits = <<<<path, w>>>>
    OBVIOUS
  <2> HIDE DEF edits
  <2>4. QED BY <2>1, <2>2, <2>3, BeginsKeeps
<1>2. CASE Edits
  BY <1>1, <1>2, MessageKeeps, CommandsKeep, GivesUpKeeps, ReadKeeps, WriteKeeps DEF Edits
<1>3. QED BY <1>2, OthersKeep, StutterKeeps DEF Next

LEMMA SettingsInvariant == Spec => []SettingsInv
<1>1. QED BY InitKeeps, NextKeeps, PTL DEF Spec

----------------------------------------------------------------------------
(* TypeOK: the snapshot and the config in force are valid throughout, and what*)
(* editors hold are texts.                                                    *)
THEOREM SettingsTypeCorrect == Spec => []TypeOK
<1>1. SettingsInv => TypeOK
  BY DEF SettingsInv, TypeInv, EditorsInv, TypeOK
<1>2. QED BY <1>1, SettingsInvariant, PTL

(* RoutesResolve: whatever is saved, reset or edited at the same time, a      *)
(* message is handled under a config that routes every thread.                *)
THEOREM EveryThreadRoutes == Spec => []RoutesResolve
<1>1. SettingsInv => RoutesResolve
  <2> SUFFICES ASSUME SettingsInv, ed["handler"].stage = "loaded" PROVE RoutesResolve
    BY DEF RoutesResolve
  <2>1. active # None /\ Valid(active)
    BY DEF SettingsInv, TypeInv, LoadedInv
  <2>2. Routes(active)
    BY <2>1, ValidRoutesAll
  <2>3. QED BY <2>1, <2>2 DEF RoutesResolve, Routes
<1>2. QED BY <1>1, SettingsInvariant, PTL

(* CapabilitiesFollow: the three tables of features agree for every config the*)
(* gateway goes by, whatever connectors report.                               *)
THEOREM FeaturesAgree == Spec => []CapabilitiesFollow
<1>1. SettingsInv => CapabilitiesFollow
  <2> SUFFICES ASSUME SettingsInv, active # None PROVE Follows(active)
    BY DEF CapabilitiesFollow, Follows, Needs
  <2>1. QED BY ValidFollows DEF SettingsInv, TypeInv
<1>2. QED BY <1>1, SettingsInvariant, PTL

(* SelectionFits: provider, URL and model in the file belong together unless  *)
(* edits overlapped or somebody set one of them by hand.                      *)
THEOREM SelectionsFit == Spec => []SelectionFits
<1>1. SettingsInv => SelectionFits
  BY DEF SettingsInv, TypeInv, FitInv, SelectionFits
<1>2. QED BY <1>1, SettingsInvariant, PTL

(* AckedHolds: no acknowledged value is lost but to an edit that had read the *)
(* file before, or to somebody who replaces the file.                         *)
THEOREM AcknowledgedEditsHold == Spec => []AckedHolds
<1>1. SettingsInv => AckedHolds
  BY SettingsAssumption DEF SettingsInv, AckInv, AckedHolds
<1>2. QED BY <1>1, SettingsInvariant, PTL

(* set_values: an edit never leaves a file that the gateway could not load,   *)
(* sets what it was given, and, unless somebody replaced the file since it was*)
(* read, changes nothing else.                                                *)
LeavesTheRest ==
    \A e \in Editors : Write(e) =>
       /\ Usable(file')
       /\ \A i \in DOMAIN ed[e].edits : ed[e].edits[i][1] \in Paths =>
            file'[ed[e].edits[i][1]] = Scalar(ed[e].edits[i][2])
       /\ e \notin stale => /\ file \in Texts
                            /\ \A p \in Paths \ Written(ed[e].edits) : file'[p] = file[p]

(* yaml_edit.rs: LeavesTheRest, for every edit of `set` and of the settings   *)
(* commands, however they, people, init and reset overlap.                    *)
THEOREM EditsLeaveTheRest == Spec => [][LeavesTheRest]_vars
<1>1. SettingsInv => LeavesTheRest
  <2> SUFFICES ASSUME SettingsInv, NEW e \in Editors, Write(e)
               PROVE  /\ Usable(file')
                      /\ \A i \in DOMAIN ed[e].edits : ed[e].edits[i][1] \in Paths =>
                           file'[ed[e].edits[i][1]] = Scalar(ed[e].edits[i][2])
                      /\ e \notin stale =>
                           /\ file \in Texts
                           /\ \A p \in Paths \ Written(ed[e].edits) : file'[p] = file[p]
    BY DEF LeavesTheRest
  <2>1. ed[e].stage = "write" /\ file' = ed[e].text
    BY DEF Write
  <2>2. WriteInv(e)
    BY DEF SettingsInv
  <2>3. Usable(file')
    BY <2>1, <2>2, SettingsAssumption DEF WriteInv, Usable
  <2>4. QED BY <2>1, <2>2, <2>3 DEF WriteInv
<1>2. QED BY <1>1, SettingsInvariant, PTL DEF Spec

----------------------------------------------------------------------------
LEMMA LeastNumber ==
  ASSUME NEW T \in SUBSET Nat, T # {}
  PROVE  \E x \in T : \A y \in T : x <= y
<1>1. PICK x \in T : \A y \in T : <<y, x>> \notin OpToRel(<, Nat)
  BY NatLessThanWellFounded, WFMin, ZenonT(60)
<1>2. \A y \in T : ~(y < x)
  BY <1>1, ZenonT(60) DEF OpToRel
<1>3. QED BY <1>2, SMT

LEMMA LastOf ==
  ASSUME NEW n \in Nat, NEW S \in SUBSET (1..n), S # {}
  PROVE  \E i \in S : \A k \in S : k <= i
<1> DEFINE T == {m \in Nat : \A k \in S : k <= m}
<1>1. n \in T
  OBVIOUS
<1>2. PICK m \in T : \A y \in T : m <= y
  BY <1>1, LeastNumber
<1>3. ASSUME m \notin S PROVE FALSE
  <2>1. m \in Nat /\ \A k \in S : k <= m /\ k # m /\ k \in 1..n
    BY <1>2, <1>3
  <2>2. m - 1 \in Nat /\ \A k \in S : k <= m - 1
    <3>1. PICK k \in S : TRUE
      OBVIOUS
    <3>2. k \in Nat /\ 1 <= k /\ k <= m /\ k # m
      BY <2>1
    <3>3. m - 1 \in Nat
      BY <2>1, <3>2
    <3>4. ASSUME NEW j \in S PROVE j <= m - 1
      <4>1. j \in Nat /\ j <= m /\ j # m
        BY <2>1
      <4>2. QED BY <2>1, <4>1
    <3>5. QED BY <3>3, <3>4
  <2>3. m - 1 \in T
    BY <2>2
  <2>4. QED BY <1>2, <2>1, <2>3
<1>4. QED BY <1>2, <1>3

(* yaml_edit.rs set_values: Edited, which says at once what a list of edits   *)
(* leaves at each path, is what set_nested_value leaves edit by edit, for     *)
(* lists of any length, repeated and overlapping paths included.              *)
THEOREM EditsInOrder ==
  ASSUME NEW text \in Texts
  PROVE  /\ Edited(text, <<>>) = text
         /\ \A edits \in Seq(Seq(STRING) \X Raws), path \in Seq(STRING), raw \in Raws :
              Edited(text, Append(edits, <<path, raw>>)) = Put(Edited(text, edits), path, raw)
<1> DEFINE hits(edits, p) == {i \in DOMAIN edits : Touches(edits[i][1], p)}
           last(edits, p) == CHOOSE i \in hits(edits, p) : \A k \in hits(edits, p) : k <= i
<1>1. ASSUME NEW edits, NEW p \in Paths
      PROVE  /\ hits(edits, p) = {} => Edited(text, edits)[p] = text[p]
             /\ hits(edits, p) # {} =>
                  Edited(text, edits)[p] =
                    Put(text, edits[last(edits, p)][1], edits[last(edits, p)][2])[p]
  BY DEF Edited
<1>2. \A edits : Edited(text, edits) = [p \in Paths |-> Edited(text, edits)[p]]
  BY DEF Edited
<1>3. text = [p \in Paths |-> text[p]]
  BY DEF Texts
<1>4. Edited(text, <<>>) = text
  <2>1. \A p \in Paths : hits(<<>>, p) = {}
    OBVIOUS
  <2>2. \A p \in Paths : Edited(text, <<>>)[p] = text[p]
    BY <1>1, <2>1
  <2> HIDE DEF hits, last
  <2>3. QED BY <1>2, <1>3, <2>2
<1>5. ASSUME NEW edits \in Seq(Seq(STRING) \X Raws), NEW path \in Seq(STRING), NEW raw \in Raws,
             NEW p \in Paths
      PROVE  Edited(text, Append(edits, <<path, raw>>))[p] = Put(Edited(text, edits), path, raw)[p]
  <2> DEFINE n == Len(edits)
             longer == Append(edits, <<path, raw>>)
  <2>1. /\ n \in Nat /\ DOMAIN edits = 1..n /\ DOMAIN longer = 1..n + 1
        /\ longer[n + 1] = <<path, raw>>
        /\ \A i \in 1..n : longer[i] = edits[i]
    OBVIOUS
  <2> HIDE DEF n, longer
  <2>2. CASE Touches(path, p)
    <3>1. n + 1 \in hits(longer, p) /\ hits(longer, p) \subseteq 1..n + 1
      BY <2>1, <2>2
    <3>2. last(longer, p) = n + 1
      <4>1. \A k \in hits(longer, p) : k <= n + 1
        BY <2>1, <3>1
      <4>2. \A i \in hits(longer, p) : (\A k \in hits(longer, p) : k <= i) => i = n + 1
        BY <2>1, <3>1
      <4> HIDE DEF hits
      <4>3. QED BY <3>1, <4>1, <4>2
    <3>3. Edited(text, longer)[p] = Put(text, path, raw)[p]
      <4> HIDE DEF hits, last
      <4>1. hits(longer, p) # {}
        BY <3>1
      <4>2. Edited(text, longer)[p] =
              Put(text, longer[last(longer, p)][1], longer[last(longer, p)][2])[p]
        BY <1>1, <4>1
      <4>3. longer[last(longer, p)] = <<path, raw>>
        BY <2>1, <3>2
      <4>4. QED BY <4>2, <4>3
    <3>4. Put(text, path, raw)[p] = Put(Edited(text, edits), path, raw)[p]
      BY <2>2 DEF Put
    <3>5. QED BY <3>3, <3>4 DEF longer
  <2>3. CASE ~Touches(path, p)
    <3>1. hits(longer, p) = hits(edits, p) /\ hits(edits, p) \subseteq 1..n
      BY <2>1, <2>3
    <3>2. last(longer, p) = last(edits, p)
      BY <3>1
    <3>3. Edited(text, longer)[p] = Edited(text, edits)[p]
      <4>1. CASE hits(edits, p) = {}
        BY <1>1, <3>1, <4>1
      <4>2. CASE hits(edits, p) # {}
        <5>1. last(edits, p) \in hits(edits, p)
          <6> HIDE DEF hits
          <6>1. \E i \in hits(edits, p) : \A k \in hits(edits, p) : k <= i
            BY <2>1, <3>1, <4>2, LastOf
          <6>2. QED BY <6>1
        <5>2. longer[last(longer, p)] = edits[last(edits, p)]
          BY <2>1, <3>1, <3>2, <5>1
        <5> HIDE DEF hits, last
        <5>3. QED BY <1>1, <3>1, <4>2, <5>2
      <4>3. QED BY <4>1, <4>2
    <3>4. Put(Edited(text, edits), path, raw)[p] = Edited(text, edits)[p]
      BY <2>3 DEF Put, Touches
    <3>5. QED BY <3>3, <3>4 DEF longer
  <2>4. QED BY <2>2, <2>3
<1>6. \A old, path, raw : Put(old, path, raw) = [p \in Paths |-> Put(old, path, raw)[p]]
  BY DEF Put
<1> HIDE DEF hits, last
<1>7. QED BY <1>2, <1>4, <1>5, <1>6
=============================================================================

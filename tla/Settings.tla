------------------------------- MODULE Settings -------------------------------
(* Who changes the config file, and what the gateway makes of it: the Telegram *)
(* commands /provider, /use, /model, /token and /ai (telegram.rs), `set` on the*)
(* command line, `init` and `reset` (main.rs, reset.rs), and people with an    *)
(* editor. An edit loads, reads, checks and writes in steps between which the  *)
(* others act; reading and writing a file is one step here (see AtomicWrite)   *)
(* and the loads succeed or fall back as in ConfigStore.                       *)
EXTENDS ConfigRules

CONSTANTS None,     \* no file
          Garbage,  \* a text that is not YAML
          Saves,    \* texts that people save
          Bundled,  \* the catalog in the program
          Catalogs, \* the ones that may be in the file
          Words,    \* what users type for a provider or a model
          Tokens,   \* and for a token
          CliEdits, \* what `set` is given: <<path, word>>
          Ill,      \* json connectors that fail
          Reports,  \* what the others may report
          MaxWrites \* bound: how often the config file is replaced

ASSUME SettingsAssumption ==
    /\ {None, Garbage} \cap Texts = {} /\ Saves \subseteq Texts \cup {Garbage}
    /\ Bundled \in Catalogs /\ Catalogs \subseteq Catalog /\ None \notin Catalogs
    /\ "openai" \in DOMAIN Bundled /\ Bundled["openai"].url = "api.openai.com"
    /\ \A catalog \in Catalogs : \A p \in DOMAIN catalog :
         \A m \in DefaultModels(catalog, p) : ModelOrCustom(catalog, p, m)
    /\ Words \cup Tokens \subseteq Raws /\ MaxWrites \in Nat
    /\ \A edit \in CliEdits : edit[2] \in Raws

VARIABLES file,     \* the config file
          catalog,  \* providers.yaml
          snapshot, \* last-known-good.yaml in the fallback directory
          active,   \* the config the gateway has loaded for a message, or None
          ed,       \* the edit each editor is at: its stage, edits and the new text
          changed,  \* history: whether the file is another than the handler loaded
          stale,    \* history: the editors about to overwrite a file they have not read
          acked,    \* history: the paths whose acknowledged values should still be there
          writes,   \* history: how often the file was replaced
          mixed     \* history: whether the selection may be other than a command made it

vars == <<file, catalog, snapshot, active, ed, changed, stale, acked, writes, mixed>>

Editors == {"handler", "cli"}
Idle == [stage |-> "idle", edits |-> <<>>, text |-> None]
Stages == {"idle", "loaded", "read", "write"}
Selection == {Llm("provider"), Llm("base_url"), Llm("model")}

(* The config of init, with Telegram switched on since.                        *)
Installed == [DefaultText EXCEPT ![Telegram] = Truth(TRUE)]

Init ==
    /\ file = Installed /\ catalog \in Catalogs
    /\ snapshot = Installed /\ active = None
    /\ ed = [e \in Editors |-> Idle]
    /\ changed = FALSE /\ stale = {} /\ acked = {} /\ writes = 0 /\ mixed = FALSE

Effective == IF catalog = None THEN Bundled ELSE catalog

----------------------------------------------------------------------------
(* The URL and the model belong to the provider, each in a catalog there was;  *)
(* a model may be unset.                                                       *)
Provider(c) == Get(c, Llm("provider"), "openai")
Model(c) == Get(c, Llm("model"), "")
Fits(c) ==
    /\ \E known \in Catalogs :
          /\ Provider(c) \in DOMAIN known
          /\ Get(c, Llm("base_url"), "api.openai.com") = known[Provider(c)].url
    /\ Model(c) = "" \/ \E known \in Catalogs : ModelOrCustom(known, Provider(c), Model(c))

(* The paths some edits set.                                                   *)
Written(edits) == {edits[i][1] : i \in DOMAIN edits}

(* load_with_recovery: a valid file is promoted, otherwise the fallback        *)
(* directory is looked in (data_dir's snapshot, which `reset data` removes, is *)
(* not: where the file is not valid nothing says where data_dir is).           *)
Usable(text) == text \notin {None, Garbage} /\ Valid(text)

(* Mutant: what parses is taken for a config.                                  *)
LoadedUnchecked == IF file \notin {None, Garbage} THEN file ELSE snapshot

Loaded == IF Usable(file) THEN file ELSE IF Usable(snapshot) THEN snapshot ELSE None

Acceptable(text, edits) == /\ text \notin {None, Garbage}
                           /\ <<>> \notin Written(edits)
                           /\ Usable(Edited(text, edits))

(* The gateway loads the config for each message, and goes by it (also where   *)
(* Telegram was switched off since it asked for messages).                     *)
Message ==
    /\ ed["handler"].stage = "idle"
    /\ active' = Loaded
    /\ snapshot' = IF active' = None THEN snapshot ELSE active'
    /\ ed' = [ed EXCEPT !["handler"] = [Idle EXCEPT !.stage = "loaded"]]
    /\ changed' = (active' # file)
    /\ UNCHANGED <<file, catalog, stale, acked, writes, mixed>>

Unloads(e) == active' = IF e = "handler" THEN None ELSE active

(* It sets nothing, or what it would set is refused.                           *)
GivesUp(e) ==
    /\ ed[e].stage \in {"loaded", "read"}
    /\ ed[e].stage = "read" => ~Acceptable(file, ed[e].edits)
    /\ ed' = [ed EXCEPT ![e] = Idle] /\ Unloads(e)
    /\ changed' = (changed /\ e = "cli")
    /\ UNCHANGED <<file, catalog, snapshot, stale, acked, writes, mixed>>

Begins(e, edits) ==
    /\ ed' = [ed EXCEPT ![e] = [stage |-> "read", edits |-> edits, text |-> None]]
    /\ Unloads(e)
    /\ UNCHANGED <<file, catalog, snapshot, changed, stale, acked, writes, mixed>>
Command(edits) == ed["handler"].stage = "loaded" /\ active # None /\ Begins("handler", edits)

(* Mutant: the URL is left as it is.                                           *)
ChooseNoUrl(p, m) == Command(<<<<Llm("provider"), p>>, <<Llm("model"), m>>>>)

(* set_provider, set_provider_and_model, set_model, set_token, set_ai_enabled. *)
Choose(p, m) == Command(<<<<Llm("provider"), p>>, <<Llm("base_url"), Effective[p].url>>,
                          <<Llm("model"), m>>>>)
SetProvider(p) == p \in DOMAIN Effective /\ \E m \in DefaultModels(Effective, p) : Choose(p, m)
SetProviderAndModel(p, m) == ModelOrCustom(Effective, p, m) /\ Choose(p, m)
SetModel(m) == /\ active # None
               /\ ModelOrCustom(Effective, Provider(active), m)
               /\ Command(<<<<Llm("model"), m>>>>)
SetToken(w) == Command(<<<<Llm("api_key"), w>>>>)
SetAiEnabled(w) == Command(<<<<Llm("enabled"), w>>, <<Feature("llm_router"), w>>>>)

(* `set` loads nothing first.                                                  *)
CliSet(path, w) == ed["cli"].stage = "idle" /\ Begins("cli", <<<<path, w>>>>)

(* set_values: it reads the file as it is by now, refuses what would not be    *)
(* valid, and replaces the file. Who wrote in between is overwritten.          *)
Read(e) ==
    /\ ed[e].stage = "read" /\ Acceptable(file, ed[e].edits)
    /\ ed' = [ed EXCEPT ![e] = [stage |-> "write", edits |-> @.edits,
                                 text |-> Edited(file, @.edits)]]
    /\ UNCHANGED <<file, catalog, snapshot, active, changed, stale, acked, writes, mixed>>

(* History: the file is replaced by e (an editor, or somebody else).           *)
Overtakes(e) ==
    /\ writes < MaxWrites /\ writes' = writes + 1
    /\ changed' = (e # "handler" /\ ed["handler"].stage # "idle")
    /\ stale' = {d \in Editors \ {e} : ed[d].stage = "write"}

(* `set` then loads the config it has written, which promotes it.              *)
Write(e) ==
    LET edits == ed[e].edits
        written == Written(edits)
    IN
    /\ ed[e].stage = "write"
    /\ file' = ed[e].text
    /\ ed' = [ed EXCEPT ![e] = Idle]
    /\ Overtakes(e)
    /\ acked' = {a \in acked : e \notin stale /\ a[1] \notin written}
                \cup {<<edits[i][1], Scalar(edits[i][2])>> :
                         i \in {i \in DOMAIN edits : edits[i][1] \in Paths}}
    /\ mixed' = IF Selection \subseteq written THEN FALSE
                ELSE \/ mixed \/ e \in stale
                     \/ Selection \cap written # {} /\ (e = "cli" \/ changed)
    /\ snapshot' = IF e = "cli" THEN file' ELSE snapshot
    /\ UNCHANGED <<catalog, active>>

----------------------------------------------------------------------------
(* Others, at any moment.                                                      *)
Replace(text) ==
    /\ file' = text /\ Overtakes("nobody")
    /\ acked' = {} /\ mixed' = ~(text \in Texts /\ Fits(text))
    /\ UNCHANGED <<active, ed>>

Save(text) == Replace(text) /\ UNCHANGED <<catalog, snapshot>>
SaveCatalog(new) == /\ catalog' = new
                    /\ UNCHANGED <<file, snapshot, active, ed, changed, stale, acked, writes, mixed>>

(* init_default, ensure_default_catalog.                                       *)
InitDefault(force) ==
    /\ force \/ file = None
    /\ Replace(DefaultText)
    /\ snapshot' = DefaultText
    /\ catalog' = IF force \/ catalog = None THEN Bundled ELSE catalog

(* reset_config.                                                               *)
ResetConfig == Replace(None) /\ catalog' = None /\ UNCHANGED snapshot

Commands ==
    \/ \E p, m \in Words : SetProvider(p) \/ SetProviderAndModel(p, m) \/ SetModel(m)
    \/ \E w \in Tokens : SetToken(w)
    \/ \E w \in {"true", "false"} : SetAiEnabled(w)
Edits == \/ Message \/ Commands
         \/ \E edit \in CliEdits : CliSet(edit[1], edit[2])
         \/ \E e \in Editors : GivesUp(e) \/ Read(e) \/ Write(e)
Others == \/ \E text \in Saves : Save(text)
          \/ \E new \in Catalogs : SaveCatalog(new)
          \/ \E force \in BOOLEAN : InitDefault(force)
          \/ ResetConfig

Next == Edits \/ Others
Spec == Init /\ [][Next]_vars

----------------------------------------------------------------------------
TypeOK ==
    /\ file \in Texts \cup {None, Garbage} /\ catalog \in Catalogs \cup {None}
    /\ snapshot \in Texts /\ Valid(snapshot)
    /\ active # None => active \in Texts /\ Valid(active)
    /\ \A e \in Editors : ed[e].stage \in Stages /\ ed[e].text \in Texts \cup {None}
    /\ changed \in BOOLEAN /\ stale \subseteq Editors /\ writes \in 0..MaxWrites /\ mixed \in BOOLEAN

(* AppConfig::validate before connector_for_thread: whatever people save and   *)
(* reset and in whatever order edits overtake each other, the gateway has a    *)
(* config, and under it every thread, configured or not, has a connector that  *)
(* is defined and, where it is a program, has a command.                       *)
RoutesResolve ==
    ed["handler"].stage = "loaded" =>
    /\ active # None
    /\ \A t \in ThreadNames \cup {"elsewhere"} :
         LET k == ConnectorFor(active, t) IN
         /\ k \in Defined(active)
         /\ Kind(active, k) = "json" => Get(active, Definition(k, "command"), "[]") # "[]"

(* features.rs, config.rs and connector.rs each list features by hand: of every*)
(* config the gateway goes by, the enabled features are registered, what is   *)
(* asked of connectors is what the registry says those features need, and a    *)
(* thread whose connectors pass check_all gets what it has switched on.        *)
CapabilitiesFollow ==
    \A c \in {active} \ {None} :
       LET needs == {Registry[key] : key \in EnabledKeys(c)}
       IN /\ EnabledKeys(c) \subseteq DOMAIN Registry
          /\ \A k \in Defined(c) : Required(c, k) \subseteq needs
          /\ \A reports \in Reports, t \in Named(c) :
               LET k == ConnectorFor(c, t)
                   offers == IF Kind(c, k) = "json" THEN reports[k] ELSE EchoCapabilities
               IN CheckAll(c, Ill, reports) =>
                    \/ offers = {}
                    \/ /\ needs \cap {"threads.cwd", "attachments.images", "connector.cancel"}
                           \subseteq offers
                       /\ Watches(c, t) => "connector.stream" \in offers

(* telegram.rs set_provider, set_provider_and_model, set_model: provider, URL  *)
(* and model in the file belong together, unless somebody edited one of them by*)
(* hand, two edits overlapped, or /model was checked against a config that was *)
(* not the file's; the next /provider or /use puts it right.                   *)
SelectionFits == file \in {None, Garbage} \/ mixed \/ Fits(file)

(* yaml_edit.rs set_values: a value that was acknowledged is in the file until *)
(* it is set again, somebody else replaces the file, or an edit that had read  *)
(* the file before overwrites it.                                              *)
AckedHolds == \A a \in acked : file \notin {None, Garbage} /\ file[a[1]] = a[2]
=============================================================================

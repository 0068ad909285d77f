# Pocket Harness in TLA+

TLA+ modules, TLC configurations and TLAPS proofs kept beside the Rust sources
of Pocket Harness. Paths such as `config_store.rs:278` are in `src/src/`, docs
in `src/docs/`. Definitions keep the names of the functions they model;
`PROJECT.json` maps each to its lines and lists runs, mutants, findings, hazards
and theorems.

## 1. The system

Pocket Harness is one binary whose subcommands run as separate processes
(`watch`, `telegram`, `set`, `run`, `check`, `reset`, ...). They share files,
never memory and never a lock.

| Component | State it keeps | Operations | What is hard about it |
|---|---|---|---|
| Atomic file replacement (`config_store::atomic_write`) | the target, a temporary file beside it named after the target alone | truncate, fill, rename | two writers share the temporary file; a call can fail or die between any two system calls |
| Config store (`config_store.rs`) | the config file, `last-known-good.yaml` in `data_dir` and in the fallback directory, `rejected-configs/`, `config-history/`, a rejection log | `load_with_recovery`, `stage_with_connector_check`, `promote`, restore, lookup of the last known good | every operation reads files several times, and people, `set` and other processes write between the reads |
| Watch loop (`main.rs:356`) | the active config | poll, compare digests, stage, adopt or keep | crash anywhere; must still converge on the file |
| Setter (`yaml_edit::set_values`) | none | read, edit a YAML tree, validate, write, then `load_with_recovery` | lost updates; promotes without a connector check |
| Job store (`jobs.rs`) | a queue per thread, a running job per thread, receipts, a sequence counter | enqueue, start_next, finish, cancel_queued, cancel_running | calls in any order, late `finish`, limits, saturation |
| Connector process (`connector.rs:331`) | a child process and three pipes | spawn, write request, wait with timeout, kill, read, parse | pipes fill up, timeouts race answers, children leave helpers behind or cannot be killed |
| Connector manager, capabilities (`connector.rs`) | none | check_all, required_capabilities, validate_capabilities | must agree with two other hand-written lists of features |
| Telegram gateway (`telegram.rs`, `supervisor.rs`) | the update offset, failure count, local tools | load config, poll, take an update, handle it, reply, back off | lost requests and responses, crashes, at-least-once delivery, a shift at its limit |
| Message handler (`telegram.rs:215`, `local_tools.rs:343`) | none | natural phrases, routing, slash calls | byte offsets in texts of any language; panics become replies |
| Local tools (`local_tools.rs`) | terminal sessions, their ids and limit; the thread's directory in the config | sh, sudo, bg, term_tail, term_kill, cd, ls, ... | processes and list part when a start, a kill or the gateway fails half-way; what a shell started outlives it; waits without a limit |
| LLM router (`llm_router.rs`) | the conversation of one prompt | the tool-call loop and its end | a config carried through calls that change it; a model that never stops calling |
| Settings commands (`telegram.rs:291`) | none | /provider, /use, /model, /token, /ai | checks against one config, writes into another |
| Provider catalog (`provider_catalog.rs`) | `providers.yaml` | lookups, default models | may change or go between check and use |
| YAML editor (`yaml_edit.rs`) | none | parse_scalar, set_nested_value, set_values | words that read as numbers, paths above and below each other, lost updates |
| Config schema, features (`config.rs`, `features.rs`) | none | parse, defaults, validate, enabled_feature_keys | defaults that fill in what an edit left out |
| Reset (`reset.rs`) | none | remove config, data, logs | knows one of the two snapshot directories |
| Service, env files, installer | unit files, environment | write, start, stop | pure I/O |
| Connectors (`connectors/`) | none | one request, one response | seen from the parent in `ConnectorProcess` |

How they meet: the watch loop, the gateway and every command go through the
config store, the config store through `atomic_write`; `set` (and the gateway's
own settings commands) replace the config file with `set_values`; the gateway's
messages and `run` end in the connector process, the watch loop's check in one
health request per connector. The config file alone has four kinds of writers:
people, `set`, the gateway (its settings commands and `cd`) and a rollback of `watch`.

What makes each correct: `atomic_write` never shows a reader part of a text;
snapshots only ever hold configs that were good, a rollback goes to the last of
them and destroys nobody's text; the config file is whole and valid whoever sets
a value; `watch` and the gateway keep a config whatever people save, and come to
agree with the file; the job store keeps its limits and order and ends each job
once; a connector call returns, with a whole answer or none, and leaves no
process; the gateway deals with every message in order, and again only after a
crash; the handler answers every message, runs what the model asked for once and
where it said, and loses sight of no shell behind an answer of success; whatever config results
from edits that overlap routes every thread, agrees with what connectors were
asked for, and keeps what was acknowledged. The code does not keep all of this:
section 3 says where it does not, in four findings and a list of limits.

## 2. The modules

| Module | Models | Uses |
|---|---|---|
| `AtomicRegister` | what callers of `atomic_write` rely on | |
| `AtomicWrite` | `atomic_write`, one step per system call | implements `AtomicRegister` |
| `ConfigStore`, `MCConfigStore` | config file, snapshots, `watch`, `load_with_recovery`, `set`, the gateway's settings commands, a person | an INSTANCE of `AtomicWrite` |
| `JobLifecycle` | what the parent promises about jobs | |
| `JobStore` | `jobs.rs` | implements `JobLifecycle` |
| `ConnectorProcess` | `run_json_connector` and any command | |
| `Delivery` | what people who write to the bot are promised: one log, one reader | |
| `TelegramGateway` | `run_gateway`, its backoff, and the server's getUpdates | implements `Delivery` |
| `LocalTools` | `local_tools.rs`: terminals, sudo, cd, reading | |
| `LlmRouter` | `llm_router.rs`: one prompt and its tool calls | EXTENDS `LocalTools` |
| `Handler`, `MCHandler` | `handle_text_with_state`: which text is which of them | EXTENDS `LlmRouter` |
| `ConfigRules` | the pure rules: YAML edits, schema, validation, features, capabilities, catalog | |
| `Settings`, `MCSettings` | settings commands, `set`, init, reset, people | EXTENDS `ConfigRules` |
| `*Proofs` | the theorems about the module they are named after; `ConfigRecoveryProofs`: more of `ConfigStore` | `TLAPS` |

### AtomicWrite

`file` and `tmp` hold the target's and the temporary file's content for each
path, `wr[p]` the call process `p` is in: its stage (`open`, `filling`,
`rename`, `done`, `failed`), path, text, and `at`, where the inode behind its
open descriptor is by now. `OpenTmp` is the `open(O_CREAT|O_TRUNC)` inside
`fs::write`, `FillTmp` its write at offset 0 of that inode (over a longer text
of somebody else it leaves `Torn`), `RenameTmp` moves the temporary file, and
with it the descriptors others have open on it, over the target. A text is one
write; `CutShort` is a failed call or the death of the process.

### ConfigStore

Texts are model values, sorted by what the code can tell of them: `Valid`
(parse and validate accept it), `Healthy` and `Flaky` (its connectors pass
`check_all`, always or sometimes), `Rollback`, `HotReload`, and `DataDir`, the
directory it names. A config is the text it was parsed from. `pc[p]` says what
process `p` does next, `job[p]` what it holds in memory (the config it parsed,
the text it promotes or restores, the candidate directories left), `active[p]`
is its `ActiveConfig`, `None` before the first.

| Code | Actions |
|---|---|
| `watch_config` | `Poll`, then `StageRead`, `CheckPass` or `CheckFail` |
| `load_with_recovery` | `LoadPrimary`, `Reread` |
| `promote` | `PromoteBegin`, `PromoteFallback`, `Promoted`, with `Writes` between |
| `candidate_state_dirs`, `read_last_known_good_text` | `FindCandidates`, `SkipCandidate`, `NoCandidate` |
| `restore_last_known_good_to_primary` | `RestoreRead`, `CopyRejected` or `CopyFails`, `Restored` |
| `load_last_known_good` | `LoadLastKnownGood` |
| `set_values`, then `load_with_recovery` | `SetRead`, `SetWritten`, `LoadPrimary`, ... |
| the gateway's settings commands and `cd` (`telegram.rs:291`, `local_tools.rs:426`) | `Command`, `SetWritten` |
| a person's editor, `rm`, `kill` | `Save`, `Crash` |

Every file operation is a step of its own, so every other process, save, failure
and crash falls between any two of them. Two reads the code makes in a row of
the same file stay two steps wherever they can differ in a way that matters
(`LoadPrimary` and `Reread`). `raced` is a history: the paths whose temporary file two
calls held at the same time.

### JobStore

The five public operations with their early returns. A job's UUID is its number
in `issued`, a history of the accepted jobs; the creation and start numbers, the
receipts' sequence and their truncation are kept, names, previews and messages
are not. `MaxSequence` stands for `u64::MAX`.

### ConnectorProcess

The parent's steps (`Spawn`, `WriteRequest`, `CloseStdin`, `Exited` or `TimeOut`,
`ReadOut`, `ReadErr`, `ErrEnds`) beside a command drawn from `Plans`: it reads its
stdin at once, after its log, or never; it writes any amount; it may hang; it ends
in JSON, noise or failure; it may be one that cannot be killed (started through
sudo, or setuid): then `TimeOut` is not possible and `KillRefused` leads to `reap`,
where the parent waits until it ends (`Reaped`); it may leave a helper that
inherited stdout and stderr. No habit closes stdin before it ends. A pipe holds `PipeSize` units and
blocks its writer; a read ends when nobody can write any more.

### TelegramGateway

The loop's control points as `pc`: `load` (config, token), `poll`, `next` (take the
next update of the batch), `reload` (config again, allowed sender), `reply`. `Send`,
`Confirmed` and `Response` are the server: a request with an offset forgets what is
below it. `PollFails` loses the request or the response. `Crash` forgets the offset.
What a command does is one step here, `Handle`. `Delay(n)` is what `record_failure` gives
for the n-th failure in a row, with the shift that stops growing (`Shift`, a function
defined by recursion) and the cap. The sleeping is not modelled: the loop sleeps for
the delay of every failure but that of a reply (`telegram.rs:189`), which counts only. `Delivery` is what the bookkeeping is for: a log,
the position of one reader, and how far it is confirmed. Its reader is at the
update in hand while that is not settled, else at the next one the server would
send (`Position`).

### LocalTools, LlmRouter, Handler

Three modules that extend one another, as the code's modules call one another.
`LocalTools` keeps two things that the code keeps apart, the list of sessions
(`terminals`, `nextId`) and the processes of the system (`status`, `id`), and what
may part them is in its actions: `Start` spends an id and may fail before or after
there is a process, `Kill` takes the session off the list and may then be refused,
a process ends by itself (`Exit`), the gateway dies (`Restart`). What a process of
the list is, is a shell; `kids` are the shells with programs of their own
(`Forks`), which neither a timeout nor `Kill` reaches and which may stay when their
shell is gone (`Stay`, until `KidsEnd`). `hung` is what the gateway waits for without a
limit: an rg on a device or a pipe (`Searches`), a program that holds the pipes of a
shell that ended in time (`Ends`), a sudo that cannot be killed (`SudoHangs`), a
connector call (`ConnectorHangs`). `reported` is a history: the unlisted shells that a
call which answered an error, or a restart, left. The thread's directory is in
the config `file`; a tool goes by the config its caller loaded.

`LlmRouter` is one prompt: `Begin` is the dispatch of `run_prompt`, `Ask` a request of
Gemini's loop with whatever response, `RunCall` one call of the response (run, or
suppressed when it was seen), `RoundEnds` the two ways out of the loop, `Finalize`
the last request. An error of a request ends the prompt with a reply (`Replies`).
The locals of `run_google_gemini` are variables; what a tool answered is kept as far
as the loop and the properties tell answers apart (`result`).

`Handler` decides what a text is: `Phrases` is the table of `try_parse_natural` in its
order, with the byte lengths at which `strip_prefix_case` cuts; a text is a record
of what that table can tell of it (which phrases it begins with, its length,
which offsets are inside a character). `PlainText`, `RunCommand` and `SlashCall` are the
three entries; `Edit`, `Ended` and `Died` happen beside them at any moment.

### ConfigRules, Settings

A text is a function from the paths the rules look at to typed values; `Absent`
paths have their default. `Scalar` is `parse_scalar`, `Put` and `Edited` are
`set_nested_value` and the loop over it, including a value put above or below a
path that has one. `Valid` is `parse_and_validate`, in its parts `Typed`,
`ValidConnectors`, `ValidRoutes`, `ValidSwitches`. `Registry`, `KeysOf` and `Required` are the
three tables of features as the code has them, not derived from one another.

`Settings` runs two editors, the gateway's handler and `set` on the command line:
an edit is `loaded` (the handler only), `read` (about to read the file), `write`
(about to replace it), and between any two others act: the other editor, people
(`Save`, `SaveCatalog`), `InitDefault`, `ResetConfig`. Each settings command is an action
with its check against the catalog (`Effective` falls back to the bundled one).
`acked`, `stale`, `changed` and `mixed` are histories that say which acknowledged
values nobody has overtaken.

## 3. What is checked

| Run | What it shows | Size |
|---|---|---|
| `AtomicWrite` | One path written in turns and one that is not (`Shared`), each call free to fail at every step: no reader sees an empty or mixed text in the first (`NeverTorn`), and `atomic_write` implements the atomic register (`ImplementsRegister`). | 104 thousand states |
| `Watch` | `watch`, its writes failing, killed and restarted anywhere, saves at any moment: snapshots (`SnapshotsVetted`) and active config (`ActiveVetted`) passed their connector check; once people stop saving and nothing fails any more, active config and file agree (`Converges`). | 809 thousand |
| `RollbackRace` (violation) | A good edit saved between a rollback's copy and its rename is destroyed (`RollbackKeepsText`). | |
| `Gateway` | The gateway and its settings commands beside `set`, whose writes may fail, with bad edits and values that move the `data_dir`: until two calls hold one temporary file at once, snapshots are valid (`SnapshotsValid`), the gateway never loses its config (`GatewayStaysUp`), and what a process puts into the config file is valid and whole (`PrimaryStaysValid`); what two calls tore of the snapshots, polling heals (`SnapshotsCatchUp`). | 434 thousand |
| `SetRace` (violation) | A command of the gateway beside `set`: a reader finds the config file empty or mixed (`PrimaryWhole`). | |
| `GatewayRace` (violation) | A save between the two reads of `load_with_recovery` takes the gateway down (`GatewayStaysUp`). | |
| `JobStore` | Limits, order, one end per job, ordered receipts, and the abstract lifecycle. | 31 thousand |
| `Connector` | Whole answers, no process left behind, no timely answer lost, every call returns whose request fits the pipe, whose pipes nobody else holds and whose command can be killed or ends (`CallReturns`). | 110 thousand |
| `Telegram` | At most once per run of the process (`HandledOncePerRun`), nothing confirmed unsettled (`NothingForgotten`), one log read in order and from the confirmed place after a crash (`ImplementsDelivery`), every message is dealt with (`EveryMessageTaken`), and the delay a failure is given doubles up to its cap (`BacksOff`). | 50 thousand |
| `Handler` | No call of a prompt runs twice or is suppressed without a result (`RunsOnce`), no shell runs on unlisted after a call that said it succeeded and the list keeps its limit (`Accounted`), ids are not shared (`OwnId`), every message is answered if what the gateway waits for without a limit ends (`EveryMessageAnswered`). | 381 thousand |
| `Apostrophe` (violation) | A text with a character across the end of a phrase panics the handler instead of reaching the model. | |
| `Settings` | Under every config the gateway goes by all threads route (`RoutesResolve`) and features agree (`CapabilitiesFollow`); provider, URL and model belong together (`SelectionFits`); acknowledged values stay (`AckedHolds`). | 331 thousand |

`CHECK_DEADLOCK FALSE` is set where the bounds let the system stop: all saves
made, all jobs ended, a connector call over, `set` ended, a watcher whose
config turned hot reload off, all writes of `Settings` used up, a process that `Handler`
waits for and that nothing ends. `AtomicWrite` can always go on and is checked for deadlock.

### Bounds, and why they are enough

- `AtomicWrite`: two processes, two texts, one path of either kind. A step reads
  and writes one path; two processes show every sharing of a temporary file, two
  paths show that a write leaves the others alone. The theorems have no bound.
- `ConfigStore`: texts `g`, `h` (good), `b` (valid, breaks its connector), `k`
  (as `b`, with `keep_active`), `n` (turns hot reload off), `i` (invalid).
  `MaxEdits` saves, with the gateway's commands among them: two for a rollback to be
  needed and raced or for two writers of the config file beside one another, three in
  `RollbackRace`, which needs a new good config after the bad one. `Watch` has one
  `data_dir`, as the usual installation, and a text whose check fails only sometimes; in `Gateway` the values that are set move the snapshots between two
  directories. `Quiet` lists control points no save lands on; it is empty except in
  `Gateway` (`reread`, whose absence is `GatewayRace`). `Crashing` and `MayFail` name
  the processes that die and whose writes fail. One process of a kind: a third writer
  adds no other sharing of one temporary file, and the theorems have no such bound.
- `JobStore`: two threads, four jobs, queues of two, two receipts and a sequence
  up to five: full queues, dropped receipts and saturation all happen.
- `ConnectorProcess`: pipes of two units, requests up to three, outputs and logs
  up to three: each stream fits in some behaviours and fills its pipe in others.
  Commands of either kind, to be killed or not, with or without a helper.
- `TelegramGateway`: three updates in batches of two, so batches end before
  the updates do; two crashes, so a message can be handled three times. The
  delay's numbers are scaled down together (first delay 2, cap 10, at most 3
  doublings of a 5-bit multiplier): the count reaches 7, past the last doubling and
  past where a shift that wraps would start over.
- `Handler`: two slots for processes that outlive a call (`MaxProcs`), one session and
  two ids a run (`MaxIds`): the limit is reached, ids are used up, and a stray process
  remains beside a listed one. Two rounds (8 in the code) of up to two calls, so that
  a repeat happens in one response, in the next and after other calls. Two
  directories, a relative name that leads from one to the other and then nowhere, one
  pipe, one command that ends, one that does not and one that starts a program. Five
  texts: one without a phrase, the same with a character of three bytes, a shell
  command, a cd and a cd with a question. The calls are those that start, end, list or
  wait for processes, and `ls` and `cd` for what a directory decides; the theorems are
  about any calls.
- `Settings`: three replacements of the file (`MaxWrites`), enough for an edit to be
  overtaken, and for the one that overtook it to be overtaken; two threads, the
  builtin connector and a program, two providers, of which a second catalog has
  one at another URL; saves include a config whose selection has the wrong type and
  one without watch. The words of commands are a provider and a model.

### Fairness

`ConfigStore!FairSpec`: every process that can take its next step does (weak
fairness per process). Its loops sleep for a bounded time, its system calls
return, and a connector check is bounded by `timeout_seconds`, as far as
`ConnectorProcess` shows calls to return. Saves, failures and crashes are not
fair; `Converges` says in its premise that failures and crashes stop.
`ConnectorProcess!FairSpec`: the parent goes on when it can and time
passes; nothing is assumed of the command or of its helper.
`TelegramGateway!FairSpec`: weak fairness of the loop, and strong fairness of
`Ready` and `Poll`, an assumption about the world, that a gateway that tries again
and again finds its config loadable and the server answering once in a
while; that its `Handle` returns is what `ConnectorProcess` and `Handler` are about.
`Handler!FairSpec`: weak fairness of `Handle`: a request to a model has
LLM_REQUEST_TIMEOUT, a shell COMMAND_TIMEOUT. Some waits have no limit: for an rg on a
pipe or a device (`local_tools.rs:500`), for programs that hold the pipes of a shell
that ended in time (`local_tools.rs:662`, `614`), for a sudo whose kill is refused
(`local_tools.rs:640`), for a connector call in one of the three cases below. Then
`hung` is not empty and `Handle` disabled, and `EveryMessageAnswered` is under the
condition that what is waited for ends each time. Processes, people and crashes are
not fair. `Settings` and the job store have no liveness: their
commands end or are never taken up.

### Findings

1. `GatewayRace`: `load_with_recovery` (`config_store.rs:72`) promotes a second
   read of the file that was never validated, against `docs/RELIABILITY.md:20`
   and `docs/CONFIG.md:120`.
2. `RollbackRace`: a rollback copies the config file away and then replaces it
   (`config_store.rs:195`), and nothing keeps a save out in between: a good edit is
   overwritten and in no copy, though changes are "transactional"
   (`docs/CONFIG.md:5`).
3. `SetRace`: the temporary file is named after the target alone
   (`config_store.rs:278`), and `set`, the gateway's settings commands, its `cd` and a
   rollback all replace the config file: where two do at once, a reader finds it
   empty or mixed, against "writes atomically" (`docs/CONFIG.md:27`).
4. `Apostrophe`: `strip_prefix_case` (`local_tools.rs:861`) cuts a text at the byte
   length of each phrase, and `split_at` panics inside a character. A text like
   "What’s up with the build", with the apostrophe a phone types, gets "Command
   failed: internal handler panic isolated", against `docs/TELEGRAM.md:59` (plain
   text is treated like `/run`). With Gemini as provider `/run` panics as well
   (`is_terminal_request` parses the prompt again), with any other it does not.

Behaviours the models contain, that limit what the properties can say:

- Two calls that hold one temporary file at once: `Shared` paths in `AtomicWrite`
  are excepted from `NeverTorn`; in `ConfigStore` `raced` remembers that it happened,
  and `SnapshotsValid`, `GatewayStaysUp` and `PrimaryStaysValid` promise nothing
  from then on. `SnapshotsCatchUp` does.
- `set` promotes a config whose connectors nobody checked (`main.rs:219`), and a
  rollback of `watch` can restore exactly that one: `SnapshotsVetted` and `ActiveVetted`
  are about `watch` alone.
- A rollback looks for the snapshot in the `data_dir` the broken config names first
  (`config_store.rs:240`): with several directories it may find an older one there than
  the last good one. `RollsBackToLast` is a theorem for one `data_dir` and writes that
  succeed, and no run has it.
- A request is written before the timeout starts (`connector.rs:368`), `read_to_string`
  (`connector.rs:379`) waits for every process that holds the pipe, and after a kill,
  whose refusal is ignored, the process is waited for (`connector.rs:397`): the three
  conditions of `CallReturns`. Outside of them a call may never return, though
  `README.md:133` wants the parent to stay responsive.
- A command that prints more than a pipe holds is only freed by the timeout,
  because output is read after the process ended (`connector.rs:373`,
  `local_tools.rs:661`).
- Two edits that overlap lose one of the two (`yaml_edit.rs:25`): the exception
  `stale` in `AckedHolds` and `mixed` in `SelectionFits`, which therefore do not speak
  of the edits that overlap, only of all others.
- `kill_terminal` forgets a session whose kill is refused (`local_tools.rs:272`), and
  `sudo_bg` a process whose password is not taken: both answer with an error, and
  `Accounted` leaves them out (`reported`). What kill_terminal, or a timeout, kills is
  `/bin/sh` (`local_tools.rs:276`, `664`): programs the shell started run on, on no list
  (`kids`), with the kill reported as done. `Accounted` is about shells.
- A repeated `pwd` after a `cd`, or a second `term_tail`, is suppressed like any
  repeated call (`llm_router.rs:151`). Tools after a `cd` of the same prompt run in the
  old directory, which the system prompt goes on naming, while `cd` answered "cwd set
  to" the new one (`local_tools.rs:439`): the model has it (`RunCall` goes by `conf`, `Cd`
  changes `file`), no property is about it.
- A failed reply counts as a failure but the loop does not sleep for it
  (`telegram.rs:189`): `BacksOff` is about the delay a failure is given.
- A command whose directory is gone runs in `$HOME` with a warning
  (`executable_cwd`): where a command runs is not part of the model.

## 4. What is proved

All theorems are about `Spec`, for every value of the constants the
assumptions allow (the `ASSUME`s at the head of each module say what kind of
thing each constant is, nothing more).

- `AtomicWriteProofs`: `WholeFiles` (`NeverTorn`), `FilesStay` (`NeverVanishes`) and
  `TurnsImplement` (every step is a step of the register or a stutter), with any
  part of the paths `Shared`. A file is whole only because the temporary file
  renamed onto it is, so the inductive invariant `TurnsInv` adds `OwnsTmp`: on a
  path that is not shared, between open and rename, a process is the only one,
  its descriptor is on the temporary file, and that holds nothing or the whole
  text. Nothing keeps the binary's own processes from sharing every path, which
  is what `ConfigStore` assumes; the register is what they would get from a
  temporary file of their own.
- `ConfigStoreProofs`: `TypeCorrect` for any set of processes, torn writes
  included: what is checked, promoted under or worked with was validated.
  `TypeOK` alone is not inductive (`DataDir` is defined on valid texts only), so it
  is proved with `OnlyValid`. `WatchVetted`, for a single watcher: every snapshot
  and every active config passed its connector check, for any number of saves,
  crashes and failed writes. `VettedInv` adds `OnlyPassedInFlight`: what it
  promotes, copies back or is writing has passed too.
- `ConfigRecoveryProofs`: what recovery keeps, each under the hypotheses its run has,
  here as assumptions on `Watchers`, `Loaders`, `Setters`, `Quiet`, `MayFail` and
  `Crashing`. `RollsBack` (`RollsBackToLast`, which no run has: with several directories
  or failing writes it does not hold): between promotions both snapshots are
  the config the watcher last went on with, and it looks nowhere else (`LastInv`).
  `GatewayUp` (`GatewayStaysUp`), for one gateway whose writes succeed: what it promotes
  is what it validated (`GatewayInv`), the fallback directory has a snapshot as soon as
  any has, and the list of candidates ends in it (`UpInv`). `PrimaryValid`
  (`PrimaryStaysValid`) and `GatewaySnapshots` (`SnapshotsValid`) are about any number of
  watches, gateways with their commands and `set`s, with failures and crashes and
  whatever people save, up to the moment at which two calls hold one temporary file:
  until then each file has one writer at a time, whose text is valid and whose
  temporary file holds nothing or all of it (`KeptInv`). For the config file alone that
  is all (`Files`); where snapshots count, as they do for a rollback, no save may land
  between the two reads of a `load_with_recovery`.
  Two theorems need no such hypothesis, any processes of any kind run at once and
  fail: `SnapshotsStay`, no snapshot vanishes and none changes but by a process
  that promotes a config it validated, to that config's `data_dir` or the fallback
  (`OneWriteInv`: which file and text each control point may be writing); and
  `OperationsEnd`, every operation is over after fifteen steps of its own at most,
  and no step of another process defers it. `StepsLeft` counts what can still come
  from a control point, with the directories to try and the steps of the write;
  it goes down in every step of the process and up in no other.
- `JobStoreProofs`: type and the four safety properties are inductive together
  (`JobInv`: that no job ends twice needs the queue order, which needs
  that queues and running jobs name issued jobs), and `StoreImplementsLifecycle`
  maps enqueue, start_next and the three ways to end to the abstract steps.
  `RetainSuffix` says what the truncation of the receipts keeps.
  `StoreRecordsEnds` is about what the history forgets: a job leaves the running
  map only with its own receipt as the last one, and only a full history drops
  receipts, one at a time and the oldest first, a history of none included.
- `ConnectorProcessProofs`: `ConnectorTypeCorrect`, `AnswersAreWhole` and
  `CallsLeaveNoChild`, from the conservation of bytes between command, pipe and
  parent (`AnswerInv`). Three more are the parts of `AnswerArrives` and `CallReturns`
  that are about steps: `AnswersAreKept` (once a command that read its request has
  ended in time, the call can only end with its answer), `CallsNeverStick` (a call
  whose request fits, whose pipes nobody else holds and whose command can be killed, or
  has ended, stays such a call and never waits for the command: until it is over,
  `CanGoOn`, the guards of the parent and of the timeout) and `CallsDescend` (each step of the parent or of time lowers
  `StepsLeft`, at most `MaxRequest + 2 * PipeSize + 7`, and nothing raises it). What they leave
  to TLC is that a step that can be taken is taken.
- `TelegramGatewayProofs`: `GatewayTypeCorrect`, `GatewayHandlesOnce`,
  `GatewayForgetsNothing`, `GatewayInOrder`. `GatewayInv` says that the batch is the run of updates from
  the offset on, and that all below the offset, but for the one in hand, are
  dealt with. `GatewayImplementsDelivery`: taking an update without text and
  settling one are the reader's steps, a request that reaches the server confirms, a
  crash restarts; `ReaderInv` adds that what is in hand or fetched is not
  confirmed yet. `GatewayBacksOff` (`BacksOff`) holds for any count of failures and any
  policy whose largest shift fits its multiplier and reaches the cap. It rests on
  `Shift[k + 1] = 2 * Shift[k]`, which is a proof by induction: the library's
  induction rules take an operator, so `SetInduction` states induction for subsets
  of the naturals, from a least element (`LeastNumber`) of the complement.

- `HandlerProofs`: all four invariants of `Handler`, for any tools, texts, models,
  limits and processes. `HandlerInv` strengthens them: `OwnId` is inductive with
  `IdsSpent` (all ids given are below `nextId`), `RunsOnce` and the bound on rounds
  with `LoopInv`: what is remembered of the conversation is what was run, and a
  loop that goes on has rounds left. `MessagesEnd` is the
  bound behind `EveryMessageAnswered`: a message takes at most
  `MaxRounds * RoundSteps + 1` steps of the handler, whatever the model answers, and
  nothing beside it adds any. `PlainTextRuns` delimits the finding of `Apostrophe`: without a
  character across the end of a phrase, its property holds.
- `SettingsProofs`: all five invariants of `Settings`. `EditedIs` says what a sequence
  of edits leaves at a path; `ValidRoutesAll` and `ValidFollows` are about every
  config that validates; `DefaultsValid` computes that the text of init does. The
  invariant `SettingsInv` joins them: an editor about to write holds a valid text
  (`WriteInv`), which is the edit of the file unless somebody overtook it (so
  that acknowledged values elsewhere are kept, `AckInv`); the handler's
  loaded config is the file's until somebody changes it (`LoadedInv`); each
  settings command sets values that fit (`KindInv`); together the selection fits
  (`FitInv`). The assumptions are those at the head of the modules, among them
  that a catalog's default model is one it accepts, and that the bundled
  catalog has the provider of the default config at its URL. `EditsLeaveTheRest`:
  what `set_values` writes can be loaded, has the values it was given, and is
  elsewhere the file it replaces unless somebody overtook it. `EditsInOrder`: `Edited`,
  which says at once what a list of edits leaves at each path, is what
  `set_nested_value` leaves one edit after the other, for lists of any length.

Only model-checked: that things happen in the end (`Converges`, `SnapshotsCatchUp`,
`AnswerArrives`, `CallReturns`, `EveryMessageTaken`, `EveryMessageAnswered`), because the
prover reaches neither fairness nor ENABLED. What is proved of them is that the work
is bounded: the counts of steps above, for `AnswerArrives`, `CallReturns` and
`EveryMessageAnswered`, and that every operation of `ConfigStore` counts down. Without the hypotheses above, the properties of
`ConfigRecoveryProofs` are not claimed: `GatewayRace` shows one of them fail, `SetRace` what
ends the others.

## 5. What is not modelled

- `config-history/`, its pruning and the rejection log: nothing reads them back.
- `reset data` and `reset logs`: they remove snapshots and logs of the installed
  state directory. `Settings` falls back to the other directory's snapshot alone,
  which is what is left afterwards.
- Services and the installer: calls of systemctl and launchctl. Environment
  files: parsed once at start.
- The connectors' own code: one request, one response; the parent's view is
  `ConnectorProcess`, for any program.
- Who may send messages, passwords and tokens as such.
- What files contain, how output is cut and formatted, the JSON of requests and
  responses, help and status texts, jitter-free sleeping itself, a disk that
  loses data on power failure.
- In `Settings` reading and writing a file is one step; what the steps of
  `atomic_write` allow is in `AtomicWrite` and `ConfigStore`. In `ConfigStore` what an
  edit does and what is valid are any functions (`Edit`, `Valid`); `ConfigRules`
  says which they are.

## 6. Order of the work, and what is left

The modules were written in the order of the table in section 2, each followed by
its proofs. Left, in the order of their worth:

1. `ConfigStore` with `ConfigRules`' `Valid` and `Edited` in place of its constants.
2. An abstract watched config (adopt the valid text, or go back to the last good one)
   that `ConfigStore` with a single watcher implements.
3. History pruning, if something comes to read the history.

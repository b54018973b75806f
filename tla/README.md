# gaia-library: specifications, model checks and proofs

gaia-library keeps a person's and their agents' long-term memory in one SQLite
database. Agents and humans *propose* changes, humans *decide* them, and
everything is scoped by affiliation, the confidentiality boundary. The library
is reached through MCP (HTTP or stdio), through the command line and through a
desktop application. This directory holds TLA+ modules of its core, the TLC
configurations that check them on small instances, and proofs checked by TLAPS
for every size.

Reading order: `KnowledgeBase`, `ReviewedMemory`, `ProposalQueue`, then
`ContextReads`; `HttpSessions`; `ClientConfig`, `ClientRegistry`, `ConfigStore`;
`AddressRules`, `UrlFetch`, `FileRead`, `SourceGate`; and of the desktop
`ApplicationLife` and `DesktopLifecycle`, `UpdateFlow`, `CliLink`,
`ProposalDesk`. The `MC*` modules give each run its instance, the `*Proofs`
modules hold the theorems. `PROJECT.json` maps every definition to the lines it
models and lists hazards, runs, mutants and theorems.

## 1. Inventory

### Memory tables (`gaia-core/storage`, `domain/predicates.rs`, migrations)
*State*: eight tables of memory rows - identity rows (people, organizations,
entities), shared by all scopes, and content rows (engagements, interactions,
facts, refs, glossary terms), each in one scope; links between them; facts form
version chains through `superseded_by`.
*Operations*: insert and update of every table, `facts::supersede`, existence
checks by scope (`targets.rs`), the predicate registry.
*Hard*: partial updates merge with the row as it is at approval; ids named in a
proposal may not exist yet, belong to another scope or be superseded by then.
*Correct when*: links stay in scope, predicate pairs stay whole, versions form
one line, history is frozen.

### Proposal queue (`tools/propose.rs`, `domain/proposals.rs`, `storage/proposals.rs`, `storage/audit.rs`, `scope.rs`, `admin.rs`)
*State*: proposals with status, result, source and decider; the audit log; the
registered affiliations.
*Operations*: `propose_update`, `approve_proposal`, `reject_proposal`,
`list_proposals`, `add_affiliation`.
*Interacts*: applies to the memory tables inside one transaction; is called by
every front end.
*Hard*: resends of a call whose answer was lost, request ids shared by clients
and scopes, two deciders at once, an approval that fails half way, a limit on
undecided proposals.
*Correct when*: a resend changes nothing and is recognised exactly, a decision
is final and takes effect once, the quota holds, the log agrees with the table.

### HTTP server and sessions (`gaia-mcp/http.rs`, `http/sessions.rs`, `gaia-core/auth.rs`)
*State*: owner and capacity permit of each MCP session, beside the SDK's own
table; the cancellation token; the keys, re-read from the config file.
*Operations*: verify a request, check the owner, create, initialise, use and
close a session, expire it, shut down, close all.
*Hard*: a request can be dropped at any await; three kinds of tasks close
sessions in two steps; keys and names change under running requests; shutdown
runs into requests in flight.
*Correct when*: permits balance, a session without permit does not exist, a
request runs under the session's owner, shutdown ends and leaves nothing.

### Config file, key storage and first run (`gaia-core/config.rs`, `admin.rs`; desktop `client_settings.rs`, `keychain.rs`, `first_run.rs`; `gaia client`, `gaia init`)
*State*: clients, key hashes, default client in one TOML file; the lock beside
it; plaintext keys in the Keychain or a private file; the affiliations in the
database.
*Operations*: create once with the database's initialisation, locked
read-modify-write, add, rename, rotate; store, move, delete and load keys.
*Interacts*: the HTTP server reads clients and keys for every request; the
desktop's settings and any number of `gaia` commands edit the file.
*Hard*: several processes and several paths to one file; refusals, failures and
crashes at every step; the key is stored after the lock was released.
*Correct when*: no edit is lost or undone, a key keeps its authority, every saved
file can be loaded, the loser of two first runs leaves no trace, a key that was
reported stored can be shown again, no copy of a moved key stays silently.

### Desktop lifecycle (`state.rs`, `lifecycle.rs`, `lib.rs`, `commands.rs`, `settings_commands.rs`)
*State*: the initialisation, the embedded server and the reason why there is
none, two locks, the closing and exit flags.
*Operations*: bootstrap, first setup, the settings operations, start of the
server, status, exit and restart.
*Interacts*: writes the configuration through `ConfigStore`'s commands, runs the
HTTP server.
*Hard*: a start races an exit, a command is cancelled while its work goes on in
a blocking thread, several exit requests arrive, a restart runs its shutdown on
the main thread; a start holds its running server in a local until it has the
lock of the server's slot.
*Correct when*: no server the application has outlives a finished shutdown, the
window is told of it, no write is cut off, a published setup is served, an exit
that was asked for happens.

### Source resolution (`gaia-core/sources`, `tools/resolve_source.rs`, `gaia-mcp/sources`)
*State*: the permits of each resolver's gate, the work of each call, the child
process of narumi.
*Operations*: resolve a ref through the file, url or narumi resolver, each with
the settings read anew.
*Hard*: timeouts race answers, the permit is dropped while a child may still
run, files are swapped between check and use, redirects and names that resolve
differently each time.
*Correct when*: the gate's limit holds and covers every child, nothing outside
the settings is reached, an answer says what it leaves out, every call ends.

### Updater (`updater.rs`, `update_menu.rs`, `updater_signature.rs`)
*State*: the flag of the flow in progress, the menu, the progress of a download.
*Operations*: the check of the launch, manual checks, download with its
watchdog, installation, the two dialogs.
*Hard*: a manual check reads the menu before it claims the flag; the flag and
the menu are given back one after the other; servers fall silent.
*Correct when*: one flow at a time, the menu shows it, it ends, who asked is told.

### CLI link (`cli_link.rs`)
*State*: what is at `~/.local/bin/gaia`, and a private directory for what it
replaces. *Operations*: create, replace with confirmation, restore on failure.
*Hard*: other programs change the place at any step; crashes.
*Correct when*: only what the user confirmed is removed, the rest is back or told.

### Desktop UI flows (`desktop/ui/src`)
*State*: the held operation of the form, the decisions, the list with its
version. *Operations*: propose and approve an entry, look up its outcome, decide
a proposal, list them. *Interacts*: calls the queue over tauri.
*Hard*: lost answers after an effect, late answers to superseded requests, other
deciders, a rename of the human client between two calls.
*Correct when*: the window reports what is so, nothing is proposed twice, a list
is not older than what was decided here, nothing stays busy.

### Read tools (`search_context`, `get_*`, `resolve_speakers`)
*State*: none but the audit entries of cross-scope reads.
*Hard*: an answer is put together from several SELECTs without a transaction.
*Correct when*: other scopes leave no trace, facts come with their sources, a
known name is not answered as somebody else's.

### Stdio server, contracts, command line
The stdio server serves one fixed client; contracts are schemas and generated
types; the command line parses and prints.

## 2. Plan

| # | Module | Composes | Abstract specification | State |
|---|--------|----------|------------------------|-------|
| 1 | `KnowledgeBase`, `ProposalQueue` | the queue over the tables | `ReviewedMemory` | checked, proved |
| 2 | `HttpSessions` | requests, SDK workers, shutdown | - | checked, proved |
| 3 | `ClientConfig`, `ConfigStore` | processes, the lock, the file, the keychain, the first run | `ClientRegistry` | checked, proved |
| 4 | `DesktopLifecycle` | commands, server, exit and restart | `ApplicationLife` | checked, proved |
| 5 | `AddressRules`, `UrlFetch`, `FileRead`, `SourceGate` | calls, gate, clock, files, redirects, the narumi child | - | checked, proved |
| 6 | `UpdateFlow` | flows, flag, menu, download | - | checked, proved |
| 7 | `ProposalDesk` | form, decisions, list, queue | - | checked, proved |
| 8 | `ContextReads` | the reads beside approvals on `KnowledgeBase` | - | checked, proved |
| 9 | `CliLink` | the desktop and other programs | - | checked, proved |

Left: the answers `ProposalDesk` gets are not derived from `ProposalQueue`,
which has no replies; that its queue changes as the real one does is proved
(`QueueServesDesk`, section 5).

## 3. What is modelled

### `KnowledgeBase`
Constants and operators only. A table is a sequence of rows; the position is the
id, since SQLite numbers rows upwards and no statement deletes any. All tables
share one row shape: `parent` (the one row it hangs from), `people` (links that
only accumulate), `predicate` and `value`, `text` for the required and other
merged columns (an interaction's or a fact's `kind` is folded in here), and
`superseded_by`. `RowVisible` is `targets::exists`: a content row of another
scope does not exist for the caller. `CanInsert`/`Insert`, `CanUpdate`/`Update`,
`CanSupersede`/`Supersede` are the storage calls with all their refusals.

### `ProposalQueue`
| TLA+ | code |
|---|---|
| `proposals`, `audit`, `affiliations`, `db` | the SQLite tables |
| `call[w]` | a decision between `decision_scopes` and its transaction |
| `sent` | history variable: who sent what |
| `ProposeDuplicate/Refused/Conflict/Accepted` | the four outcomes of `propose_update` |
| `BeginDecision` | role check, `decision_scopes` with its audit entry |
| `ApproveInsert/Update/Supersede`, `RejectProposal` | the decision transactions |
| `DecisionRolledBack` | any error or crash in them |
| `AddAffiliation` | `admin::add_affiliation` |

Every write is one `BEGIN IMMEDIATE` transaction, hence one action; the two-step
decision is the only place where the lock is let go in between. A crash leaves
the committed tables and loses the calls, which `DecisionRolledBack` shows. The
audit log is a set: repeated equal entries are not told apart.
`list_proposals` only reads and writes the same cross-scope entry as a decision.

### `ReviewedMemory`
What the queue promises with no tables, scopes or calls: memory changes only in
the step that approves a submitted, undecided request; history only grows. The
refinement maps requests by their ids, memory to `db` and history to the
superseded facts.

### `HttpSessions`
| TLA+ | code |
|---|---|
| `req[r]` | a connection's request: where in the middleware and the SDK it stands, its identity, its session, its own `capacity_denied` |
| `slots`, `owners` | the semaphore and the owner table of `OwnedSessionManager` |
| `live`, `worker` | the SDK's table and per-session tasks (external) |
| `closing[t]` | a task between the two halves of `close_session` |
| `server`, `ids` | `BoundServer`: serving, cancelled, drained, closing, closed or failed |
| `keys`, `issued` | the config's `[keys]` |

Steps are cut at the awaits of the code. `ConnectionLost` drops a request at any
of them, as hyper does; the `select!` of the middleware is `CancelRequest`. The
SDK's `close_session` may report an error, and then `close_all` stops (`server`
becomes "failed") while the SDK's workers end by themselves. After cancellation
a connection takes no further request once it is answered.

Abstractions: a client without a key counts as not being in the config; a config
that cannot be read may reject any request (the code fails closed); a session is
used once per id (the SDK gives random ids).

### `ClientConfig`, `ClientRegistry`
`ClientConfig` has no state: a configuration as a record (identity, key and
default client), `Valid` for `Config::validate`, and the three edits with their
refusals. A client's role and default scope are one identity; a hash stands for
its key, and keys are random and never equal by chance. `ClientRegistry` is the
promise: one registry, created once, changed by one applicable edit at a time,
with keys that are new when issued.

### `ConfigStore`
| TLA+ | code |
|---|---|
| `file` | config.toml; always replaced whole, by a rename or a hard link |
| `lock` | the `.lock` file beside each path, held by one process or none |
| `op[p]` | the `gaia` command or settings operation process `p` is in, its loaded copy and, for the desktop, the key it stores |
| `keychain`, `keyfile` | the desktop's two places for plaintext keys |
| `affiliations`, `audit` | what a first run writes to the database |
| `reply` | how the desktop's last rename was answered |
| `issued`, `used`, `promised` | history: keys generated, keys the file has held, keys reported as stored |
| `BeginEdit`, `EditUnderLock`, `EditRefused`, `SaveEdit`, `SaveFails` | `Config::update` |
| `BeginInit`, `InitRefused`, `InitUnderLock`, `InitFails`, `SaveFirst` | `Config::create_with`, called by `gaia init` and by the desktop's setup |
| `StoreInKeychain`, `StoreInFile`, `StoreFails`, `NothingToMove`, `ClearKeychain`, `ClearFile` | `store_with` and `move_with` |
| `Crash` | a process dies; the operating system releases its lock |

Steps are cut where another process can come between: before the lock, between
reading and renaming, after each store and delete. The desktop is one process
whose settings operations wait for each other (`setup_lock`, and the application
runs in a single instance), so the reads and writes of its key storage between
two cuts are one step. A chain of symbolic links is the constant `Target`: a
path leads to the configuration or is not followed. Reading failures of a key
that is to be moved are part of `StoreFails`, other reading failures end a
command like `Crash`.

### `DesktopLifecycle`, `ApplicationLife`
| TLA+ | code |
|---|---|
| `init`, `setupLock`, `httpLock`, `closing`, `server`, `error` | `DesktopState` and `HttpState` |
| `task[t]` | a command, or the task of the launch, at its awaits |
| `job[c]` | the blocking work of a command; it holds `setup_lock` and outlives the command |
| `stop[s]` | the shutdown of an exit, in a task, and of a restart, on the main thread |
| `exit` | `ExitState` |
| `listening` | how many servers accept requests |
| `lost` | how many of them have no handle any more (a history variable: the code does not count them) |
| `Call`, `EnterSetup`, `JobWrites`, `JobFails`, `JobEnds`, `JoinJob`, `Drop` | `initialize_with`, `run_settings` |
| `Startup`, `StartHttp`, `EnterHttp`, `Bind`, `StoreServer` | the launch and `start_http` |
| `Close`, `StopSetup`, `StopHttp`, `ServerStops` | `shutdown` |
| `ExitRequested`, `Finish`, `ExitGranted`, `RestartRequested`, `RestartGranted` | `on_run_event` and tauri's part in it |

`Drop` cancels a command at any of its awaits (`Awaits`): the two locks, its
blocking work, which goes on, and in `start_http` the bind and the lock of the
server's slot (state.rs:304), which `server_status` holds while it reads the
configuration. There the server runs already; `BoundServer` has no `Drop` and its
task is detached (http.rs:40), so it serves on while its handle is gone: `lost`
counts it, and it keeps its port (`Bind`, `Ports`). The task of the launch and
the shutdowns are not cancelled: nobody holds a handle to their tasks. The slot's
lock is no variable: it is the innermost one, and whoever holds it does not
await. `InitElsewhere` is `gaia init` run beside the desktop; `Crash` and the
Quit of macOS are external. Windows, the tray and single-instance activation are
left out. `ApplicationLife` promises one write at a time, one server and an end
that comes only after a shutdown that left nothing running which the application
could stop; `Lose` is the start that is cancelled with its server, and a crash
may drop everything at any time.

### `AddressRules`, `UrlFetch`, `FileRead`, `SourceGate`
`AddressRules` holds the tables of `sources/net.rs` as operators on octets and
words, with the IPv4 addresses inside IPv6 ones, and states beside them, without
the tables, which ranges are reserved (`Reserved`): what `Internal` holds is in
these (`InternalIsReserved`). `UrlFetch` is the loop of `sources/url.rs`: check a
url, resolve its host anew, connect to one of the addresses let through, follow a
redirect or read the body up to the limit, all against one deadline. `FileRead`
is `sources/file.rs` step by step; the file system is what each call finds.
`SourceGate` composes both with the gate, the settings and the narumi task
(`StartChild`, `Handshake`, `Ask`, `Cancel`, `Reap`) under a clock in ticks:
`Tick` waits for whatever is due, so that timers fire on time. The call and its
narumi task share one clock from `SpawnFetch` on. In the code the task takes its
deadline when it first runs (narumi.rs:162), after the call has begun to wait:
the model takes a spawned task to be started at once, and a runtime whose workers
are all busy for longer than the grace exceeds what is waited for a cancelled
child is assumed away. The gate's call waits for its task a grace period longer
(`GRACE` of `narumi.rs`, five seconds; what the MCP client waits for a child that
it cancelled is external and assumed to be shorter, `GraceCoversCancel`), and a
killed child may never be reaped. Connecting has a shorter timeout of its own
within the budget and is not told apart. Sizes are small numbers, a byte and a
character alike; media types and encodings are supported or not; a byte order
mark is not counted; notes that say nothing of length are left out, as are the
texts of errors. Directories above a checked file stay what they were between the
check and the opening: the design accepts this.

### `UpdateFlow`
A flow per check: `reading` the menu, `claiming` the flag, checking, asking,
downloading, installing, asking for the restart; `dropping` and `releasing` are
the two halves of the end of `FlowGuard`. `progress` is `DownloadProgress` with
the watchdog's clock. The signature check of the plugin is a failure of the
download. `installs` counts what this process installed.

### `CliLink`
`create_at` cut at its system calls, with `OthersPut` and `OthersRemove` between
any two. `stage` is the private directory of a call, `kept` what is left in such
directories. Entries have inode numbers, which are used again, because the code
compares them. `step` is the call that comes next, `before` what the first look
found, `answer` what the caller was told, and `touched` whether anyone else
changed the place during the call.

### `ProposalDesk`
| TLA+ | code |
|---|---|
| `save` | `ManualSaveOperation` with its phase |
| `decisions`, `revision` | `ProposalDecisions` |
| `panel`, `version`, `snapshot`, `runs` | `Proposals.tsx` over `LatestRequest` and `SingleFlight` |
| `locked` | `pendingMutations` |
| `calls` | the tauri calls in flight, each keyed by the operation that awaits it |
| `queue`, `Serve`, `OthersDecide` | the queue's promise about the proposals made here: `propose_update` recognises a request id, a decision takes effect once |

The window is one thread, so a step runs from one `await` to the next. An answer
may be lost after the call took effect (`Answers`). Select, refresh and the
effect that fetches are steps of their own; an event is handled only after
React has run the effects of the one before (`panel.fetched = Key`). The
agents' own proposals appear only as a page of the list that may be full. A
retry after a rename of the human client is answered as a conflict, which the
form keeps as an error that cannot be corrected until the window is opened
anew. Left out: other scopes, the choice of the limit, reopening of the panel.

### `ContextReads`
A call is the list of its queries (`Plan`, with the `FollowUps` of what they
found), taken in the order of its
handler; `Approve` commits between any two of them. A read tool holds its
connection but no transaction (`with_conn`). The small SELECTs that complete a
row are folded into the step of the list they belong to. Left out: ranking, the
`types` filter, the cut to `limit`, partial matches for unknown names; one
display name is resolved per call; affiliations do not change during a run.
`person_aliases` and the normal form of names are modelled.

## 4. What is checked

| Run | Instance | Properties |
|---|---|---|
| `fact_review` | one scope, two people, one fact, six contents, three request ids, two workers | `DecisionsTakeEffectOnce`, `VersionsAgree`, `PairsWellFormed`, `ImplementsReviewedMemory` |
| `scoped_retries` | two scopes, agent and human, eight contents with every form of source, two request ids, limit 1 | `SubmissionsHold`, `SourcesAttached`, `LinksInScope` |
| `context_reads` | two scopes with rows in most tables and one that is not registered, every tool by id and by name, two of seven approvals | `UnseenLeavesNoTrace`, `FactsAreShownWhole`, `KnownNamesKeepTheirPeople` |
| `session_pool` | two requests, two sessions, two clients, two keys, one permit | `PermitsBalanced`, `LiveSessionsHoldPermits`, `ServedUnderOwner`, `CleanShutdown`, `DenialsAreLocal` |
| `server_shutdown` | two requests, two sessions, one client, two permits, fair | `DeadSessionsFreePermits`, `ShutdownEnds` |
| `settings` | desktop and command line from no configuration on, three names, two keys, a path, a link and a broken link, fair | `EditsStayValid`, `StoredKeysRetrievable`, `NoCopyLeftSilently`, `FirstRunHolds`, `AuthorityKept`, `LockGivenUp`, `ImplementsClientRegistry` |
| `desktop` | a command at a time, the launch, an exit, a restart, any number of launches, two ports, fair | `WindowKnows`, `EndsInOrder`, `NothingHangs` |
| `updates` | the check of the launch and two manual ones, known and unknown sizes, up to two installations, fair | `MenuTellsTheFlow`, `ReportsFit`, `FlowsEnd` |
| `updates_twice` | the check of the launch and a manual one | `InstalledOnce`, violated |
| `cli_link` | three inodes, five targets, two kept entries | `RemovesOnlyConfirmed`, `AnswersTell` |
| `sources` | two calls, limits 2, 1 and 0 (which is 1), ten urls, boundary addresses of every blocked range, one redirect, fair | `PermitsCovered`, `ReachesOnlyAllowed`, `AnswersSound`, `AnswersInTime` |
| `proposal_desk` | two entries, one refused; one rename, one decision that has finished, three events, fair | `WindowTellsTheTruth`, `CorrectsOnlyUnproposed`, `ListIsFresh`, `PanelsSettle` |

`updates_twice` is a finding. A comment at updater.rs:286 says that the flag
keeps a download and an installation from running twice when the check of the
launch meets a manual one. But `spawn_manual_check` reads the menu before the
flow is claimed. If the running flow ends in between, its restart put off, the
manual check does not know of the installed update: it downloads and installs
the same one again.

What a cancelled start leaves is no finding of a run of its own, since nothing in
`src/` cancels a command that starts the server, but TLC shows it: with the
invariant `process \in {"exited", "restarted"} => listening = 0` added to
`desktop` it finds in 15 states a setup that goes on to start the server and is
cancelled at state.rs:304, and an exit whose shutdown finds no server to stop.
The desktop's design says without a condition that the end stops the HTTP server
(docs/superpowers/specs/2026-08-27-gaia-library-desktop-design.md:64 and :67),
and what it and state.rs:255 and :276 say of cancelled commands is said of what
they save. So `WindowKnows` and `EndsInOrder` say the strongest thing that is
true: such servers, and no others, are unknown to the window and left by an
orderly end. They end with the process.

Bounds. *Queue*: three request ids let three proposals meet, which is what a
lost supersede or a broken pair needs (two that conflict and one decided between
them); two workers are two deciders; the limit of 1 is reached with an undecided
and a refused proposal in play. *Reads*: two approvals, so that a name can be
taken away and given to another between two queries. *Sessions*: the limit is
below the number of requests, so 429 happens, and every close can be raced by a
second request, the worker and the joining task; two keys for two clients leave
one to rotate to; the shutdown has two permits so that `close_all` can fail with
another session open. *Configuration*: two processes are enough for a lost
update and for an edit between the desktop's save and its storing; two keys
allow one rotation after the first key, three names a rename into a name that
was freed. *Desktop*: one command, since with two the liveness is beyond five
minutes; the theorems hold for any number. Launches are not bounded: each begins
in one of finitely many states, and the config one of them published meets the
next. Two ports, so that a start that lost its server leaves one to the next, and
a second loss leaves none. *Updater*: three flows are one at work, one
that waits for the flag and one that has read the menu; sizes below, at and
above the announced one. *CLI link*: three inodes, so that a number freed comes
back. *Sources*: two calls meet at a gate of one and of two; a redirect is
followed once and refused the second time; sizes reach from nothing to beyond
both limits. *Window*: two entries at most one of which is held at a time, a
list asked for under each status before and after a decision. `MaxRevision`,
`MaxRenames`, `MaxRequests` and `MaxWork` (requests, selections and fetches) cap
its counters, `MaxInstalls`, `MaxKept` and `MaxApprovals` those
of the other modules; `MaxWork` stops only what the user begins, never an answer
on its way. Request ids, sessions and requests are symmetric in the safety runs;
fair runs use no symmetry.

Every property is shown to be able to fail by a mutant of the mapped code.

Fairness. In `server_shutdown`, `CancelRequest` is weakly fair because the
middleware's `select!` polls the cancellation first; the joining task is one
sequential future that the shutdown awaits; the SDK's workers listen to the
cancellation token and to the end of their session, and tokio runs every task
that is ready. In `settings` only the step that ends the holding of the lock is
fair: the holder makes blocking calls that return, with or without success, or
it dies; `flock` promises no order, so nobody is promised the lock. In `desktop`
the tasks, the blocking work and the run loop are weakly fair, and the steps
that take a lock are strongly fair, since tokio's mutexes queue in the order of
asking. In `updates` the tasks and the watchdog's clock are weakly fair; the
user need not answer nor the server deliver. In `sources` the threads and the
clock are weakly fair, the reaping of a killed child is not. In `proposal_desk`
every call is answered, if only with an error (tauri answers or rejects each
invocation), and every continuation and effect runs. Nothing is assumed of
users, clients, admins, other programs or crashes.

Deadlock is not checked where the system may stop: a server that was shut down, a
window with nothing left to do within the bounds, and the violated run.

## 5. What is proved

Proofs hold for all values of the constants that meet the named assumptions.

*Queue* (`KnowledgeBaseProofs`, `ProposalQueueProofs`; `VocabularyAssumption`,
`QueueAssumption`, `SeedAssumption`). `KnowledgeBaseProofs` shows for each
storage call what it does to the tables and that it keeps each table property.
The inductive invariant is `IInv == TypeOK /\ Sound(db) /\ UniqueRequests`: the
table properties need each other (a supersede keeps the line only because both
facts have the same parent, and links need well-typed rows), and unique request
ids make "approved" and "rejected" of the abstract specification disjoint. From
it follow `TypeCorrect`, `VersionsFormOneLine`, `PairsStayWellFormed`,
`LinksStayInScope`, `HistoryStaysFrozen`, `DecisionsAreFinal`, `QuotaRespected`
and the refinement `QueueImplementsPromise`. The four properties that join
proposals with tables are inductions on top of it: a lemma of each approval says
which rows it makes and which stay (`Outcomes`). `VersionsStayAgreed` follows
the fact each approved supersede left; `SourcesStayAttached` the source each
approval attached; `SubmissionsAreHeld` compares each resend with the record of
what was sent; `DecisionsHappenOnce` counts the rows beyond the seed, one for
each approved insertion and each source, and the verdicts of the log.
`QueueServesDesk` ties the queue to what `ProposalDesk` takes for granted of it:
reduced to request, proposer and status, each step appends one pending proposal
under an unused request id, decides one pending proposal, or changes nothing.

*Sessions* (`HttpSessionsProofs`; `MaxSessionsIsNat`, `FiniteTasks`,
`TasksAreDistinct`, `NoneIsNothing`). `IInv` joins `TypeOK`, `PermitsBalanced`
and `Sound`, which says besides the properties themselves that a request which
is past the middleware's check has an identity and a session given out
(`RequestsSettled`), that owner entries belong to sessions with a worker
(`EntriesGivenOut`), that a task between the halves of a close has taken the
SDK's session away (`ClosesUnderway`), and that when the joining task lists or
closes sessions no request can create or bind one (`JoinInOrder`). Without the
last two neither `LiveSessionsHoldPermits` nor `CleanShutdown` is inductive.
`DenialsAreLocal` needs that a request that met the limit has no session, and
that one that initialises holds none until its session is made (`DenialFits`).

*Configuration* (`ConfigStoreProofs`; `ConfigAssumption`, `StoreAssumption`).
The lemmas on edits say what each does to the clients, keys and default of any
configuration (`ApplyKeys`, `ApplyRegisters`, `ApplyAuthority`) and that a valid
configuration stays valid under a key it does not hold (`ApplyValid`). `FileInv`
says that whoever saves holds the one lock (`SaverHoldsLock`), and therefore
that what it saves is one applicable edit of what the file holds at this moment,
with a key the file has never held (`SavesAreEdits`): without it no statement
about the saved copy survives a step of another process. From it follow
`EditsAlwaysValid`, `ReplacedKeysNeverReturn`, `AuthorityIsKept`,
`NoTraceOfTheLoser` and the refinement `RegistryImplemented`. `VaultInv` adds
that what is promised is in one of the two places, and that while the desktop
stores a key nothing is promised under the old name and no other key under the
new one: with it `StoredKeysStayRetrievable` and `NothingLeftSilently`.
`FirstRunsLeaveOne` adds what the database holds while a first run is between
its initialisation and the publication of the file.

*Desktop* (`DesktopProofs`; `TasksDiffer`). `Ordered` says who holds each lock
(`LocksHeld`), how many servers there are beside the lost ones while one is being
started or stopped (`ServersCounted`), that a runtime is there wherever the
server is dealt with, and that a finished shutdown left nothing but what was lost
and nothing starts after it (`ShutForGood`). The abstract end is only a step of
`ApplicationLife` because of the last; a cancelled start is its `Lose` because
the start holds `http_lifecycle`, so that no shutdown has finished by then.
`PortsAreCounted` is not needed by the proofs: they hold for any number of ports.

*Sources* (`SourceGateProofs`; `LimitIsNat`, `TimesAreNat`, `GraceCoversCancel`,
`SettingsAreTyped`, `ForeignIsForeign`, `FetchLimits`, `InternalIsReserved`).
Besides the types, `AnswersAreSound` rests on what each resolver hands over;
`PermitsAreCovered` on a relation between the clocks of a call and of its task:
the grace the call grants (`Grace`) is longer than what the task waits for the
child after it cancelled (`CancelWait`), so that a call never gives up before its
task has killed the child. `NoCallOverstays` is the safety half of
`AnswersInTime`: every hop is called with what is left of one deadline
(`PageTimed`), and a call begins only when the task of the one before is over
(`TasksAreOver`), so that no older clock is taken for its own.
`TablesHoldReserved` compares the tables of blocks with the reserved ranges for
all 2^32 and all 2^128 addresses, the ones that hold an IPv4 address included:
one lemma for the blocks that end with an octet or a word (`WholeParts`,
`WholeWords`), one for those that end within (`SplitParts`, `FirstBits`).
`OnlyAllowedIsReached` rests on it, and on each hop being checked again
(`PageChecked`).

*Updater* (`DesktopProofs`; `StartupChecks`, `SizesAreNat`). `OneFlowAtATime`
and `MenuAlwaysTells` are one induction: the menu is not overwritten because the
flow that writes it is alone. `ReportsAlwaysFit` needs the arithmetic of the
percentage for any sizes (`ChunkAdvances`).

*Window* (`ProposalDeskProofs`; `DeskAssumption`, `NoneIsNothing`). The queue
only grows and decides what is undecided (`GrowsTo`); therefore what an answer
said when it was given is so when it arrives (`Fits`), however late: except that
"not proposed" holds only while the operation that asks is alone, which is why
`SaveStays` speaks of the phase of the form. `SaveHeld` and `DecisionsHeld` tie
each operation to the call it awaits. For `ListIsFresh`, `Fresh` says of each
list, held or on its way, that it carries the revision of its key and, when that
is the current one, misses no decision that has finished; the step that finishes
one begins a new revision and so leaves nothing to say of the older lists.

*CLI link* (`DesktopProofs`; `TargetsAreKnown`, `NothingIsNothing`). `LinkInv`
adds to `RemovesOnlyConfirmed` and `AnswersTell` what a call may rely on as long
as nobody else acted (`CallAlone`): while it decides, the place holds what was
seen first; once that was moved away, the private directory holds exactly it and
the place is free; and what was published is the link asked for. An answer that
says less than the place shows is therefore only possible when `touched`, which
is what `AnswersTell` allows.

*Reads* (`ContextReadsProofs`; `ApprovalsAssumption`, `SeedAssumption`,
`AsksAssumption`, `VocabularyAssumption`). The tables keep the properties of
`KnowledgeBaseProofs` and only grow (`Grows`): rows stay, with their scopes and
what they hang from, and a fact is replaced only by one that was not there when
the query before read. `CallInv` says what holds between any two queries of a
call: what the queries still to come rely on (`QueryFits`) and their order
(`OrderFits`); of each fact shown so far that it is in sight, hangs from what
was asked about, that every ref it had when it was read is shown or the query
that reads it is still to come, and that no fact beside it replaced it
(`FactFits`); and that the people known by the name asked for keep it. It has
one lemma for what each tool begins with, one for each kind of query and one for
an approval between two. That every query takes the same from the tables without
the rows out of sight (`TakenAlike`) is a lemma for each query on the links of
rows in sight, which lead to rows in sight.

*Only model-checked*: liveness (`DeadSessionsFreePermits`, `ShutdownEnds`,
`LockGivenUp`, `NothingHangs`, `FlowsEnd`, `AnswersInTime`, `PanelsSettle`),
which under fairness is out of the prover's reach; of `AnswersInTime` the half
that bounds the time is proved. Every other property of a passing run is a
theorem.

## 6. What is not modelled

*Queue and tables*: full-text triggers, date and size formats; sequences of
renames seen by the queue alone (a renamed client is a new client to it; what a
rename does to a resend is in `ProposalDesk`).

*HTTP server*: requests that name no session and do not initialise one; a tool
call that goes on after its request was dropped, whose effect is that of a call
whose answer was lost (`scoped_retries`); the choice of the port and a second
server on the same pool. The identity is always present in a request that
reaches the session manager, so `MissingOwner` without identity cannot occur.

*Configuration*: editing the file by hand, a loss of power that undoes a rename
whose directory was not synced, two configurations that share the names of
Keychain items, default paths, ports and the parsing of the source settings. One
outcome the code allows is not stated as a property: when a command renames a
client back between the desktop's save and its storing, the key is moved to the
name that is no longer in use, and must be issued again.

*Desktop*: windows, tray, the pages that only show what they load, the guard
that shows one settings action at a time (`settingsAction.ts`).

*Not modelled at all*: the stdio server (one client, no state beyond the tools),
schemas and generated types, argument parsing and printing, release scripts,
icons and documents, which keep no state.

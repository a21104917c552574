# A TLA+ verification of reflective-pi

reflective-pi is a coding agent: a loop that asks a language model, runs the
tools it calls and keeps everything it says in a session file. What sets it
apart is *reflective context*: the agent and the user can hide or summarize
earlier parts of the conversation ("curation"), on a session that is an
append-only tree of entries.

This directory models the session (a log, a tree, a file), the agent loop (runs,
turns, queues, tool batches), the agent session around it (prompts, retries,
recovery, compaction, settling), and three parts where concurrency decides: the
file mutation queue, the credential storage shared by processes, and Chord's
replicated services. TLC checks the modules on small instances; TLAPS proves
theorems about all six for every instance.

    tlc -workers 2 -config SessionLifecycle.cfg MCSession
    tlapm SessionManagerProofs.tla

Paths below are relative to `src/packages`; `SM` is
`coding-agent/src/core/session-manager.ts`.

## 1. The system

| Component | State | Operations | Hard behaviour | What makes it correct |
|---|---|---|---|---|
| Session entries and projection (`SM`, `core/prune.ts`) | none: functions of a log | path to the root, compaction range, resolution of edits, projection to messages, blocks | edits of several branches, old formats and compactions act on one entry | a context is a function of the path alone; an exchange of tool call and results is curated as one |
| Session manager (`SM`) | log, index by id, leaf, label and legacy prune indexes, cache, flushed flag, session file | append (a method per kind of entry), batch of context changes, branch, extract, fork, new, open | crash or failed write at any write; lazily created file; cache keyed by count and leaf | the tree stays a tree; written entries survive; indexes and cache never stale |
| Compaction (`core/compaction/compaction.ts`) | none | choose the cut, summarize, append | omitted entries near the cut | no result is kept without its call |
| Context curation (`core/agent-session.ts`, `prune.ts`, the `/prune` selector) | none of its own | prune, summarize, restore blocks | selection made earlier than it is committed; awaits in the tools | exchanges stay together; edits stay on their branch |
| Agent and loop (`agent/src/agent.ts`, `agent-loop.ts`) | active run and its signal, two queues, pending messages, tool batch | prompt, continue, steer, followUp, clear, abort, reset; one run of turns | calls of the user between any two awaits; hooks and listeners that throw; parallel tools | queued messages are delivered once and in order; results follow calls; an abort ends the run |
| Agent session (`core/agent-session.ts`) | retry counter, compaction controllers, deferred messages | prompt, retry, auto compaction, navigation, settle | all of the above, interleaved | recovery happens once; deferred messages stay out of exchanges; every call returns |
| Session runtime (`core/agent-session-runtime.ts`) | the active session | new, switch, fork, teardown | teardown while a run is active | one active session |
| File mutation queue (`core/tools/file-mutation-queue.ts`, with `edit.ts`, `write.ts`) | one registration chain, one promise chain per real path | register, wait, mutate, release | parallel tools, links, failing and aborted calls | mutations of a file do not overlap; a failing call does not block the others |
| Credentials (`core/auth-storage.ts`, `ai/src/auth/resolve.ts`) | `auth.json`, lock file, a snapshot per process | read, refresh, login, logout, reload | several processes, killed holders, locks taken over | a token is redeemed once; no change is undone; every call ends |
| Chord services (`chord/src/services`) | provider registrations and subscribers; bindings, replicas, instance directory of a consumer | provide, replace, withdraw, spawn, close, commit; use, observe, rebind, ready, dispose | commits that race a snapshot, rebinds that race a start | replicas follow their source without gaps; one subscription per binding |
| Cache warmer, RPC mode, extensions, settings, tools, modes, providers, terminal library, delta codec, telemetry | see `PROJECT.json` | | | |

How they interact: the interactive, print and RPC modes call the agent session;
it calls `Agent.prompt`, `steer`, `followUp` and `abort`, listens to the agent's
events and appends one session entry per `message_end`. The agent's transcript
is rebuilt from `SessionManager.buildSessionProjection` after curation,
compaction or navigation. All of this runs on one JavaScript thread: a step is
what runs between two awaits, and a method of the session manager, which never
awaits, is one step. Two things break that atomicity: the process may die in
the middle of a synchronous write, and a batch of context changes writes
several times.

## 2. The modules

| Module | What it is |
|---|---|
| `SessionEntries` | The data model and the pure functions over a log |
| `SessionManager` | The class `SessionManager` and its file as a state machine |
| `MCSession` | The sessions that the runs start from |
| `SessionManagerProofs` | The inductive invariant of `SessionManager` and the theorems |
| `AgentLoop` | The class `Agent` and the loop as a state machine |
| `AgentLoopProofs` | Its inductive invariant, the theorems, and the refinement of `AgentRun` |
| `AgentRun` | What a run promises its driver; implemented by `AgentLoop`, used by `AgentSession` |
| `AgentSession`, `MCAgentSession` | The class `AgentSession` around the abstract run, and its callers |
| `AgentSessionProofs` | Its inductive invariant and the theorems |
| `KeyedMutex` | What the mutation queue promises: first come, first served per key |
| `FileMutationQueue`, `MCFileMutationQueue` | `withFileMutationQueue` and the two tools that run under it |
| `FileMutationQueueProofs` | Its inductive invariant, the theorems, and the refinement of `KeyedMutex` |
| `AuthStorage`, `MCAuthStorage` | `auth.json`, its lock, the snapshots and the refresh of tokens |
| `AuthStorageProofs` | Its inductive invariants and the theorems |
| `ReplicatedState` | What a replica promises its reader |
| `ReplicatedService`, `MCReplicatedService` | Provider, consumer binding and replicas of one Chord service |
| `ReplicatedServiceProofs` | Its subscriptions: one inductive invariant, `ReadyMeansSubscribed`, and the lemmas for `OneSubscription` |
| `ReplicaProofs` | What is delivered: folds as chains, types, handlers |
| `ReplicationProofs` | Replicas follow without a gap, one subscription, and the refinement of `ReplicatedState` |

Three compositions connect them. `AgentLoop` implements `AgentRun` (safety
proved, fairness checked), and `AgentSession` is built on an instance of `AgentRun`: the session
is checked against what the loop is shown to guarantee instead of against the
loop, which keeps both in reach of TLC. `FileMutationQueue` implements
`KeyedMutex` (safety proved, fairness checked). `ReplicatedService` implements
`ReplicatedState`, which is safety only (proved for callers that do not observe
during a rebind).

### SessionEntries

A log is a function from ids to entries; the field `at` is the position in the
file. An id is a number: the id of the n-th entry created is n, which stands for
the fresh random id of `generateId` (its collision check makes ids unique
within a log; that it could repeat the id of an entry of an earlier log is
abstracted away). Message contents are abstracted to a role and to where the
text comes from ("raw", "edited", "summary"). Timestamps, usage and costs are
left out; a label is "set" or "cleared".

`SessionPath`, `ContextEntries`, `ContextChanges`, `ProjectEntry` and
`Projection` are `buildSessionPath`, `buildContextEntries`,
`resolveContextChanges`, `projectContextEntry` and `buildSessionProjection`.
`PruneBlocks` is `groupPruneBlocks`; `HumanBlocks` and `AgentBlocks` are what
the selector and the two tools offer. `CompactionCuts` is the set of all cuts
that `findProjectedCutPoint` can choose for some token budget: token counts are
replaced by this choice.

### SessionManager

| Variable | Code |
|---|---|
| `entries` | `fileEntries` without the header, and `byId` |
| `leaf`, `labels`, `legacy`, `cache`, `flushed` | `leafId`, `labelsById`, `legacyPruneChanges`, `contextChangesCache`, `flushed` |
| `todo` | the validated rest of a batch inside `appendContextChanges` |
| `file` | the session file: its parsable lines, and an unterminated last line if there is one |
| `up` | the process is alive |
| `clock` | the last id and position given out |
| `failed`, `acked` | history: a write has thrown; the entries whose append returned after writing |

Every method that changes state is an action of the same name. `PushEntry` is
`_appendEntry` with `_persist`: the entry is in memory first; nothing is written
before the first assistant message; that message creates the file with the flag
`wx`, later entries are appended. A write ends in one of three ways. "ok" writes
the line. "throw" leaves nothing or a fragment of it, and the manager goes on.
"crash" leaves a fragment, or the line without its newline, and loses the
memory. A file that was being created may be absent, empty, without a header or hold
a prefix of the log (`CutShort`), and so may the copy of a fork whose write throws.
`Open` is `_setSessionFile`, which parses what is there and ends a torn
last line; `Exit` and `Crash` are the end of the process, between two operations or
anywhere. `Repaired`, `RunInto` and `AppendLine` say what appending to a torn
line does: the two records become one line that does not parse.

### AgentLoop

`pc` names the await at which the loop stands; an action is what happens from
there to the next await. `UserStep` holds the methods of `Agent`, `LoopStep`
what the loop does when a hook or a listener returns, `ExternalStep` the
provider's response and the end of a tool, `Throw` a hook or a listener that
throws into `handleRunFailure`, `FailReporting` a listener that throws while the
failure is reported: before `message_end` the run then ends with neither a response
nor a failure message in the transcript. The transcript is kept from the last assistant
message on (`turn`), which is all that the loop and the properties look at. What
hooks may do is the constant `Hooks`: end, continue, add a status note, a system
message, ask to terminate, throw. The events that listeners receive are left out.
`accepted`, `delivered` and `left` are history: the messages the queues have taken and
not been told to forget, those that have reached the transcript, and the length of
`turn` when a run last ended without an answer to it. `MaxLeft` bounds such a
transcript, which could otherwise grow from one broken run to the next.

`AgentRun` has one variable for the phase of the run, one for the abort signal
and the number of queued messages; `PhaseOf` in `AgentLoop` maps the program
counter to the phase. It says when results may arrive, that nothing is requested
after an abort, when queued messages are taken, and that an aborted run ends.

### AgentSession

Each caller makes one call (`prompt`, `steer` or `followUp`, a custom message
that triggers a turn, `abort`, `compact`, `navigateTree`); its program counter is
the await it is at. A call of the first kind is queued with the agent
(`CallQueued`), put off while `agent_settled` is announced (`CallDeferred`) or
submitted (`CallSubmitted`). A prompt goes through `Preflight` (input handlers, auth,
compaction before the prompt, `before_agent_start`), `StartRun`, and then the
loop of `_runAgentPrompt`: `PostRetry` and `SleepOver` for the retry with
backoff, `PostCheck`, `SaveAuto` and `FinishAuto` for overflow recovery and
automatic compaction, `BeforeSettle` for the handlers that may prolong the run,
`Finally` and `Settled` for its end and the prompts deferred until then. The four
abort controllers are variables (`auto`, `manual`, `tree`, `retry`) because
several operations share one field: a second automatic compaction replaces the
controller of the first, and `autoSig` keeps what happened to each.

A run that `agent.prompt` or `agent.continue` refuses goes through `Finally` like any
other and then rejects (`thrown`, `Outcome`). `FlushThrows` is a `finally` block whose
flush cannot write a pending bash result or custom message: `agent_settled` is not
announced, the session stays active and later prompts are refused. `flushFailed` is
history: it says that this has happened. `AgentThrows` lets a listener's error have
any text, a retryable one included. The counters of recovery are reset by messages of
the user only, not by custom messages that are delivered to a run.

Of the log the model keeps the branch of the leaf (`place`), whether the context
ends with the last assistant message (`tail`) and the number of messages put in
from outside the run (`notes`). `callPlace` and `prepPlace` remember the branch of
the last tool calls and of the messages a compaction was prepared from.

`Overlap` says whether clients call while another prompt is in its preflight. The
print mode and the input loop of the interactive mode wait, the RPC mode does not
(section "Disagreements").

### FileMutationQueue

A call registers (`Lookup`, `Register` or `Refuse`), one at a time along
`registrationQueue`; `Register` chains it behind the last call of its key. A key
is the real path of an existing file and the resolved path of a missing one. Then
it waits for its predecessor (`Begin`), checks, reads and writes; a write
truncates the file first (`Truncate`, `FinishWrite`). `Throw` and an abort may end
it at every await; `End` is the `finally` clause. `Delete` is another program that
deletes a file. `before` and `applied` are history: the calls ahead at the time of
registration, and the mutations that a file must show.

### AuthStorage

The users of the lock are the calls and, for each process, the reload that its
readers share. The lock file is that of `proper-lockfile` (external, modelled from
the options the code passes): it belongs to nobody once it is `Stale` old; its
holder touches it every `UpdateEvery` and finds out then that it lost it; `lockSync`
in the constructor uses the library's default age, `SyncStale`. A call of `modify`
or `delete` (`Login`, `Logout`, the refresh after `ReadLatest`) takes the lock
(`Acquire`, `GiveUp`), reads the file under it (`ReadUnderLock`) and runs its callback
(the other `Enter...` actions, `Redeem`, `RefuseToken`, `Answer`), writes (`Truncate`,
`Write`) or not (`ApplyStopped`, `ApplyNothing`), releases and returns (`ReturnCall`,
`ReturnFailed`, and `ReturnReload` for all readers of a reload at once). Time passes in
units of five seconds and only while nothing is due that takes less (`Tick`).
Reading the file and asking for its revision (`getFileRevision`) are two steps, in a
reload, in the constructor (`SyncRead`, `SyncReload`) and in a refresh that turns out
to be unnecessary (`EnterKeep`): another process may write between them. The other
users of the same process wait for what has no await in it (`Busy`, `Turn`).
Tokens are numbered, the first one expires soon; `valid` is what the provider
accepts: redeeming a refresh token replaces it. `Kill` ends a process at any step
and leaves its lock file.

### ReplicatedService

One service, a singleton or keyed instances, with one replicated state each, and
the binding of one consumer over the loopback transport. Calls reach the provider
at once; their results are continuations, which may run in any order (`tasks`). A
subscription (`subs`) is first inactive and buffers what is emitted; activation
delivers the buffer. A value is the number of commits of its implementation: an
operation batch turns a value into the next one, so a missed batch is visible.
`live` and `lives` are the present implementation of a key and `#generations`;
`held` is what the consumer's facade holds; `running` are the handlers that
`InstanceDirectory` has started; `reader` is a caller of `ready()`; `untold` are the
subscribers that were there when an implementation was provided; `faults` collects
the kinds of errors reported to `onError`.

## 3. The runs

| Run | Question | Bounds | Distinct states |
|---|---|---|---|
| `exchange` | Does curation keep tool exchanges together, and does an append ever change an older context? | sessions of 4 or 6 entries with an exchange, plain, pruned and summarized; up to id 8; the process ends and resumes | 38 thousand |
| `projection` | Can the context-change cache be stale, an edit reach another branch, an extracted session show another context? | sessions with a label before a compaction's first kept entry, with legacy prune records, with a cleared label; up to id 7 | 252 thousand |
| `lifecycle` | Do the tree, acknowledged entries and indexes survive crashes, failed writes and replacement of the file? | from an empty session and one exchange of messages; up to id 3; three outcomes of every write | 104 thousand |
| `loop` | Delivery, order and termination of the loop; does it implement `AgentRun`? | 3 messages, 2 prompts, 2 calls per batch, every hook | 409 thousand |
| `agent_session` | Prompts, recovery, compaction, navigation and abort against each other | 2 prompters; one of abort, compact, navigate; 1 retry, 2 prolonging turns, 1 note | 285 thousand |
| `mutation_queue` | Parallel edits and writes | 4 calls, 2 files, 1 link, 1 file that may be missing | 88 thousand |
| `auth` | Can processes that share credentials redeem a token twice, undo each other's changes, keep an old snapshot or wait for ever? | 2 processes, 5 calls, 2 providers; time up to 30 s per call | 363 thousand |
| `services` | A provider and a consumer | 1 key in both modes, 2 observers, 2 lives, 2 commits per life, 3 bindings | 1.4 million |

Why the bounds are enough for the cases they are meant for. A curated exchange
needs a call, a result and two markers, and a branch or a compaction around
them: the sessions start with these and leave room for two or three more
entries. A torn line that hurts needs an entry that is cut, a reload and one more
append: three entries from an empty session. (With four ids the run does not
finish in minutes; the theorems of section 4 cover every bound.) A second poll
that loses or duplicates a message needs two queued messages and a prompt: three.
Order in a parallel batch needs two calls. A session that recovers twice needs two
responses that overflow; a call that waits for another needs two callers and one
that interrupts. A lost edit needs two edits of one file and a third call that
registers when the first has left. A token that is redeemed twice needs two
processes. A subscription that is left behind needs a start, a rebind and a second
start; a generation that is confused with another needs two lives.

The three constants `Kinds`, `Operations` and `Outcomes` select what the clients
of a session instance do, so that each question is asked of the operations that can
influence it. Deadlock is checked in the session runs: `MaxClock` stops the
appends, and the remaining operations (navigation, reload) go on. The other runs
switch it off: their clients make finitely many calls, and the system may stop once
these have returned.

What the passing runs assume of the environment:

- `agent_session`: clients wait for the preflight of a prompt (`Overlap = FALSE`).
  With the two prompts of the run this is enough, also when one of them is put off
  until the session has settled. With three it is not: a prompt that works off a
  custom message put off by a handler of `agent_settled` starts its run
  (`agent-session.ts:1067`, `2149`) without looking whether a client's prompt has
  passed its input handlers meanwhile. It is the cause of disagreement 3 below,
  reached without an impatient client; the theorems of section 4 name it as a
  hypothesis.
- `auth`: the refreshes of the process that is alive while the other one starts take
  less than ten seconds (`QuickFirst`).
- `services`: `observe` is not called while a rebind waits for its old subscription
  to be closed (`ObserveWhileRebinding = FALSE`): `KeyedBinding.observe` starts a
  subscription when none is starting, and so does the end of the rebind. Listeners
  of a replica do not call back into the provider: a subscription counts as active
  before its buffer is drained.
- `mutation_queue`: only files that stay are reached through links (`StableKeys`):
  the key of a link to a missing file is the link, that of an existing file is the
  file, and two calls may meet under the two keys.

The first two assumptions are dropped in `concurrent_prompts` and `auth_slow`.

Properties, and what each would catch:

- `ExchangesStayTogether`: curation that hides a call and leaves its result.
- `PastContextsImmutable`: an edit, cancel, label or compaction that acts
  outside its descendants.
- `ExtractionPreservesContext`: a wrong re-chaining, a compaction whose first
  kept entry was dropped, a lost label or legacy record.
- `CacheNeverStale`: two different logs or leaves that share a cache key.
- `CurationOnOwnBranch`: an edit whose target is not an ancestor.
- `TreeWellFormed`: a cycle, a missing parent after a reload.
- `AcknowledgedEntriesSurvive`: a written record lost through a torn line.
- `IndexMatchesLog`: an index that differs from the one a reload would build.
- `DeliveredOnceInOrder`, `OneAtATime`: a lost, repeated, reordered or doubled
  queued message, with every poll between awaits, across runs that end or fail. What
  a run that could not even report its failure has put into the transcript is not
  counted against the next run: there the code does deliver a second message.
- `ResultsFollowTheirCalls`: a result out of order, or a request sent with an
  unanswered call.
- `NoUnrequestedTurn`: a model request that neither tools nor the user nor a
  hook asked for.
- `AbortEndsRun`, `SteeringPickedUp`: a run that an abort does not end, a
  message left in its queue by a run that goes on for ever.

- `ImplementsRun`: a run that its driver, `AgentSession`, does not expect.
- `SettledMeansDone`: `agent_settled` announced while a run, a backoff or an
  automatic compaction goes on.
- `OneRecovery`: a loop of overflow, compaction and overflow.
- `OwnBranch`: a compaction or tool results written after the user has moved the
  leaf to another branch.
- `NotesOutsideExchanges`, `NothingLeftPending`: a bash result or custom message
  put between calls and results, or forgotten when a run ends badly.
- `EveryCallReturns`: two calls that wait for each other.
- `OneMutationPerFile`, `NoLostEdit`, `EveryCallSettles`, `ImplementsMutex`: two
  edits that read the same text, a chain that is broken by a failure or by the
  removal of its map entry.
- `RefreshedOnce`, `NoLostUpdate`, `SnapshotCurrent`, `EveryCallEnds`: a rotated
  token used again, a login undone by the write of another process, an old snapshot
  under a new revision, a wait for a dead process.
- `NoGap`, `OneSubscription`, `HandlersFollow`, `ReadyMeansSubscribed`,
  `ImplementsReplication`: an update lost between snapshot and activation, a late
  start that stays subscribed, a handler of a closed instance that goes on, a
  `ready()` that returns too early, a replica that shows something old or nothing. A
  singleton that is provided again after a withdraw is an exception the code makes:
  `provide` does not tell the subscribers there are (`provider.ts:112`), their replicas
  stay empty, and the next commit is reported to them as an update before hydration
  (`state.ts:161`), until a replace or a new subscription. `NoGap` allows exactly
  this: an empty singleton only while its subscriber is in `untold`.

`TreeWellFormed`, `AcknowledgedEntriesSurvive` and `IndexMatchesLog` are
conditional on `~failed`. That is the code's own limit: an append that throws is
already in memory, so later entries are written as children of an entry that is
not in the file, and only a reload ends the fragment the failed write left.

### Fairness

`AgentLoop`. `WF(LoopStep)`: the JavaScript event loop resumes the agent loop
whenever what it awaits has settled; it assumes that hooks and listeners return,
which the code relies on. `WF(aborted /\ ExternalStep)`: providers and tools get the
signal of the run and are trusted to settle once it is aborted, not before.
`AbortEndsRun` needs no more. `SteeringPickedUp` adds, in its own statement, that the
provider and the tools answer: a model that streams for ever leaves the message
queued. No fairness is assumed of the user or of throws. `AgentRun` has the same
two conditions, and `ImplementsRun` checks that the loop meets them.

`AgentSession`. Weak fairness of each caller's continuations, of the agent, of a
compaction and of a navigation: hooks, summaries and timers end. Here the model is
assumed to answer and `MaxTurns` bounds how often it prolongs a run: the question is
whether the calls wait for each other, not whether a model stops. `EveryCallReturns`
excepts behaviours in which a run could not flush what was pending: the code leaves
the session active then, and a call that waits for it to be idle waits for ever.

`FileMutationQueue`. Weak fairness of every call: the file system answers.

`AuthStorage`. Time passes, and what a living process has begun goes on (the
requests have time limits). Nothing is assumed of `Kill` and `Abort`.

`ReplicatedService` is checked for safety only. Its liveness graph is too large;
that a binding gets its subscription in the end is stated in its safety form,
`OneSubscription`: when no continuation is left, the subscription is there.

### Disagreements between code and documentation

Each is a run that TLC refutes; `PROJECT.json` quotes the lines.

1. `orphan_compaction`: the compaction cut moves back over omitted entries and
   may stop at an omitted tool result whose call stays before the cut. Restoring
   the result with `/prune` then shows it without its call.
2. `orphan_running`: the selector `/prune` works on the entries of the moment it
   opens, also while tools run. A result that arrives after its call was
   excluded stays visible alone.
3. `concurrent_prompts`: `prompt` looks at `isStreaming` before its handlers are
   awaited and not again. Two prompts that a client sends without waiting, as the
   RPC mode does, both start a session run; the agent refuses the second, which then
   announces `agent_settled` while the first goes on.
4. `auth_slow`: the constructor's `lockSync` takes a lock over after ten seconds, the
   default of the library, while the asynchronous lock is touched every fifteen and
   a refresh may last fifteen. A process that starts during a slow refresh removes
   the live lock, and the refresh token is redeemed a second time.

Two more disagreements are described by hazards and have no run. A batch of markers is
validated as a whole and written one by one, so that a crash between two markers
leaves half of an exchange curated, although the commit is documented as atomic
(add "crash" to `Outcomes` in `SessionExchange.cfg` to see it). And a listener that
throws on `agent_end` makes the run report a failure turn and a second `agent_end`.

`exchange` states what remains true: without these three situations (a compaction
between call and result, a selector opened during an exchange, a crash inside a
batch) curation keeps exchanges together. The theorem `ExchangesCorrect` says so for
every session and bound.

## 4. The theorems

`SessionManagerProofs` proves, from `SessionAssumption` alone (the initial logs
are well formed, every entry is at the position that its id names; `MaxClock` is
any natural number, `Sessions` any set of such logs):

- `TypeCorrect`: `Spec => [](TypeOK /\ MemoryOK /\ FileOK(file, clock) /\ DurableOK)`:
  the types, and the parts of the invariant below that say how log, leaf, index and
  file fit each other
- `TreeCorrect`: `Spec => []TreeWellFormed`
- `Durable`: `Spec => []AcknowledgedEntriesSurvive`
- `CacheCorrect`: `Spec => []CacheNeverStale`
- `IndexesCorrect`: `Spec => []IndexMatchesLog`
- `PastImmutable`: `Spec => PastContextsImmutable`

and, with a hypothesis on the logs that a session starts from,

- `CurationCorrect`: `Spec => []CurationOnOwnBranch`, if every edit of an initial log
  names a contributing entry of its own path (`Curated`)
- `ExtractionCorrect`: `Spec => ExtractionPreservesContext`, if every legacy record of
  an initial log names an earlier entry, one that contributes to the context unless
  the log has lost it (`LegacyTargets`). A record of an entry that shows nothing, say
  a label, could still make it show a summary, and the extraction would drop both;
  only messages and summaries were ever pruned that way.
- `ExchangesCorrect`: `Spec => []ExchangesStayTogether`, if whole blocks are curated
  and no write fails (`WholeBlocks`), and the initial logs are tidy (below)

None of these is inductive by itself. The inductive invariant `IInv` has four
parts:

- `MemoryOK`: the types, and `LogOK(entries, clock)`: parents precede their
  children, and ids, positions and parents are at most `clock`. This bound is
  what makes the entry `clock + 1` new and puts it after its parent.
- `FileOK(file, clock)`: the same of the lines of the file, and a file that is
  not a session holds none.
- `DurableOK`: as long as no write has thrown, a manager that is up and flushed
  has a file equal to its log, and one that is not flushed has none. This is
  what turns "the append goes to the end of the file" into durability: a torn
  line exists only while the process is down, and `Open` ends it before the
  first append. Parents are present in both the log and the file.
- `CacheOK`: the cached count never exceeds the current one, and at equal counts
  the cached changes are those of the cached leaf. The count is monotone while
  the cache lives, and every operation that replaces the log drops the cache;
  the key (count, leaf) is therefore enough.

The proof has one lemma per action (`AppendsOK`, `BatchOK`,
`CreateBranchedSessionOK`, `OpenOK`, `ForkFromOK`, ...), on lemmas about the
operators (`PushEntryOK`, `AppendLineOK`, `CutShortOK`, `RechainOK`,
`ExtractedLogOK`). The longest one is `ExtractedLogOK`: the log built by
`createBranchedSession`, with its re-parented path, new label entries and moved
prune records, is again a well-formed tree.

The properties of paths and contexts need more than that a path lies inside the log.
`SessionPath` walks along parents by a recursive function, and the proofs reason
about it without induction over data: `PathStep` shows that the equation that defines
the walk has a solution (`Ancestry`, the least set that contains the entry and is
closed under parents), so the chosen function satisfies it; `TopOf`, the least
element of a set of positions, says that a nonempty set of entries has one whose
parent is not in it. A statement about all paths is then proved for the topmost entry
of its counterexamples (`PathStable`, `PathOrder`, `RechainedPath`, `ChainedPath`).
On these rest:

- `IndexesCorrect`, by `IndexOK`: the legacy index is always the one of the log, the
  label index as long as no write has thrown. One more entry changes `LabelIndex` as
  `appendLabelChange` does (`AppendIndexes`).
- `PastImmutable`: a log that has every old entry, and no parent an old entry lacked
  (`Continues`), has the same paths for them (`PathStable`) and so the same projection
  (`ProjectionStable`). An append is such a log, since its id is new; so is an
  extraction that happens to keep every entry in place (`ExtractionInPlace`).
- `CurationCorrect`, by `CurationOK`: the log and the file are `Curated`, and what is
  left of a batch still names contributing entries of the path to the leaf, although
  it was validated before the first marker was written. A cut file is a part of the
  log closed under parents (`CutCurated`); an extracted edit stands behind its target
  on the new chain (`RechainedPath`).
- `ExtractionCorrect`, by `LegacyOK`: legacy records stay with contributing entries, in
  the log and in the file, whatever is torn off (`LegacyStep`). The extracted log is
  one chain of retained path, labels and records (`ExtractedChain`), so the path of its
  last entry is all of it (`ChainedPath`). Retained entries keep their place in the
  context, also before a compaction whose first kept entry was dropped and moved to the
  next retained one (`SameKept`, `SameContext`); what decides about each is the same
  edit or a copy of the same record (`SameLegacy`, `SameChange`); what is dropped or
  added shows nothing (`DroppedShowsNothing`).

- `ExchangesCorrect`, by `ExchangesOK`. A path is `Tidy` if every result follows its
  call with nothing but results between them, if a call of the retained range that is
  curated has its results hidden with it, and if nothing of a running exchange at the
  end of the path is curated; then no call is hidden while its result shows
  (`TidyTogether`). `ExchangesOK` says that the leaf and every place that navigation
  or a resumed session may lead to are tidy: the entries that are no markers and their
  parents (`Stops`), and, unless a batch is under way, the last entry of the log. When
  the process has ended it says so of the file (`TidyLog`).
  The markers of a batch are written one by one, and between two of them the leaf is
  not tidy. Its marks are therefore taken with the rest of the batch laid over them
  (`Overlaid`): they stay the same while the batch is written (`TidyExtended`), and
  nobody can stop inside it. A block is a call with its results or an entry that
  stands alone, and its markers say the same of all its members (`BlockMarks`), so
  curating it is harmless, by a tool (`AgentTidy`) or by the selector (`UserTidy`). The
  third part of `Tidy` is needed because a result that is appended later comes without
  a mark: its call must have none. The retained range only shrinks along a path.
  An extracted path shows for each entry what the old one did (`CopiedMarks`), and its
  results follow the same calls (`CopiedTidy`); this rests on the correspondence of
  the two logs (`Copies`, proved in `ExtractionCopies`), from which `ExtractionCorrect`
  follows too.

The hypotheses of `ExchangesCorrect` are the limits of the code, not of the proof.
`WholeBlocks` excludes a selector that works on a running exchange
(`userCuratesRunning`: the run `orphan_running` refutes the property there); edits of
single entries, which `SessionManager` offers to its callers and which may hide a call
alone; navigation to a marker in the middle of a batch (`branchAll`, the tree filter
"all"); and failed writes and crashes, which may leave half of a batch. A compaction
between a call and its result is not excluded: the property, and the second part of
`Tidy`, speak of calls in the retained range, and the run `orphan_compaction` shows
what happens outside of it. What the initial logs must satisfy is that their edits
and records are as in the two theorems before, that markers have proper values
(`Marked`), and that their `Stops` and last entry are tidy (`TidyLog`); the sessions
of the run `exchange` are such logs, and so is the empty one.

`FileMutationQueueProofs` proves, from `QueueAssumption` (any set of calls, paths
and links; links lead to real paths):

- `TypeCorrect`: `Spec => []TypeOK`
- `ChainCorrect`: `Spec => []QueueInv`
- `OneAtATime`: `StableKeys => (Spec => []OneMutationPerFile)`
- `EditsKept`: `StableKeys => (Spec => []NoLostEdit)`
- `QueueIsMutex`: `Spec => Mutex!Safety`, the safety part of `ImplementsMutex`

The inductive invariant `QueueInv` is about the shape of the chains: a registered call
has a key (`Keyed`); the calls it registered behind have its key (`Behind`); the map
holds the last unfinished call of a key (`Last`); a call that has its turn has only
finished calls before it (`Turn`); the call that a call waits for stands for all the
others before it (`Chain`); of two unfinished calls with one key one is before
the other (`Ordered`). `Chain` is needed because a call waits for its direct
predecessor only; `Last` because the entry of a key is removed by the last call and by
no other. `QueueStep` reduces every action to one of four effects on the queue, and
there is one lemma for each. `OneAtATime` adds that the key of a call is its file, which
holds under `StableKeys`; `EditsKept` adds that what an edit has read shows every
mutation completed so far, which holds because the edit is alone with its file. The
refinement needs no assumption on links: whatever the keys are, they are served in
order.

`AgentLoopProofs` proves, from `LoopAssumption` alone (any queue modes, any hooks, any
number of messages, prompts and calls of a batch):

- `TypeCorrect`: `Spec => [](TypeOK /\ BatchesInv)`
- `DeliveredCorrect`: `Spec => []DeliveredOnceInOrder`
- `OneAtATimeCorrect`: `Spec => []OneAtATime`
- `ResultsCorrect`: `Spec => []ResultsFollowTheirCalls`
- `NoUnrequestedCorrect`: `Spec => []NoUnrequestedTurn`
- `RunSafety`: `Spec => Run!Init /\ [][Run!Next]_(Run!vars)`, the safety part of
  `ImplementsRun`

They share one inductive invariant, `Coherent`, whose parts say at each await:

- `HeldInv`: which kinds of messages the loop holds in `outbox`, `pending` and `turn`.
- `BatchesInv`: how far a batch has come. `Front` is the first call without a
  result; before it every call is over, and what may be at and after it depends on
  the mode of the batch: in a sequential one the call at `Front` is the only one
  under way, in a parallel one the calls are started up to some call, all are
  settled before the first result is sent.
- `TurnInv`: outside a batch, results stand behind their response and, unless the
  run was aborted, none is missing when the next request can follow.
- `SingleInv`: at most one message of a queue is in the transcript, since the last
  response and beyond what a broken run has left, or on its way there, and none where
  the queue is still to be polled.
- `ReasonInv`: what the next request is for, at each await that leads to it.
- `OrderInv`: what was delivered, what the loop holds, what is pending and what
  waits in the queue are four rows, each ascending and below the next, which together
  are what was accepted. Exactly-once and order are the same fact: the rows are
  disjoint because they are below each other.

The refinement has one step per action of the loop: most are stutters, since
`PhaseOf` names the phase and not the await.

`AgentSessionProofs` proves, from `SessionAssumption` (any callers, any number of
retries, turns and notes):

- `PendingCorrect`: `Spec => []NothingLeftPending`
- `TypeCorrect`: `Spec /\ []OneStarter => []TypeOK`
- `RecoveryCorrect`: `Spec /\ []OneStarter => []OneRecovery`
- `SettledCorrect`: `Spec /\ []OneStarter => SettledMeansDone`
- `NotesCorrect`: `Spec /\ []OneStarter => NotesOutsideExchanges`
- `OwnBranchCorrect`: `~Overlap => (Spec /\ []OneStarter => OwnBranch)`
- `OneStarterCorrect`: `~Overlap => (Spec /\ [](deferred = <<>>) => []OneStarter)`

`OneStarter` says that at most one prompt is past its input handlers and not yet
settled. The code relies on it and does not enforce it: it is what `concurrent_prompts`
breaks, and `SettledMeansDone` is false without it. `OneStarterCorrect` says who
guarantees it: clients that wait for each other's preflight and handlers that do not
prompt while `agent_settled` is announced, so that nothing is put off. With two
prompts it holds also when something is put off (TLC); with three it does not, as
section 3 says. `PendingCorrect` needs no hypothesis: whatever overlaps, the `finally`
block of a run appends what waits, or leaves the session active when it cannot.

The invariant, again `Coherent`, ties the fields that several operations share to
where the one committed prompt is: the agent runs for it (`PhaseInv`),
`_isAgentRunActive` is set for it (`ActiveInv`), the controller in the field of
automatic compactions is that of the compaction under way (`SigInv`, `AutoInv`), the
one in the field of the backoff that of the sleep (`RetryInv`), a recovery under way is
the first one (`RecoveryInv`), and a deferred call is in one list, once
(`DeferInv`). `OwnBranch` adds `NavInv`: while `navigateTree` is at work no prompt and
no compaction is, which holds because it refuses to start and they refuse to start
meanwhile; and `BranchInv`: what was begun on a branch finds the leaf on it.

`AuthStorageProofs` proves, from `AuthAssumption` (any processes, calls, providers and
times; an update interval below the age at which locks are taken over):

- `TypeCorrect`: `Spec => []TypeOK`
- `SnapshotCorrect`: `QuickEnough => (Spec => []SnapshotCurrent)`
- `HolderAlone`: `QuickEnough => (Spec => []Alone)`
- `RefreshedOnceCorrect`: `QuickEnough => (Spec => []RefreshedOnce)`
- `NoLostUpdateCorrect`: `QuickEnough => (Spec => NoLostUpdate)`

`QuickEnough` is the assumption of the run: the refreshes of a process are over before
a process that is just being started would take their lock over. `auth_slow` shows
that `RefreshedOnce` is false without it; so is `SnapshotCurrent`: a holder that has
lost its lock may write after another process has read the file and before that one
asks for its revision, and the old content stays under the new revision until the next
change. The theorems rest on `Locked` (the holder's lock is its own and no older than
its hold), `BaseCurrent` (what it has read is the file until it writes), `SnapshotInv`
(neither a snapshot nor a revision about to be noted is newer than the file, and one as
new as the file has its content), `NextOK` (what it will write differs in one provider's token) and
`TokenInv` (a stored token that expires soon is still accepted, is lost, or its
successor is on its way into the file).

The three modules about `ReplicatedService` assume `ServiceAssumption`: a finite set of
keys, any observers, any bounds on lives, commits and revisions. Without any hypothesis
on the callers:

- `ReadyCorrect`: `Spec => ReadyMeansSubscribed`
- `TypeCorrect`: `Spec => []TypeOK`
- `HandlersCorrect`: `Spec => []HandlersFollow`

and for `~ObserveWhileRebinding`, the hypothesis of the run:

- `OneSubscriptionCorrect`: `Spec => []OneSubscription`
- `NoGapCorrect`: `Spec => []NoGap`
- `ReplicationCorrect`: `Spec => ImplementsReplication`

The proof is in three layers, each an inductive invariant that contains the one before.

- `Coherent` (`ReplicatedServiceProofs`) is about starts and their continuations and
  holds however they are interleaved: a continuation is not ahead of its binding
  (`RevInv`), a subscription is that of the binding or of one start (`OwnInv`), a
  connected keyed binding has started or a rebind that waits will start it
  (`StartInv`), a connected binding without a continuation of its revision is
  subscribed or has failed (`ServedInv`), and `ready()` waits for every start of the
  present revision (`WaitInv`). `ReadyMeansSubscribed` is `ServedInv` and `WaitInv` at
  the moment the wait ends. `AloneInv` and `ListedInv` add that there is one start at a
  time and that what the provider lists is somebody's; this is false when `observe`
  is called between the two halves of a rebind, and the theorems that need it say so.
- `Sane` (`ReplicaProofs`) adds what is delivered: whatever sequence of updates
  arrives, `World` (replicas, handlers, faults) stays in `Worlds`, where the handlers
  are exactly those of the instances held (`Follow`). This layer needs no order of
  updates at all, and therefore no hypothesis.
- `Synced` (`ReplicationProofs`) adds the order. `SourceInv`: lives are never
  repeated. `HeldInv`: a connected facade holds what the provider has (`Right`; a
  singleton is empty while its subscriber is one that has not been told of a new
  implementation), and only a singleton has reported an update (`Mild`). `ComingInv`: the snapshot of a start
  says some state of the provider and the buffer behind it is a `Path` from there to
  the present one, a sequence of updates each of which follows the one before
  (`Legal`). `CoverInv`: what `updateCoveredBySnapshot` remembers is never ahead of the
  provider, so that it filters nothing that a path needs. `OwnerInv`: the listener of a
  subscription has the revision of its owner. Each operation of the provider
  is shown to emit an update that is `Legal` for whoever holds the present state and
  leads to the next one (`ReplaceMoves`, ..., `FarewellPath` for `dispose`); activation
  then walks the path (`CatchUpPath`).

A delivery is a `FoldLeft`, which the community modules define by a recursive function.
That such a function exists is itself proved (`FoldExists`, by `CountUp`, the least
element of a set of numbers): a fold becomes the chain of its intermediate worlds
(`InstallChain`, `CatchUpChain`, `HearChain`, `FarewellChain`), and a property of the
result is an induction along the chain.

Only model-checked:

- Liveness, and the fairness half of `ImplementsRun` and `ImplementsMutex`: out of the
  prover's reach.

## 5. Not modelled

- Migration of sessions of versions 1 and 2 and its rewrite of the file;
  discovery and listing of sessions; replacing the file of a live manager.
- Setting queue modes, model or tools during a run; the text of messages; tool
  argument validation beyond "refused".
- The events of a run, and the tools of a failed parallel batch that are still
  running when the run is over.
- Durability below the file system: a write that returned is taken to be in the
  file (the code does not call fsync and claims nothing about power loss).
- Two processes that append to one session file.
- In `AgentSession`: the content of the log and of the transcript, model, tool and
  skill selection, the messages kept for the next turn, listeners that throw on
  `agent_settled`, replacement of the session while it is active. Of the writes that
  may fail only those of the last flush of a run are modelled, not those at the end of
  a turn, before a prompt, before settling, or of a compaction; and a listener that
  throws a second time, which `AgentLoop` has (`FailReporting`), is not.
- In `AuthStorage`: readers that leave a reload which others share, the use of old
  data when a reload fails, read-only and in-memory storages; a process that stops
  longer than `UpdateEvery` and then goes on; a write of `auth.json` that is cut.
- In `ReplicatedService`: remote calls of methods, several services in one binding,
  transports other than the loopback, adapters of applications.
- The awaits inside `summarize_context`.
- The components listed as not modelled in `PROJECT.json`, each with its reason.

The repository has some 150 thousand lines of implementation, and the modules stand
for about 5700 of them. Most of the rest has no behaviour over time that a model
could check: the interactive mode and the terminal library draw and edit text; the
providers translate messages to wire formats, and their model tables are generated;
the package manager, export, theme and configuration code are input, output and
formatting; `extensions/types.ts` and its like are type declarations; the delta codec
of Chord is a conversion over arbitrary JSON whose correctness is a statement about
recursive data, for which small instances say little. What these parts do to the
state of a session goes through the components that are modelled.

## 6. Plan

1. Migration and `_rewriteFile` in `SessionManager`; setters of the loop.
2. The replacement of the active session in the session runtime.
3. The settings files, which use the same kind of lock.

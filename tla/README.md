# A specification of the agent runtime

TLA+ modules, model-checking configurations and machine-checked proofs for the
monorepo in this repository: an LLM agent runtime (`packages/agent` on
`packages/ai`), the coding agent built on it (`packages/coding-agent`) and the
applications around them. Paths below are relative to `packages/` unless they
start with `apps/` or `api/`.

Everything here runs on one JavaScript thread per process. What makes it hard is
not parallelism but the `await`: at each one, any other callback may run, call
the API and change the state the waiting function believes it knows. The models
therefore take one action per stretch of code between two awaits that can be
told apart from outside, and let every API call happen between any two of them.

## 1. The system

### Components, their state and how they interact

| Component | State | Operations | Interacts with |
|---|---|---|---|
| Event stream (`ai/src/utils/event-stream.ts`) | queue, waiting resolvers, done flag, final result promise | push, end, result, async iteration | filled by LLM providers and `agentLoop`; read by `streamAssistantResponse` and applications |
| Agent loop (`agent/src/agent-loop.ts`) | a context (its own copy of the conversation), pending messages, tool batch | turns: inject, request, execute tools, poll queues | calls the LLM stream function, tools and hooks; emits events to the agent |
| Agent (`agent/src/agent.ts`) | transcript, isStreaming, pending tool calls, steering and follow-up queues with their modes, running prompt promise, abort controller | prompt, continue, steer, followUp, abort, waitForIdle, reset, message and queue setters | runs one loop at a time; listeners see every event synchronously |
| Agent session (`coding-agent/src/core/agent-session.ts`) | event queue (a promise chain), mirrored queues, retry and compaction state, pending bash output | prompt, steer, abort, compact, newSession, switchSession, fork, navigateTree, executeBash | listens to the agent, appends to the session manager, calls extensions, retries and compacts on `agent_end` |
| Session manager (`coding-agent/src/core/session-manager.ts`) | entry tree, leaf, labels, flushed flag, JSONL file | append*, label, branch, createBranchedSession, setSessionFile, newSession, forkFrom | owned by the agent session; its context replaces the agent's messages |
| Compaction (`coding-agent/src/core/compaction/`) | none (pure) | prepareCompaction, compact, branch summaries | reads the branch, asks the LLM for summaries; the session manager appends the result |
| Message transformation (`ai/src/providers/transform-messages.ts`) | none (pure) | repairs a transcript for a provider | every provider, before a request |
| LLM providers, OAuth, model catalogue (`ai/src`) | connections | one stream per request | the outside world |
| Credential storage, settings (`coding-agent/src/core/auth-storage.ts`, `settings-manager.ts`) | JSON files shared by processes, in-memory copies | locked read-modify-write, token refresh, merge of modified fields | models, session |
| Extensions, tools, resources, packages (`coding-agent/src/core`) | registered handlers; none | hooks around tools, input and sessions; file system I/O | agent session |
| Modes (`coding-agent/src/modes`): interactive, RPC, print | UI state; pending requests | drive an agent session | terminal, stdin and stdout |
| Terminal UI (`tui/src`) | screen lines, input buffer, kill ring, undo stack | differential rendering, key parsing | interactive mode |
| Slack bot (`mom/src`) | one queue and one run per channel, event files, logs | enqueue, stop, scheduled events | Slack, agent session |
| GPU pods (`pods/src`) | configuration file | start and stop models over ssh | remote hosts |
| Web UI, school FAQ bot and API (`web-ui/src`, `apps/`, `api/`) | IndexedDB stores, iframes | chat components, request handlers | agent |

### What is hard, and what would make it correct

* **Event stream**: an event may be pushed between the resolution of a waiting
  reader and its continuation. Correct: a reader gets what was accepted, once and
  in order, and always learns that the stream has ended.
* **Agent and loop**: messages are queued, aborts requested and prompts sent at
  any await; `isStreaming` falls at `agent_end`, some microtasks before the
  `finally` block has cleaned up. Correct: at most one loop, known to the agent
  while it lives, aborted by `abort`, waited for by `waitForIdle`; the loop's
  context is the transcript; queued messages are delivered once and in order; the
  LLM is never sent a conversation that ends with its own message.
* **Tool batches**: tools run beside each other, hooks may throw. Correct: one
  result per call, pending calls shown exactly, nothing left running.
* **Session manager**: the file is created late, appended to line by line, and
  may be cut short by a crash; forks rewrite the tree. Correct: the file rebuilds
  the session, is only appended to, and forks keep the context and the labels.
* **Compaction**: is repeated on what an earlier one left. Correct: a tool result
  keeps its call, nothing is forgotten, nothing told twice.
* **Agent session**: events are handled one after the other, behind extensions that
  may be slow, while the agent goes on and timers, aborts, compactions and session
  changes come in between. Correct: what is stored is the transcript, retries and
  recoveries are bounded, `prompt` returns, no session leaks into another.

* **Files shared by processes** (settings, credentials): read, merged and written
  under a lock that can be missing, stale or given up. Correct: a value that was
  set gets into the file, no process undoes what another one wrote, a refresh
  token is spent once.
* **Streams of providers and of the proxy**: pieces of several blocks in turns,
  lines cut anywhere, connections that break. Correct: the events tell the
  message, the message is what was said, every stream ends with a message.
* **Terminal library**: output relative to a cursor the renderer cannot read,
  a focus handed back to whoever had it, editing operations that depend on the
  last one. Correct: the screen is the content, keys reach a component that is
  there, yank-pop and undo take back what they should.
* **Slack bot**: files that change while they are read, messages that come twice,
  while the bot is busy or down. Correct: an event is run once, a message is in
  the conversation once.
* **Artifacts**: written by several at a time, stored as a transcript. Correct: what is
  loaded is what was there.
* **GPU pods**: commands that overlap, ssh calls that fail. Correct: what runs is known and
  has a port of its own.
* **FAQ bot**: a document is two blobs; conversations are loaded, renamed and
  saved across awaits. Correct: what was confirmed is known and what was deleted
  is not; conversations do not run into each other.

`PROJECT.json` lists each hazard at its line, with the properties that cover it.

## 2. Modules

| Module | Models | Used by |
|---|---|---|
| `Channel` | abstract specification: what the reader of a stream relies on | `EventStream` |
| `EventStream` | `EventStream` with any number of readers; refines `Channel` for a sole one | `MCLoop`, `EventStreamProofs` |
| `Agent` | the `Agent` class together with the runs of `runLoop` it starts | `MCAgent`, `MCLoop`, `AgentProofs` |
| `ToolExecution` | one batch of tool calls, sequential or parallel | `MCLoop`, `MCServices`, `ServicesProofs` |
| `SessionManager` | the session tree, its file, crashes | `MCConversation`, `ConversationProofs` |
| `Compaction` | a branch that grows and is compacted again and again | `MCConversation`, `ConversationProofs` |
| `Branches` | `navigateTree`: ways through the session tree, and the summary of what is left | `MCConversation` |
| `TransformMessages` | `transformMessages`: what of a transcript a provider is sent | `MCConversation` |
| `AgentSession` | the event queue, storage, retries, compactions, new sessions and prompts of an `AgentSession` | `MCAgentSession`, `AgentSessionProofs` |
| `Rpc` | RPC mode: a host with an `RpcClient`, the pipes, and the process it drives | `MCLoop` |
| `Settings`, `AuthStorage` | the two files of the coding agent that several processes write | `MCServices`, `SettingsProofs`, `AuthStorageProofs` |
| `ProviderStreams` | the streaming functions of seven provider protocols | `MCParts` |
| `CodexTransport`, `GeminiTransport` | how a request gets an answer: shared sockets and fetch; several endpoints, delays, empty answers | `MCServices`, `ServicesProofs` |
| `OAuthLogin` | a login with a browser, a pasted code and a dialog | `MCServices`, `ServicesProofs` |
| `ProxyStream` | `streamProxy` and the server route that feeds it | `MCParts` |
| `InteractiveMode` | the messages typed in interactive mode and the Escape key, over an agent session that runs, retries, compacts | `MCParts` |
| `BashOutput` | the output of a shell command: the rolling buffer, the file, the tail that is shown | `MCParts` |
| `FileTools` | the edit and write tools, on one file | `MCParts` |
| `SideMessages` | output of commands and messages of extensions among those of a run | `MCParts` |
| `Renderer`, `Overlays`, `Editor`, `StdinBuffer` | the terminal library: differential rendering, focus, the prompt editor, input split into keys | `MCParts` |
| `MomEvents`, `MomChannel` | the Slack bot: event files, and the messages of one channel | `MCServices`, `ServicesProofs` |
| `PodModels` | the models on a GPU pod, started and stopped by several commands | `MCServices`, `ServicesProofs` |
| `Artifacts` | the artifacts of the web UI and the transcript they are loaded from | `MCParts` |
| `SchoolDocuments`, `SchoolSessions` | the FAQ bot: its documents, its stored conversations | `MCServices`, `ServicesProofs` |
| `EventStreamProofs`, `AgentProofs`, `AgentSessionProofs`, `ConversationProofs`, `AuthStorageProofs`, `SettingsProofs`, `ServicesProofs` | theorems | |

An MC module with several parts (`MCLoop`, `MCConversation`, `MCParts`) holds small
instances of components that share no state: `part` says which one a behaviour is
about, and the others stand still. `MCParts` gives the components the same
variables (twelve, and seven more for interactive mode), so that a state holds nothing of the other parts;
`ToolExecution` keeps its own names there, since the theorem about it is stated for them.
Half of its parts, from the tool batch to the requests to Codex and Gemini, are in `MCServices`, which
`MCParts` extends: the theorems about them are stated for the specification of that module, `ServicesSpec`.

Operators that differ from the code by one slip (a dropped guard, a missing reset)
stand next to the operation they vary and are commented as mutants. No action
uses them: substituting one for its operation must break the property
`PROJECT.json` pairs it with, which shows that the property depends on the code.

### EventStream

`queue`, `waiting` and `done` are the fields of the class; `pc` and `box` are the
state of each reader's generator and the value its promise carries. The iterator
is four actions: take what is queued, return because the stream is done, wait,
and resume after the promise was resolved. `sent` and `received` are histories.
The sole-reader properties are stated as `Readers = {r} => ...`; with several
readers a final event handed to one leaves the others asleep until `end`, which
no code relies on.

### Agent

A run (a call of `_runLoop`) is a record: its place, its context, its pending
messages, whether the inner loop goes on (`more`) and whether the first poll is
skipped. `_runLoop` up to its first await is `StartRun`; `runAgentLoop` and
`runLoop` are `EmitPrompt`, `PollSteering`, `Inject`, `Request`, `Respond`,
`ExecuteTools`, `PollFollowUp`, `EmitAgentEnd`; the end of `_runLoop` is `Finish`
(finally) or `CatchAndFinish` (catch and finally, which have no await between
them). Events reach `_processLoopEvent` synchronously, so what it does to the
transcript belongs to the action that emits. `Throw` is a hook, key lookup or
conversion that throws outside the stream.

The class does not force callers to wait: `prompt` and `continue` look at
`isStreaming` only, which is false between `agent_end` and the `finally` block.
The constant `CallersWait` says whether they wait for the promise of the previous
run, as the coding agent does. `reset`, `replaceMessages` and `appendMessage` have
no guard in the code. The first two are modelled where their callers call them (an idle
agent, a failed answer taken off before a retry). `AppendMessage` may come at any time, as
the artifacts of the web UI do during a tool batch (`ArtifactsRuntimeProvider.ts:174`, `195`):
what it appends during a run is in the transcript at once and in the loop's copy from the
next run on (`Aside`), and `ContextIsTranscript` says that this is the only difference.

Message ids count user messages; `via` says how a message got in. `gone` holds the
ids an API call threw away, so that delivery can be stated for the others.

### ToolExecution

`phase` is how far the loop has come with each call, `tool` what the tool itself
is doing. In parallel mode tools start together (`Launch`), report and settle on
their own, and are collected one after the other. `Refuse` stands for an unknown
tool, invalid arguments, a blocking hook or one that throws: all of them become
an immediate error result. `afterToolCall` is not guarded, so `AfterThrows` fails
the batch, and `Fail` is what the agent then does about it. In parallel mode the results
of the calls that were refused come first, against what the documentation says (section 5);
`ExecutedInOrder` is the order that the code does keep, among calls of one kind. Within `Agent` a batch
is the single action `ExecuteTools`, which leaves one result.

### SessionManager

`fileEntries`, `leafId`, `labelsById`, `flushed`, `sessionFile` are the fields of
the class; `disk` maps file names to the lines written. `custom` stands for every
entry the LLM never sees. Each `appendFileSync` is one line and one system call: a
crash may fall between any two (`CrashAppending`, and `CrashForking` for the copy that
`forkFrom` writes), after which the memory is gone and some process opens a file. A file rewritten by one `writeFileSync` is atomic
in the model. `torn` is a history of the files whose first flush or copy a crash cut short,
of those that were there with nothing in them, and of copies of these: for them
the header is known to be written twice (`_persist` resets `flushed` while no
assistant message exists, `session-manager.ts:796`), which loading tolerates.
`OneHeader` and `FileNeedsAnswer` speak of all other files, `Durable` of all.

### Compaction

An entry is named by its place on the branch; what a summary says is abstracted to
`covered`, the entries it was made from. `CutPoints`, `CutIndex`, `FirstKept`,
`TurnStart` and `IsSplitTurn` are `findValidCutPoints`, `findCutPoint` and
`findTurnStartIndex`; the backward loops become `Max` of the set of places where
they stop. Tool results follow their calls as the agent loop appends them. A
compaction at any time (a user may ask for one) keeps `KeepRecentTokens`.

### Branches

An entry is named by its place in the file. `Begin` is `navigateTree` up to its first
await, `Refused`, `GivenUp` and `Arrive` are its ways out. What a summary says is
`covers`, the messages it was made from; `Left` and `Prepared` are
`collectEntriesForBranchSummary` and `prepareBranchEntries` with a budget in tokens.
A message has size 1, a summary size 2, so that a summary may be taken although it
exceeds the budget, as the code does below nine tenths of it. One navigation goes on
at a time; `Hasty` lets entries come in between, `FALSE` in the runs.

### TransformMessages

Two passes over the transcript: `FirstPass` gives ids made by another model the form
of this one, with those of the results; `SecondPass` puts results for calls that have
none before the next answer or user message and leaves failed answers out. The rest
of the module is the transcript: runs, steering, retries, hooks that throw in a batch,
processes that die, going back to an earlier entry, other models. An id is the model
whose form it has, the message and its place there.

### AgentSession

The agent is reduced to what the session sees of it: `run` says whether a request
or tools are under way, a run ends with the answer that ends it, or throws
(`RunThrows`: the error enters the transcript with no `message_end`). `events` is
the promise chain `_agentEventQueue`; its head is being handled, and `handler` says
what that handler waits for (the delay before a retry, a compaction). A message
event is handled by `ProcessMessage`; `agent_end` by `RetryLater`, `EndRun` and
what follows. `timers` are the calls of `agent.continue()` left to `setTimeout`.

A compaction is the same steps whoever runs it, the queue, a prompt before it sends
or `compact()`: ask for the key, read the branch (`Prepare`), and store the summary
in whatever session is in use by then (`AppendCompaction`), or give up. Automatic
ones share `controller`, as in the code; where the cut falls is `Compaction`'s
matter and open here. `history` is the list of all that was said and compacted;
places in it serve as timestamps.

`MCAgentSession` bounds the instance and adds two histories, `compacts` (calls of
`compact()`) and `hurried` (a call of `compact()` or `newSession()` on a session
that had not settled). Both calls unsubscribe before they abort, so the aborted
answer is not stored; `ReloadAgrees` is stated for calls that do not do this.
`Patient` is an assumption about time: `prompt()` goes on when what was said before
is dealt with (`Settling`, `Send`), and an answer of the provider takes longer than
the timers of 0 or 100 ms that were set before it (`Unhasty`). The code enforces
neither. A prompt that overtakes the queue resets the recovery flag early and shares a
compaction's controller; a timer that a cancelled retry has left behind continues a
later run in its place, so that the attempts of two failures add up. The bounds on
retries and recoveries are stated for `Patient`, the order in the files is not.

Left out: bash output (see `SideMessages`), the queues mirrored for the UI, `switchSession` and `fork`
(`navigateTree` is in `Branches`), retry switched off, a change of model, an answer that overflows
silently. The wait of the `tool_call` hook for the queue is a delay of `FinishTools`.

### InteractiveMode

A text is the sequence of the messages joined in it: restoring queues to the editor
joins them. The main loop (`main`) awaits an input, hands it to `prompt` and awaits
that; `Submit` is the editor's handler with its ways (a compaction, a run, a main loop
that listens, or nobody). `queue` is `compactionQueuedMessages`, and `Flush` what is
done with it after a compaction; `flush` has the prompts it has begun, each with what was
queued, which comes back if the prompt is refused. `prompt` checks itself whether to compact
first (`MainCompacts`, `FlushCompacts`), and what is submitted then is queued as well. The session is
reduced to what the mode sees: runs that end in four ways, a retry that waits, and
`compacting`. `onEscape`, `retryEscape`, `autoEscape` and `original` are the handlers
that are kept and given back. `arrived` counts how often each message was given to
the agent or dropped by `/new`. `Hasty` lets the user submit and compact when nobody
is prepared for it (`Listening`): while a retry waits, which is where messages are lost, during
a branch summary, and while a `prompt` compacts, after which that prompt and the one of
the flush both begin a run, and what was queued comes back when that of the flush is refused
(section 5). It is `FALSE` in `parts`.

### Rpc

The client, two pipes and the process. A call is its number (the id), and of one
of three kinds: a prompt, which is answered before it is done, a command that is
answered at once (`get_state` stands for them) and one that awaits something
(`slow`: steer, abort, new_session, compact, bash, fork and so on). `Read` is
`handleInputLine` up to the first await; `Succeed`, `Throw` and `Ask` are what becomes of
a command that waits. `collectEvents` and `promptAndWait` are `PromptAndWait` and
the part of `Receive` that hands events to the `listener`. The process is stopped,
exits after a shutdown request or crashes with whatever it has begun (`Ends`).
Of a run the host sees its start and its end: `StartRun`, `EndRun`, `RunAgain`.

### Settings and AuthStorage

Both are a JSON file, its lock, and processes that keep a copy in memory. In
`Settings`, a setter (`Set`) changes the copy, marks the key and queues a write
that carries copies of settings and marks; a write reads the file under the lock
(`BeginWrite`), merges the marked keys (`Merged`) and ends (`EndWrite`, which
clears all marks of the scope as the code does) or fails. Users edit the file,
processes exit or die and leave the lock or half a file. `fresh`, `unsaved` and
`failed` are histories.

In `AuthStorage`, `call` is a `getApiKey` that found an expired token: it waits for
the lock (`Acquire`, `GiveUp`), exchanges the token over the network (`Exchange`)
and writes (`Write`), while logins and logouts merge into the same file and
processes die. `SlowNet` lets a refresh take longer than the other processes
respect a lock that is not renewed; `FALSE` in the run. `spent` and `lost` are
histories of the tokens exchanged and of those whose successor never got into
the file.

### ProviderStreams and ProxyStream

A provider says items in pieces; the adapters differ in how a chunk names its
item: by label (Anthropic, Bedrock), by announcing and ending the current one
(OpenAI responses and Codex), by the kind of the chunk (OpenAI completions, Google,
Mistral). `content` is the message under construction and `told` is the message
as one who sees the events only would have it. A piece is a number, so that lost,
repeated and misplaced ones show. `CleanCuts` lets a cut connection look like one
that ended, `FALSE` in the run.

`ProxyStream` has both ends: the server turns events into lines without the message
(`Send`), the client reads lines cut anywhere (`Read`, `Rejoined`) and rebuilds the
message by index (`Process`). `Refused`, `Cut`, `ReadFails` and `Abort` are its
failures. `SlowClose` and `Withheld` are `FALSE` and empty: a response left open
after its last event, and an event the server drops, break the properties.

### CodexTransport, GeminiTransport and OAuthLogin

In `CodexTransport`, the requests of one session share its cache entry. A socket is
its number; an entry of the cache is the socket it holds, with `busy` and `idleTimer`
as the sets of entries that have them. `Acquire` is `acquireWebSocket` up to its
await, `Open` what follows, and `branch` remembers which of its three `release`
functions a request has got, since they differ: one takes out of the cache whatever
is there. `FallBack` leads to the loop of fetches (`Refused`, `Wake`, `Answered`).

`GeminiTransport` has the loop that fetches (`attempt`, `endpointIndex`) and the
one that reads (`emptyAttempt`). All that is thrown in the first one is caught in it,
which is why `Refuse` tries again after whatever it was.

`OAuthLogin` joins the two logins with a callback server and the dialog. An event
(the browser comes back, Enter, Escape, the end of the exchange) and all that its
promises set off are one step. `dialog` says whom the input is for, which is also
who hears Escape; `Hasty`, `FALSE` in the run, lets the user press Enter on nothing.

### Renderer, Overlays, Editor, StdinBuffer

`Renderer` models the terminal as well, as far as the renderer uses it: rows, the
cursor, scrolling at the bottom, clearing. `Render` is `doRender` with its four ways
out (full, nothing changed, lines deleted, lines changed from one row on). After
a resize the terminal's contents are arbitrary (`Scrambled`).

`Overlays` is the focus part of the same class: the stack, who had the focus before,
hiding, non-capturing overlays and those that show in a wide terminal only.

`Editor` takes the text for one sequence; large pastes are markers with the id the
editor gives and, for the properties only, the paste itself. Each operation is one
action with the undo snapshot and the `lastAction` it leaves.

`StdinBuffer` takes the terminal apart into tokens, bytes or runs of bytes of one
meaning, which arrive cut anywhere. `Complete` is `isCompleteSequence` with its four
helpers, `Extract` and `Process` are the loops of `extractCompleteSequences` and of
`process` as recursive operators; `Handle` is what `ProcessTerminal` does with the
events. `SlowTerminal` lets the timer fire while the rest of a key is on its way.
Left out: the conversion of single high bytes, which a terminal in UTF-8 mode does not
get to, and characters outside the basic plane, which become two events.

### BashOutput, FileTools and SideMessages

`BashOutput` is the tool and the executor of typed commands, which differ in what they
keep of a piece (`Kept`) and in what they answer when stopped (`Close`). A character is
one byte; the sanitising of the executor is the removal of carriage returns. Pieces
(`MaxPiece`) are no longer than `MaxBytes` in the run: with longer ones, as a pipe gives
them (64 KB against 50 KB), dropping the oldest piece can leave less than what is to
be shown, and `ShownIsTail` fails.

`FileTools` is one call of the edit or the write tool, on a file that may be missing. A
text is a sequence of characters, of which six kinds are told apart; the fuzzy match is
reduced to quotes and to spaces at the end of a line (`Fuzzy`), and edit's
checks and replacement, which happen between two awaits, to `Edited`. A write that fails
may have emptied the file. With `Alone` `FALSE`, somebody else changes the file during the
call, and an edit loses it.

`SideMessages` reduces a run to its messages: requests, calls, results, answers,
failures and hooks that throw. `waiting` is the event queue of the session, `Store`
its handler. `prompt` is two steps, the flush of `pendingBash` and the start of the
run after its awaits. `SlowHandlers` and `Hasty` are `FALSE` in the run; each makes a
property fail, as `PROJECT.json` says at the hazard.

### MomEvents and MomChannel

`MomEvents` is about one file name, since the watcher keeps everything by name. A
change is noticed after a debounce, handled, and read again when it cannot be
parsed; timers and cron jobs outlive their map entries if nobody stops them, and
so `armed` is the set of all. `MomChannel` follows a message from Slack through
the log and the channel's queue into the conversation, with events that come while
the bot is busy, replays by Slack, crashes and the backfill at the next start.

### PodModels

Each command of `pi` is a process: what it read when it began (`Begin`), its ssh calls,
and what it writes when they are done (`Save`, `Forget`) are steps of their own; reading and
writing `pods.json` at the end, which the code does without an await, is one. A start goes
on to watch the log of its name. `process` has the runners by pid, with the lines they wrote;
a runner that has run out of memory does not come up after all, and one that was killed has
ended. `odd` remembers what of note has happened, and each property says which of
it excuses: the run explores those behaviours up to that point, so that nothing
of them is assumed away silently.

### Artifacts

A command of the artifacts tool takes effect when it begins (`Start`, `Execute`) and is in the
transcript when the results of its answer are (`Tell`); one of a program takes effect when the
page hears of it (`HandleMessage`) and is told at once or, for an HTML file, 1.5 seconds later
(`Elapse`). `hanging` has what took effect and is not told. `recorded` is the state of
`reconstructFromMessages` after each operation of the transcript, so that the transcript itself
need not be kept: its third step is a left fold. `astray` remembers which files are replayed
otherwise than they were written, from the commands named in `Misread` and from the order in
which they are told, until a command makes the file anew; `ReloadAgrees` is about the others.
HTML pages that write artifacts are left out: they are told not to, though the provider they
get (`artifacts.ts:108`) lets them.

### SchoolDocuments and SchoolSessions

A document is the blob uploaded and the blob extracted from it; the function may
fail between the two. `Ask`, `Fetch` and `Prompt` are the steps of a question.
`SchoolSessions` is the state of the page (`current`, `title`, the agent) and of the
two stores. IndexedDB does what it is asked for in order and answers later, so a load is
three steps (`BeginLoad`, `SetCurrent`, `Load`: `main.ts:318`, `325`, `326`) and a new title five
(`BeginRename` to `EndRename`), between which questions are answered, other sessions
loaded, renamed or deleted. The code does go wrong there: from `SetCurrent` to `Load`,
an answer of the conversation that is left is saved under the session to come; an answer
between the two transactions of `updateTitle` is overwritten; a deleted session that is being
renamed leaves its metadata or comes back; and the title of a renamed session is given to the one in use when the writing
is done. `astray` is a history of the sessions this has happened to, and the properties are
about the others. No document says anything of it, so there is no run of its own.
One title is given at a time, and `MaxLoads` loads are under way at most.

## 3. Runs

| Run | Instance | What it shows |
|---|---|---|
| `agent` | 2 runs, 3 user messages, 1 tool turn, both queue modes, callers that wait | the loop is known to the agent, the context is the transcript, queued messages are delivered exactly once and in order, no request ends with an assistant message |
| `agent_eager` | as above, callers that do not wait | **violated**: the `finally` block of one run lets go of the next (`IdleMeansNoLoop`) |
| `loop` | a stream with 3 events (one final), 4 pushes and 1 reader; an agent with 2 runs, 2 user messages, 1 waiter; a batch of 4 calls in either mode with hooks that throw; 2 RPC calls, 1 question | under fairness: a reader of a stream that is done returns, runs end and `waitForIdle` is resolved, a batch ends, an RPC command that asks the host goes on; nothing lost or repeated, the stream refines `Channel`; who waits for an RPC answer has one coming, and collects the events of its own run |
| `conversation` | 3 files, 3 entries, files of up to 9 lines, crashes; a branch of 6 entries, sizes 1 and 2, budget 2; a tree of 5 entries, budget 3; 2 models, 7 messages, 2 calls an answer | durability, append-only files, one header, late creation, forks; tool results keep their calls, nothing since the compaction before last is forgotten or told twice, the context only shrinks to a tail; a navigation with a summary loses nothing and tells nothing twice; every request is accepted and whole |
| `session_fork` | 2 files, 4 entries | **violated**: a fork drops everything before a label in the middle of its branch (`ForkKeepsPath`) |
| `compaction_forgets` | a branch as in `conversation` | **violated**: what a first compaction kept is neither kept nor summarised by the second (`NothingForgotten`) |
| `agent_session` | 1 prompt caller, 1 retry, 5 messages and compactions, 2 files, 3 waiting events, 1 steered message, 1 `compact()`, `Patient` | retries and overflow recoveries are bounded; messages are stored once and in order; a settled session is what its file says |
| `agent_session_retry` | the same caller, answers and errors only, 4 messages | **violated**: a retry that ends in another error leaves `prompt` waiting (`PromptReturns`) |
| `agent_session_new` | as `agent_session`, without `compact()` | **violated**: a compaction of the old session writes to the new one (`FreshSession`) |
| `parts` | twenty-two components, see below | one result per call of a batch and in order, nothing left running; settings are saved and merged, tokens spent once, the screen is the content, focus and editing, events run once, messages said once, streams tell what was said, documents known, conversations kept apart, requests answered once and by any endpoint, sockets neither shared nor left open, logins given up or complete, typed messages kept, Escape cancels, keys whole, output of commands kept and in its place, files edited in one place, artifacts loaded as they were, models on a pod known and at ports of their own |
| `tree_stuck` | a tree of 4 entries | **violated**: a refused navigation leaves the session compacting (`CompactingMeansBusy`) |
| `messages_lost` | as in `parts`, with a hasty user | **violated**: a message submitted while a retry waits is nowhere (`NothingTypedIsLost`) |

The instances of `parts`: two processes, one file, two keys, two setters, one edit,
one exit (settings); two processes with a call each, three tokens (credentials);
terminals of two and three rows, up to three lines (renderer); three overlays over
one component; seven operations on a text of three characters (editor); five writes
of one file and two starts; three messages, two events and a crash in a channel; two
blocks of two deltas (proxy); three items of two pieces in every protocol; three requests over four
sockets with one retry (Codex); three endpoints, three retries and two empty answers
(Gemini); three logins; three documents; two conversations of six messages with two loads and one new title, over sixteen steps; four typed messages and two
retries; a batch of four calls in either mode; three keys of twelve forms; six bytes of output with
limits of two bytes and two lines; a file of up to three characters and an edit of up to two; three commands for two models and two GPUs; a note and a page, answers of two calls, one program at a time, three commands that are not told; two messages from the side in a transcript of six. What the instance leaves out
because the code fails there is a named constant or a conjunct of the MC module:

* content that had to scroll and becomes less while clear-on-shrink is off: the
  renderer compares with the wrong viewport (`tui.ts:1030`) and leaves old lines on
  the screen, which `tui/README.md:572` allows for blank lines only;
* overlays taken away in an order other than the reverse of their showing: the focus
  returns to one that is gone (`tui.ts:366`);
* a refresh slower than the stale-lock limit (`SlowNet`), a connection that is cut
  and looks complete (`CleanCuts`), a file that changes while a handler waits to
  read it again (`SlowWriters`);
* sessions of the FAQ bot that are `astray`: answered, deleted or given the title of another
  while what was read of them is still to be used;
* markers yanked after the submission that forgot their paste (`OwnMarkersExpand`
  of `Editor`);
* a user who submits or compacts while a retry waits, or submits while a `prompt` compacts or
  a branch is summarised (`Hasty` of `InteractiveMode`), or
  who presses Enter on nothing in the login dialog (`Hasty` of `OAuthLogin`);
* a key whose bytes come apart by more than the timer (`SlowTerminal`), pieces of
  output longer than the limit (`MaxPiece`), messages from the side while events wait
  or with a new session (`SlowHandlers`, `Hasty` of `SideMessages`);
* a file that somebody else changes during an edit (`Alone`), and edits whose text is
  there only roughly, which change the whole file;
* models on a pod whose starts overlap, whose ssh calls fail, or whose name is used again while
  its log is in use (`odd` of `PodModels`);
* artifacts that are `astray`: a refused command is replayed as done, commands that ran
  together are replayed in another order;
* documents that were deleted, whose extracted text stays in the store
  (`api/admin/documents.ts:107`) and in what the bot is told.

**Bounds.** Two calls over RPC are what it takes for one to end before, inside or
after the other, or to take its answer with it; `Few` in `MCLoop` keeps from it the
endings and timeouts that differ in nothing a property tells apart. Two runs are what it takes for one to disturb the other, three user
messages for one to overtake another in each queue, one tool turn for a poll
between turns, a transcript of six for two messages delivered after a tool turn and their
answer, four calls for executed and refused ones to interleave. A session
file of nine lines holds three entries written twice over with their headers;
three files are an original, a fork and a copy. A branch of six entries has room
for three compactions, or for two with a turn split by each. Five messages and
compactions are a prompt, a failure, its retry, a compaction and what comes after
it, and one retry makes the second failure the last. `Kinds` restricts the answers
to those that differ for the properties of a run. In `parts`, two processes, three overlays and two blocks are the
fewest in which one can disturb another; three lines on two rows scroll; seven
operations are a paste, a kill, a submission, a second paste, a yank and an undo; a
crash and a start are what a message needs to come twice. Five entries of a tree
are two branches with a compaction or a summary on one; seven messages of a transcript
are two answers with calls, of two models, one of them broken off. Four typed messages
fill each queue and the editor once. Six bytes are one more than makes the buffer drop
a piece, two conversations and two loads are what it takes for one to be loaded
while another one is being answered or loaded, three characters are a line ending of either kind and one beside it, three keys are a key before and after a paste. Three requests are one that has a
socket, one beside it and one that comes when the first is over; a fourth socket replaces one
that was lost; three retries over three endpoints are the numbers of the code. `MaxCommands`, `MaxSockets`, `MaxPieces`, `MaxLogins`, `MaxTyped`, `MaxRetries`, `MaxCalls`,
`MaxLoads`, `MaxSessions`, `MaxSaid`, `MaxTitles`, `MaxHistory`, `MaxHanging`, `MaxFiles`,
`MaxEvents`, `MaxQueued`, `MaxCompacts`, `MaxMessages`, `MaxTranscript`, `MaxToolTurns`, `MaxWaiters`, `MaxSent`, `MaxEntries`, `MaxLines`, `MaxLength` and
`MaxUpdates` are the bounds; those of an MC module appear in its `MCNext` only, so
the proofs are about the unbounded modules. Symmetry is used in runs without liveness
(of runs and of files, which the code does not tell apart).

**Deadlock** is not checked: each of these systems may stop (no one calls the API
any more, the batch is over, the process has ended, the branch is long enough).

**Fairness.** Weak fairness of a reader's continuations, of a run's steps, and of
the loop over a tool batch: the JavaScript runtime runs every continuation whose
promise is resolved. A step that waits for the outside world (the LLM's answer, a
tool) is fair as well, by the contracts of `StreamFn` and of tools: they settle,
by an error or an abort if nothing else. No API call is fair: a user may never
prompt again. `ToolExecution` puts no fairness on partial results. In
`AgentSession`, requests, tools, timers, handlers, sleeps and compactions come to
their end; prompts, aborts and new sessions need not come. In `Rpc`, both ends read
their pipes, what a command awaits comes, and the host answers questions; calls,
runs and the end of the process need not come.

## 4. Proofs

All proofs hold for every value of the constants, from the named assumptions.

* `EventStreamProofs!TypeCorrect`, `Lossless`, `Refinement`. The inductive
  invariant `SoleInv` says that, with a sole reader, the queue is empty while it
  sleeps or carries an event, that the list of waiters is it alone or nobody, and
  that what was sent is what was received, carried and queued. `NothingLost` is
  not inductive by itself: a push would have to know that the waiter it serves is
  the sole reader, asleep, with nothing queued before the new event. Each step
  then maps to a step of `Channel` or a stutter.
* `AgentProofs!TypeCorrect` from nothing but the assumptions on the constants.
* `AgentProofs!LoopIsKnown`, under `CallersWait`: the inductive invariant says
  that a live run is the running prompt, owns the abort controller, and that
  streaming is on from its start to `agent_end`. The four properties are its parts
  and none is inductive alone, since `Finish` clears whatever is current.
* `AgentProofs!TranscriptIsSent`, under `CallersWait`: the context of a live run
  is the transcript without what was appended on the side since the run began, followed by
  the prompts not yet announced. Since the messages on the side lie anywhere among the others,
  places are counted (`Place`): the inductive invariant relates each place of the transcript to
  its place in the context, which the lemmas on finite sets move by one for each message.
* `AgentProofs!AlwaysAnswerable`, without `CallersWait`: needs that the queues and
  pending messages hold user messages only, and an invariant of the context for
  each place of a run.
* `AgentProofs!NothingLost`, without `CallersWait`: a count is no induction
  hypothesis, so `OnceInv` speaks of identities: no two messages of a place have the
  same (`WellNamed`), and those given so far are the disjoint union of what is in
  the transcript, in each queue, in the hands of each run and gone (`Shared`). A run has
  something in its hands only where it announces it, so a poll overwrites nothing.
  `SharedNew`, `SharedTaken`, `SharedDelivered` and `SharedGone` say how each kind of
  move keeps the union disjoint.
* `AgentProofs!AllDelivered`, under `CallersWait`: order in the transcript alone is
  not inductive. `OrderInv` says that each queue and the hands of each run are in the
  order of arrival, that the transcript comes before the hands of the run and the
  hands before the queues (`Before`), and that each queue has one kind of message
  only. With two loops at once (`LoopInv` excludes them) one could take a later
  message and announce it first.
* `AgentSessionProofs`. Each of the actions is first reduced to one of thirteen
  shapes that say what it does to the variables the invariants look at (`StepIs`:
  from `TypeInv`, a step keeps `TypeInv` and is a `Step` or a stutter); the
  invariants are then proved over the shapes. `TypeInv` leaves out `messages`, of
  which the prover cannot see the type (`SelectSeq` has no definition it could
  expand); no other invariant needs it.
  - `MessagesStoredInOrder`, for whatever callers do: `OrderInv` adds that what
    waits in the queue is in order (`WaitingInOrder`) and that everything stored was
    said before everything that waits (`StoredBefore`). A message is stored from
    the queue at any later time, in a file of that time, so `StoredInOrder` alone
    says nothing of the next one.
  - `OneAtATime`, under `Patient`: `agent_end` is the last event of the queue, a
    handler holds the only one, a timer is alone and finds an idle agent with an
    empty queue, at most one automatic compaction runs and none beside a run. The
    two bounds rest on it: each would fail if a run could begin while the failure of
    another is undecided.
  - `RetriesBounded`, under `Patient`: `StormInv` relates the attempts counted to
    the streak of failures at the end of `history`, whose last members may still
    wait in the queue (`Failed`, `Undecided`): as long as the streak may be
    extended (`MayExtend`: a run, a timer, a retry that sleeps), it repeats fewer
    failures than attempts were counted.
  - `RecoveriesBounded`, under `Patient`: `RecoveryInv` says that unless the flag is
    set, something new was said since every recovery (`Renewed`), and that this holds of a
    recovery that runs too (`Recovering`); since the queue clears the flag later
    than the message was said, whatever waits in it was said after the last
    recovery.
* `ConversationProofs`, of `SessionManager`, from nothing but `PlainAssumption`, over any number of
  files, entries, forks and crashes. `Only`, `LabelsOf` and `Branch` are functions
  defined by recursion; that they exist, and what they are, is proved first
  (`OnlyIs`: a sequence picks from another what is in a set, in its order;
  `LabelsAre`: the labels are those put on and not taken off since, `Marked`;
  `BranchIs`: a way through the entries with rising ids).
  - `TypesHold`: `TypeInv` says that what is in memory, and in every file that is not
    empty, is a `Session`: a header first, parents older than their children, labels
    on entries that stand before them. `Session` survives an append, a cut to a
    beginning, being written twice, and the two ways to fork.
  - `SessionsAreDurable`: `Durable` says nothing while the assistant has not
    answered, but what the file holds then decides what it will hold. `KeptInv` says
    it: a first flush that was cut short leaves a beginning `p` of the session, after
    which it is written from its header on, so that the file is `p` and the session; before
    that the file is `p` alone. The tree and the labels of `p` and the session
    together are those of the session (`TwiceSameTree`, `TwiceSameLabels`).
  - `WholeFiles`: `WholeInv` adds that the file of a session whose flush or copy was never
    cut short is the session exactly, or does not exist.
  - `FilesOnlyGrow`: each step writes at the end of a file, makes a new one, or puts a
    header in one that has nothing; the latter from `TypeInv`, since a file that does not
    load (`Loaded`) is empty.
  - `ForksKeepAll`, for any tree and leaf: a branch
    is `Linked`, each entry on the one before and the first on nothing that is there
    (`BranchLinked`), and what is linked is the branch of its last entry
    (`BranchOfLinked`). When nothing was said on top of a label, a branch is a
    beginning without labels and then labels only (`LabelsLast`); the beginning and the
    labels rewritten after it are linked in the fork, since the ids given to these are
    new (`ForkedBranch`); and labels on top of a branch change nothing of its context,
    wherever its compactions are (`ContextPrefix`). Since `Only` is the one way to pick
    what is in a set (`OnlyPicked`), it need not be unfolded.
* `ConversationProofs`, of `Compaction`, for branches of any length, any sizes and any budget, and
  however often they are compacted. `CompactionKeeps` speaks of the last compaction and
  the one before; what the next one does with a result depends on what stands between it
  and its call. `BranchInv` says that no compaction and nothing the LLM sees but results
  of the same call ever does (`Answers`), that the last compaction keeps entries behind
  the one before it, and what its summary accounts for (`Shape`, `Accounts`). That a cut
  takes no call from its result is `FirstKeptIs`: a cut point between the two would be
  a message between them. Both hold without the assumption of `MCConversation` on how a
  branch begins. The same steps give `ContextsAreTails`.
* `AuthStorageProofs!TokensAreKept`, for any processes, calls, providers and tokens, under
  `Setting`: as in the run, no refresh outlasts its lock (`~SlowNet`). The two properties are
  those of `TokensKept`. `LockInv` says that a call is between reading and writing exactly
  as long as it holds the lock, and that only the lock of a dead process gets old, so one
  call is there at a time and the file stands still. `FileInv` and `CallInv` follow the
  tokens: none stands in two places; one that was exchanged is in the file only while the
  newer one is on its way; what a call has read differs from the file at most where its
  own process logged in or out, and holds nothing that was exchanged but in the place it
  is going to write. Memory is not constrained: what a process has there never
  gets back into the file as a whole. The run has this component among others, for two
  callers: `ServicesProofs!TokensAlwaysKept` states the run's property and cites the
  lemmas of an instance of `AuthStorageProofs`, with the hypothesis `Setting` from
  `CallersAssumption` of `MCServices`.
* `SettingsProofs!SettingsAreKept`, for any processes, files, settings and values, under
  `Setting`: the marks of a lock that is free or left behind are no processes.
  `KeepsOthers` compares the file before and after a write with the marks of the writer, `AllSaved`
  asks what is unsaved when the queue is empty; a queue of writes with copies of different times is between
  them. `LockInv`: a file that is locked is as its writer has read it, and its lock is that of the
  first write of the queue. `MarksInv`: what a write in the queue names, and what is marked
  modified, was set since all had been written last, or could not be loaded. `SavedInv`: each
  unsaved setting is named by a queued write whose copy has its present value, unless a
  write has failed; that write need not be the last. `NothingLeft`: a process that died left nothing.
  `SettingsAlwaysKept` states the property of the run, by an instance.
* `ServicesProofs!LoginsAlwaysHold`, for any number of logins, for `Hasty = FALSE`: `LoginInv` adds that while
  there is no code somebody waits for the dialog's input, whom Escape rejects, and that
  the number of a login is new until it is stored.
* `ServicesProofs!SchoolAlwaysKeeps`, for any number of conversations,
  messages, documents, loads under way and titles, with a store that answers later.
  `KeepsItsOwn` is about the store, `SessionsInv` about the page and what it has read: of the loads under
  way the first ones await their metadata, and current is the last of these (`OrderInv`); while
  there is none, the identity and title of the page are those of the agent's conversation, and the agent has
  said all that is stored of it (`PageInv`, otherwise `OnlyGrows` fails at the next save); what a load has
  read is the conversation it is for, with all that is stored of it (`LoadInv`), and what a rename will
  write back is what is stored (`StoredInv`). All of it but for sessions that are astray.
  For documents, `StoreInv` says that what was confirmed has its text among the
  blobs; that a page has room for them all is counted with finite sets.
* `ServicesProofs!RequestsAlwaysAnswered`, for any number of requests and sockets, from
  `SocketsAssumption`; and for any number of endpoints and tries, from `EndpointsAssumption`
  (no more endpoints than tries, as in the code: 3 and 4). For Codex, `UseInv`: who works on a
  socket has it alone, and it is in the cache's books as busy as long as it is open, unless it
  is an extra one, of which the cache knows nothing. `SocketInv`: a socket with a timer is used by nobody,
  and an open one has a user or a timer. The entry that a request takes out of the cache
  may be another's (`openai-codex-responses.ts:621`); nothing above speaks of which
  socket is cached beyond that it was opened, and so nothing breaks. `AnswerInv`: who falls back to fetch
  has been told nothing. For Gemini, `ToldInv` gives the events told place by place, and
  `PostsInv` says that, as long as all refusals were for the endpoint's sake, the n-th one came from
  endpoint n or the last, while the count of tries keeps up with them.
* `ServicesProofs!HeardAlwaysOnce`, from `EventsAssumption` and `ChannelAssumption`. For event files, with
  `SlowWriters = FALSE`, `OneTimer`: there is one timer at most, the map has it, and there is none while a
  handler waits to read the file again, so that a retry need not stop one. For channels,
  for any texts, also equal ones, `ChannelInv`: an event is in the queue, at hand or in the conversation, in one of them,
  what is at hand before its prompt is not in the conversation, since the sync leaves it out, and
  what is saved is a prefix. Nothing is asked of the log, which may have a message many times.
* `ServicesProofs!PodsAlwaysHold`, from `PodsAssumption` (names are finitely many, or a port need not
  be free), for any number of commands at a time, though the run has two. `PidsInv` holds
  always: a pid is that of one start, which its entry names, and no line of a log
  is one its runner has not come to. The rest goes by what has happened. While names are not
  shared and ssh works, `KnownInv`: commands that touch `pods.json` are about different
  names, a start hears nobody but its own runner, whose failure is then
  real, and a stop has the pid of every entry it will remove and forgets
  none that runs; and so what runs is an entry or about to be one. If starts also come one by one,
  `PortsInv`: the port of a start stays free until it is saved, as entries that
  come are of starts; that `getNextPort` finds one is counted with finite sets. If
  nothing is removed, `SpreadInv`: the GPUs chosen are still those with the fewest models when they are saved.
* `ServicesProofs!BatchesAreWhole`, for batches of one call or more: the
  inductive invariant says where each call stands (`PhaseInv`: waiting from
  `upcoming` on, in hand, in the list to collect, answered), that a tool at work is
  prepared and not collected, and that the list is sorted and above the
  executed calls answered before it (`QueueInv`, `ResultInv`). `ExecutedInOrder` is
  not inductive alone: a result is in order because of what is still in the list.

`LoopIsKnown` also states `SingleLoop`, `AbortReachesLoop` and `StreamingWhileActive`,
which no run lists since the theorem holds for every instance.

Only model-checked: liveness (fairness and ENABLED are beyond the prover),
`Branches`, `TransformMessages`, `Rpc` and the modules of `MCParts` but `ToolExecution`,
`Settings`, `AuthStorage`, `OAuthLogin`, `SchoolDocuments`, `SchoolSessions`,
`CodexTransport`, `GeminiTransport`, `MomEvents`, `MomChannel` and `PodModels`. Of
`AgentSession`, `ReloadAgrees` compares filtered sequences, which the prover cannot compute, `PromptReturns` is
liveness, and `FreshSession` is violated. Induction over data works in set form only:
where a proof needs the first or the last place with some property, or that a
recursive function exists (`LeastNumber`, `GreatestNumber`, `UpTo` and
`RecursiveFunction` of `ConversationProofs`), it rests on the minimum of a well-founded relation.

## 5. What the checks found

1. `agent.ts:603`: a prompt sent from an `agent_end` listener is possible because
   `isStreaming` is false by then, and loses its `runningPrompt` and its abort
   controller to the `finally` block of the run before.
2. `session-manager.ts:1164`: forks drop label entries from the path but not from
   the `parentId` of what follows them.
3. `compaction.ts:619`: a second compaction starts behind the entry of the first
   and so forgets what the first had kept. The same property also breaks at
   `compaction.ts:746`: if the second one splits the first turn after the first
   compaction, "No prior history." replaces the previous summary.
4. `agent-session.ts:2441`: `prompt` waits for a promise that a retry ending in a
   non-retryable error, or in a run that throws, never resolves.
5. `agent-session.ts:1313`: `newSession` does not stop an automatic compaction,
   which then stores the old conversation's summary in the new session.
6. `agent-session.ts:2785`: a navigation that is refused by an extension, or finds no
   key, never clears its abort controller; `isCompacting` stays true and interactive
   mode queues what is typed for a compaction that never ends.
7. `interactive-mode.ts:2112`: while a retry waits nobody listens to the editor, which
   has given up the text.

Two more disagreements with the documentation have no run of their own; the properties of
`parts` are stated without the case and fail with it:

* `agent-loop.ts:412`: in parallel mode a call that is refused (an unknown tool, wrong arguments, a
  hook that blocks) is answered at once, before executed ones that stand earlier in the message.
  `agent/src/types.ts:33` says "Final tool results are still emitted in assistant source order.",
  `agent/README.md:104` the same of `tool_execution_end` and `toolResult`. The second
  disjunct of `ExecutedInOrder` is this case: without it TLC finds results 2, 1 of a batch of two.
* `interactive-mode.ts:3039`: what is submitted while a `prompt` compacts
  (`agent-session.ts:947`) is queued, and sent by the flush as a second prompt. The two race; if that
  of the flush is refused by the run of the first, what was queued is put back with nothing
  compacting any more, although `coding-agent/CHANGELOG.md:1571` says that such messages are
  "delivered after compaction completes". `Listening` excludes it; with `Hasty = TRUE`,
  `QueueIsSent` fails.

Seen on the way, without a run of their own: a command that prints much at a time may be
shown as having printed less than it did, with no notice (`bash.ts:228`), though
`bash.ts:201` says "Keep more than we need so we have enough for truncation"; output of
many short lines is cut while no file is there, and the notice says "Full output:
undefined" (`bash.ts:285`), against the description in `bash.ts:180`; output recorded
during a run is flushed by the next prompt, not "on agent_end" (`agent-session.ts:2524`),
and by then possibly into another session; an Escape typed just before a paste is dropped
(`stdin-buffer.ts:308`); an edit whose text is there only roughly trims spaces and straightens
quotes in the whole file (`edit-diff.ts:107`), though the tool is described as one for
"precise, surgical edits" (`edit.ts:62`); of occurrences that overlap one is counted
(`edit.ts:147`); tools of one message run in parallel, and two edits of one file can lose
one; an artifact that the panel refused to create, since it exists, is overwritten when the
session is loaded (`artifacts.ts:475` returns the refusal as a result like another, and l.336
replays all that are no error), and one that a program and a call of the same answer write may be
loaded with the text of the first; a program is told that a refused write succeeded
(`ArtifactsRuntimeProvider.ts:183`); a program that returns something that cannot be cloned is
heard of no more until its timeout, since `complete` has already noted that it was sent
(`ConsoleRuntimeProvider.ts:116`); `pi stop` forgets a model also if ssh failed and
nothing was killed (`models.ts:436`); the runner of a failed model that ends late writes its
last line into the log of the next one of that name (`models.ts:244`), which is then removed
from `pods.json` while it runs; `pi pods setup` of a pod that is there says "set as active pod"
(`pods.ts:168`), which `addPod` does only if none is, and forgets its models; a deleted document stays known to the
bot (`api/admin/documents.ts:107`); the event of a response that met its output limit
is not handled (`openai-responses-shared.ts:446`), so the message ends with "stop";
the Gemini CLI provider retries what should fail at once: a delay that is too long is
thrown (`google-gemini-cli.ts:439`) and caught by the same `try` as a network error
(`450`), so the request is sent three times more, although `types.ts:94` and
`coding-agent/docs/settings.md:84` say that it "fails immediately"; errors that are final are
retried likewise, there and for Codex (`openai-codex-responses.ts:227`); Enter on an empty
input of the login dialog leaves nobody to hear Escape (`login-dialog.ts:53`), which the
dialog goes on to offer "to cancel";
messages typed while a branch is summarised wait for the next compaction
(`interactive-mode.ts:2366` and `4482` are the only places that flush the queue);
`docs/tree.md:97` lets the collection for a branch summary stop at a compaction, the
code goes on, which `NavigationKeeps` needs. In RPC mode, a command that throws is
answered without its id (`rpc-mode.ts:628`), though `docs/rpc.md:25` says that "the
corresponding response will include the same `id`": its caller waits for 30 seconds; a
prompt that fails has two responses with one id (`rpc-mode.ts:339`), and
`RpcClient.prompt` looks at neither's success; a prompt that is retried is taken to be
over at the first `agent_end` (`rpc-client.ts:421`); listeners take themselves out of
the list that is walked (`rpc-client.ts:145`, `456`), so of two that wait the second misses
the end. The timers that call `continue()` cannot be cleared
(`agent-session.ts:2419`, `1946`): one that fires after a later run has failed continues that
run whatever became of its retry, and `retry.maxRetries` can be exceeded (which is where the
proof of `RetriesBounded` needs `Patient`). In the FAQ bot, what happens to sessions
that are `astray` (`apps/school-faq-bot/src/main.ts:324`, section 2).

## 6. Not modelled

* The OAuth flows of other providers, the model catalogue (generated), file and process I/O of tools,
  argument parsing, HTML export, components of the web UI: no state the properties
  could relate, or pure I/O.
* Of the modelled components: the stream wrappers `agentLoop` and
  `agentLoopContinue`, partial messages while streaming, listeners that throw;
  migration of old session files, in-memory sessions, write errors and several
  processes on one session file; the text of summaries; building of requests and
  usage; files read and
  modified in summaries; thinking blocks in requests; selectors and slash commands
  of interactive mode; the splitting of lines, requests without an answer and a host that collects twice in
  RPC mode; what a key means, autocompletion and layout in the terminal; attachments and
  the sandbox of the Slack bot.
* Everything marked `not_modelled` and "planned" in `PROJECT.json`.

## 7. Plan

1. The rest of `AgentSession`: mirrored queues, `switchSession` and `fork`;
   retry settings that change while a retry waits.
2. A composition of agent session and session manager, with `Agent` as the detailed
   specification of the agent that `AgentSession` abstracts, and of `InteractiveMode`
   with `AgentSession` in place of what it sees of one.
3. The execution of sandboxes in the web UI; extensions, whose hooks appear as callers only.
4. Proofs of `Branches` and `TransformMessages`, whose properties compare what recursive functions compute.

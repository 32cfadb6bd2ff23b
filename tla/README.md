# souz-go in TLA+

A verification project for souz-go, a personal LLM agent in one Go process. It
answers users over an HTTP API (`/v1/chats/...`, with server-sent events) and
over channels (Telegram), keeps one JSON session file per chat, and runs each
user turn through a graph of nodes that call an LLM provider, local tools, MCP
servers and skills. Paths below are relative to the repository's root.

## 1. Inventory

| component | state | operations | interacts through |
|---|---|---|---|
| HTTP server, `pkg/http/http.go` | `active` (chat → cancel func), `broadcasters` | list and create chats, list and send messages, cancel-active | session store, executor, broadcaster |
| SSE broadcast, `pkg/http/sse.go` | subscribers of each chat, 64-event buffers | subscribe, unsubscribe, publish (drops when full) | sink callbacks of the running turn |
| session store, `pkg/storage/storage.go` | one file per chat: Messages and History | Get, Save (temp file + rename), List, Delete (unused) | files |
| inbound and outbound loops, `cmd/souz-agent/main.go` | none of their own | take one message, run one turn, publish the reply; send replies | bus, store, executor, channels |
| message bus, `pkg/bus/bus.go` | two Go channels of 64, `done`, `closed`, a wait group, `closeOnce` | PublishInbound, PublishOutbound, Close | channels, loops |
| Telegram channel, `pkg/channels/` | poll offset (memory only), running flag | long polling, Send, typing indicator, allow-list | bus, Bot API |
| graph runner and executor, `pkg/graph/`, `pkg/agent/` | the AgentContext value of the turn | Run with step limit, retries and cancellation | nodes |
| nodes, `pkg/agent/nodes/` | none | classify → mcp → skills → enrich → llm ⇄ toolloop → summarize | provider, tools, MCP, skills |
| MCP client and transports, `pkg/mcp/` | `pending` table, `closed`, request ids; receive channel, subprocess or connection | call, pump, Close; Send, readLoop | concurrent turns share one client per server |
| skills, `pkg/skills/`, `pkg/tools/skills/` | bundles and approval records on disk, skills active in the turn | select, load, validate, activate, run a script | provider, files, subprocesses |
| Codex provider, `pkg/providers/codex/` | the token file, one mutex | refresh on demand, device login (a process of its own), streaming | OAuth server, token file |
| Anthropic and OpenAI-compatible providers | what a stream has given so far | build a request, read a stream or a whole reply | LLM servers |
| tools | none | compute, fetch, read and write files | network, file system |
| hooks, `pkg/hooks/` | none | detached start and end scripts | subprocesses |

Concurrency: one goroutine per HTTP request, one inbound loop, one outbound
loop, one goroutine per channel, one pump and one read loop per MCP server.
What makes this hard:

* every turn is a read – long work – write of a whole session file, by handlers
  that share no lock;
* single flight per chat is an in-memory table with a cancel func that is called
  outside its lock;
* the bus is closed while publishers may be anywhere in their check-then-send;
* MCP mailboxes are closed by three parties, one of them without the lock;
* session files are written through temporary files in the directory that
  `List` reads; nothing is locked and nothing is synced;
* the token file is shared by the agent and the login process, and the server
  has spent the old refresh token before the new one is on disk;
* answers arrive as events that may be cut, skipped or interleaved, and come
  back as the next request;
* provider calls and token refreshes have no timeout; the Telegram offset is
  not persistent.

The correctness properties per component are listed with the modules in
section 3; `PROJECT.json` lists each hazard at its line with the properties that
cover it.

## 2. Plan

| # | module | what | status |
|---|---|---|---|
| 1 | `ChatTurns`, `ConversationLog` | HTTP turns, inbound loop, session store, single flight, cancellation, crashes; the logs the session files are | checked, proved |
| 2 | `MessageBus` | publish and Close | checked, proved |
| 3 | `McpClient`, `RpcCalls` | calls, pump, Close over an unreliable transport; request/response as the abstraction | checked, proved |
| 4 | `AgentTurn`, `TurnContract` | graph runner, pipeline, tool loop, truncation, compaction; what `ChatTurns` assumes of a turn | checked, proved |
| 5 | `Lifecycle` | start-up, Telegram polling, loops, HTTP server and bus together, shutdown, crash and restart | checked, proved |
| 6 | `Skills` | approval records, `InvalidateOthers`, concurrent and cancelled validation, activation, the checks of `RunSkillCommand` | checked, proved |
| 7 | `CodexToken` | refresh under the mutex, token rotation, lost answers and failed saves, the separate login process | checked, proved |
| 8 | `ChatEvents` | event streams with bounded buffers, chat creation, what a client can read after a turn | checked, proved |
| 9 | `SessionStore` | `writeFileAtomic` step by step with failures and crashes, `Get` and `List` beside it | checked, proved |
| 10 | `ProviderRequests`, `ProviderStreams` | the three encodings of a conversation and the three stream readers, over several rounds | checked, proved |

Composition: `Lifecycle` contains an instance of `MessageBus`; `AgentTurn`
implements `TurnContract`, whose outcomes are those `ChatTurns` lets an agent
run have; `ChatTurns` implements `ConversationLog`; `McpClient` implements
`RpcCalls`; `ProviderStreams` extends `ProviderRequests`. The others detail one
step of a coarser module and are checked on their own:

| detailed in | one step in |
|---|---|
| `SessionStore` | the session load and save of `ChatTurns` and `ChatEvents` |
| `ChatEvents` | `publish` of `ChatTurns` |
| `Skills` | the skills node, part of `Prepare` of `AgentTurn` |
| `ProviderStreams` | a call of the LLM in `AgentTurn` |
| `CodexToken` | the token of such a call, for one of the providers |

Every safety property a passing run checks is a theorem, and so are the
refinements; liveness stays with TLC (section 7). All modules are free of recursive
operators.

## 3. Modules and code

Each module's header says which files it models; `PROJECT.json` maps every
definition to its lines. A step of a model is a stretch of code between two
points where another goroutine, process or machine can observe or change
something: a file access, a locked section, a channel operation, a call to a
provider or server. `Mut...` definitions next to an operator are faulty
variants of it, used to confirm that a property notices the fault.

### ChatTurns (pkg/http, pkg/storage, cmd/souz-agent)

| state | code |
|---|---|
| `stored[c]` | the session file of chat c: Messages and History (storage.go:39-52) |
| `local[t]`, `pc[t]` | the handler's `cs` and program counter |
| `active`, `cancels` | `Server.active`; cancel funcs fetched by cancel-active and not yet called |
| `stopped`, `asked` | turns whose ctx is done; turns a user asked to stop (history) |
| `overtaken[t]`, `erased` | the turns saved in the chat since t read its copy; the turns that a save from an overtaken copy may have erased (history) |
| `events` | what the chat's broadcaster has published |

`HttpLoad … HttpRelease` are the stretches of `handleSendMessage`, in the order
of the code: the session is read *before* `tryBeginExecution`. `ChannelTake …
ChannelReply` are `handleInbound`. `Disconnect` ends the request's ctx,
`CancelLookup` and `CancelFire` are the two halves of cancel-active. `Crash`
loses everything but `stored`. A message is named by its turn; texts, ids and
timestamps are left out. A run of the agent returns a history that extends the
one it got or replaces it by a summary (`HistoriesAfter`), or it fails.
`HistoryIsAnsweredTail` says that Messages and History of a session are in step:
the turns in the history are the last answered messages, and all of them unless
a summary stands before them.

Nothing keeps clients from overlapping or from naming the chat of a channel, so
the model does not either, and a completed turn can be erased (section 6). What
holds all the same:

* `OnlyStaleCopiesErase`: a turn reported completed is in the session file unless
  a handler that had read the file before the turn was saved saved after it. No
  failed save, cancel, refused request, crash or later reader loses it.
* `SlotKeepsWritersOut`: while a HTTP turn holds the slot, only a channel turn
  makes its copy stale; among HTTP turns the read before `tryBeginExecution` is
  the only cause.
* `LogSpec`: the refinement of `ConversationLog`, in which a turn replaces the log
  of its chat by the log as it read it, extended by itself, once, and is told
  only after that.
* `SlotOwnedByTurn`, `StopOnlyWhenAsked`, `HistoryIsAnsweredTail`,
  `EventsBracketed`, and the liveness `CancelFreesTheChat`: if the cancelled run
  of a turn ends, the turn leaves the slot.

### MessageBus (pkg/bus)

A publish call moves through idle → open (closed flag checked) → checked (ctx
and done checked) → sending (registered by `wg.Add`) → accepted, refused or
aborted; `Close` through done, flag, `wg.Wait`, two `close`, two drain loops.
The wait group counts exactly the calls at "sending". `SendOnClosed` is the Go
panic. With `JoinFirst` the environment calls Close only when no publish call
is under way or to come.

Properties: `AcceptedOnce`, `ClosedMeansEmpty`, the liveness `BlockedCallsReturn`
(of Close, and of publishers blocked on a full buffer), and
`NoSendOnClosedChannel`, which is a theorem (section 7).

### McpClient (pkg/mcp)

`pending` is the table, `mailbox[k]` the one-slot channel of call k, `holding`
the entry the pump has taken out of the table and not yet delivered to, `inbox`
the transport's receive channel. Replies may be missing, late, duplicated and
out of order; the read side may end while requests still get through (the SSE
transport posts over another connection). `MailboxClosedOnce`,
`NobodyIsForgotten`, `RpcSpec` (refinement of `RpcCalls`), and the liveness
`CallersAreReleased`: a caller's ctx, a reply, the end of the connection and Close
each end a call.

### AgentTurn (pkg/graph, pkg/agent)

The turns of one chat, one after another, through the runner: `Dequeue` takes
the next node, `Try` starts an attempt, the node's own action returns or fails
it, `Abort` is the step limit or a cancelled ctx. A message has a role, the turn
it belongs to, a size (zero for an empty text), tool calls and a flag for a text
with the `<context>` marker: that of a context block, or of a user who wrote it
(`tagged` has the turns whose input has it). classify, mcp and skills do not touch the history or the
tool calls and share the action `Prepare`. What a node filters out of a history,
or reads from it, is a `FlattenSeq` over its messages. `ProviderSeesPairedCalls`;
`AnswersHaveQuestions`, which the code violates, and `PlainQuestionsStay`, which
holds of the inputs without the marker next to any others; `ContractSpec`
(refinement of `TurnContract`); `TurnsEnd`; and `CallsRunOnce`, which is a theorem
(section 7).

### Lifecycle (cmd/souz-agent, pkg/channels, with MessageBus)

`main`, `listener`, `poller`, `inLoop` and `outLoop` are the places of the five
goroutines; the bus is `INSTANCE MessageBus` whose publish calls are named by
queue, update and a number, so that an update fetched twice in one life would be
published twice. Telegram is modelled by what its API promises: a poll with offset o
forgets the updates before o and returns all later ones. `Die` resets all memory
and leaves Telegram's state; it is the end of a crash and of an orderly exit.

* `TakenInOrder`: what the loop has taken in a life are users' messages in order,
  each once, from the first unconfirmed one up to some message and none skipped
  (`Enumerates`). Across lives a message may be taken twice.
* `ForgottenWasAccepted`: the offset moves on before the message is published,
  yet Telegram forgets it only after the bus has accepted it.
* `BusIsClosedLast`: every step is one of `MessageBus` with `JoinFirst = TRUE`
  or the end of the process. `NoSendOnClosedChannel` follows.
* `BacklogIsTaken`: no circular wait. `ShutdownCompletes`: a signal ends the
  process, which the code violates; `ServedShutdownCompletes`: it does when
  `Shutdown` finds a server. All three have the hypothesis `TurnsReturn`.

### Skills (pkg/agent/nodes/skills.go, pkg/skills, pkg/tools/skills)

| state | code |
|---|---|
| `disk[s]` | the directory of skill s: a version of the owner's files, and temporary scripts |
| `records[k]` | the file of the validation record for a skill and a hash |
| `catalog`, `todo`, `loaded`, `injected` | what the skills node of a turn holds: the listing, the selected skills left, the bundle under validation, the activated skills |
| `others`, `superseded` | the directory entries InvalidateOthers has still to read, and the one it is about to rewrite |
| `licence`, `calls` | the bundle a `RunSkillCommand` call is about; calls so far |
| `approvals`, `met` | history: keys a validation approved; skills two turns validated at once |
| `started[t]`, `disturbed` | history: the files a command found when it started; turns whose directory changed between `authorize` and the start |

`List`, `Select`, `Begin` and `NodeDone` are `activateSkills`; `InvalidateRead …
SaveVerdict` are `ensureApproved` with the store and the registry, one step per
file access; `Call … Finish` are `RunSkillCommand.Execute`. `InvalidateOthers`
skips only the file named after the current hash, so the temporary file of a
concurrent `Save` is treated like a record and may be rewritten just before it is
renamed; `savingStale` is the place of a turn whose record was. The owner edits
a skill at any time; the process may die at any step.

All skills are loose directories: nothing but tests calls `SaveSkillBundle`. A
bundle is its content, so two bundles are equal exactly if their hashes are.
`ListSkills` is one step although it reads several files, and a skill's
directory has the name the manifest gives. A directory that cannot be read is
left out of the listing and is not modelled; neither is a change of the policy
version, which needs another build.

* `InstructionsWereApproved`: what enters a prompt had a verdict, whatever other
  turns, the owner and failing files do between listing, look-up, load and verdict.
* `CommandsWereApproved`: so did the files a command starts on, except when the
  directory was changed after `authorize` had looked at it (`disturbed`): the code
  does not look again.
* `ApprovalsHaveVerdicts`: rewriting records never makes an approval.
* `OneBundleApproved`: what the records promise as long as no two turns validate
  the skill at once; with two it fails.

### CodexToken (pkg/providers/codex)

| state | code |
|---|---|
| `file`, `mu` | the token file; `Provider.mu`, held from load to save |
| `pc[q]`, `tok[q]`, `reply[q]`, `got[q]` | a request in `ensureValidToken`: its place, the token it loaded, the server's answer, the result |
| `login`, `polls`, `newTok` | the `-codex-login` process: device flow, polling, code exchange, save |
| `issued`, `linkOf`, `spent`, `links`, `stale` | the authorization server, and which access tokens are about to expire |
| `lost`, `linked`, `undone`, `due` | history: successors that never reached the file, the link last saved, whether a refresh wrote an older one over it, the link a request had to find |

`EnsureValidToken` and `LoadFails` take the mutex and load; `ServerRefreshes` is
the server rotating the token, which the agent does not see; `SaveRefreshed`,
`RefreshFails` and `SaveFails` are the ways on. The server accepts a refresh
token once, and may leave a new one out of its answer, in which case the old one
stays. The login process has no part in the mutex.

* `LinkSurvives`: a spent token in the file has its successor on the way to it,
  or it was lost with an answer, a save or the process - never because two
  requests refreshed at once.
* `LoginTakesEffect`: a request that loads the token after a login answers with
  the new account, unless a refresh already under way wrote the old one back.
* `NobodyWaitsForever`: behind the mutex only a refresh that never returns makes
  a request wait for ever; the login ends.

### ChatEvents (pkg/http)

Turns are reduced to what they publish and save; `files[c]` is the session,
`log[c]` everything published on the chat, `buffer[s]` the channel of a
subscriber. `Subscribe`, `Deliver`, `Disconnect`, `Unsubscribe` are the handler
of `GET .../events`; `Start`, `Emit`, `Execute`, `Save`, `SaveFails` and `Finish`
those of a turn; `CreateChat` that of `POST /v1/chats`. `Crash` ends all of
them. `received`, `last`, `missed`, `since` record what the client of a stream
saw.

* `SubscribersSeeTheLog`: in order, each once, and nothing missing but what was
  published while this subscriber's own buffer was full.
* `FinishedIsReadable`: after `execution.finished` the question and its answer
  are among the chat's messages, also after a crash.
* `NobodyIsHeldUp`: no turn waits for a subscriber, and a subscription ends with
  its client.

### SessionStore (pkg/storage)

`dir` is the directory: the file of each chat and the temporary file of each
save, with the save that wrote the content or `Part`. `CreateTemp`, `Write` and
`Rename` are the steps of a save; `SaveStepFails` leaves at any of them and removes
the temporary file; `ListStart`, `ListRead`, `ListSort` are `List`, which skips
names that do not end in `.json`, files that vanished and files it cannot read or
decode (`unread` has the chats of those it could not read, a history variable). `ListSort` is what
`sort.Slice` promises: the same entries in another order, none behind one it
belongs before; how ties fall is open. `Get` reads in one step. `StoreCrash` keeps
the directory, with the temporary files.

* `FilesAreWhole`: a reader gets a whole session of that chat or none, and a
  session that was saved never vanishes.
* `ListingIsWhole`: every chat that was there at the start and whose file could be
  read, once, in a state it had since then, most recently updated first.

### ProviderRequests and ProviderStreams (pkg/providers)

`ProviderRequests` has the encodings of a conversation for the three APIs.
`ProviderStreams` has an action for each kind of stream event of each API. The
server makes up an answer as it goes (`sent`), the reader accumulates it
(`reader`); an event may fail to decode and is then skipped (`lost`); the stream
may end at any point, in order or with a read error. `Take` puts the result into
the conversation, answers its calls, and the next round begins. `Put` makes or
replaces an accumulator in the map a reader keeps of the calls. Arguments that lack
a piece may be no JSON (`MaybeJson`), and a call whose start was skipped has no id
(`NoCall`); the Anthropic request of such a conversation cannot be encoded
(`Encodes`), and then no round begins. `damaged` records that an answer was taken
that had skipped events, ended at its token limit or was cut before its finish
reason. A reply without
streaming (`ToChatResponse`) is what a complete stream is measured against.

* `StreamIsTheResponse`: a complete stream gives the content and the calls of the
  reply without streaming, whatever the cut into pieces and the interleaving.
* `CutStreamIsPrefix`: what is handed over of an answer that ended early.
* `CallsAreReal`: skipped events produce no call twice and none the model did
  not make, and the pieces of a call's arguments are in order. Pieces carry no mark of
  their call, so that with skipped events it does not say more.
* `RequestsAreWhole`: without such an answer the conversation can be encoded for
  each of the providers, and no call is without its id; with one, a request that
  can be encoded still has all calls and answers, in order, and no empty message
  to Anthropic.

## 4. Runs and bounds

| run | instance | what it shows |
|---|---|---|
| `chat_contended` | one chat: two overlapping HTTP turns and a channel turn, failing saves; one crash | what holds when everybody writes the same session, and which copies erase what |
| `chat_cancel` | the two HTTP turns and the crash, with fairness | a cancelled turn frees its chat |
| `chat_overlapping` | two overlapping HTTP turns | a completed turn is erased (section 6) |
| `bus_racing` | two inbound and one outbound publish call, two Close calls, buffers of 1 | everything but the panic, under free interleaving |
| `mcp_calls` | two calls, up to two replies each, receive buffer of 1 | the client's promises |
| `agent_turns` | three turns, eight node steps, two attempts, up to two tool calls per answer, inputs with and without the marker | the run of the graph |
| `agent_tagged` | two turns | a question with the marker is dropped (section 6) |
| `lifecycle_lives` | four updates, the second without text; two lives; buffers of 1 | start-up to shutdown, with a crash between |
| `lifecycle_early` | one update, one life | a signal before the server is set hangs the process (section 6) |
| `codex_tokens` | two requests, repeated at will, three tokens issued, two links, one poll, one crash | which links are lost and how, logins beside refreshes, waiting |
| `answers_and_skills` | three providers, texts and arguments of two pieces, two calls, two rounds; and two turns, one skill with two versions, up to two selections and one command per turn, two edits, one failed record access, one crash | stream readers against replies, and the next request; approvals and records under concurrent turns |
| `events_and_files` | one chat, two turns, two subscribers that may come back, buffers of 2, one progress event, any number of crashes; and two chats, three saves (two of one chat), two listings, failing reads, one crash | streams, and what is readable after a turn; files and listings during saves |

The last two runs each have two components that share no state, in one model: a
behaviour chooses one of them (`moving`) and only that one takes steps, so that the
reachable states are those of each alone.

Why the bounds are enough for the cases that matter:

* Two HTTP turns are the least for a stale copy, a slot conflict, a late cancel
  that could hit the next turn, and adjacent event streams; the channel turn
  adds the second kind of writer. A second crash repeats the first: memory is
  empty, files are kept.
* Two inbound publishers and a buffer of one give a full buffer with a blocked
  publisher and one between its checks; two Close calls give `closeOnce`
  contention.
* Two calls and two replies give duplicates, a reply after a give-up, a reply
  to the other caller, and Close between taking and delivering.
* The second round of the tool loop reaches step 8, so the step limit ends turns
  in the middle; three turns make a failed turn be followed by a stripped block
  and a compaction. main.go passes an empty retry policy (one attempt); two
  attempts check the runner's contract as well.
* Four updates, one of them ignored, with buffers of one put the poller at a
  full inbound buffer behind a running turn and a busy outbound loop.
* Two versions and two edits let a superseded bundle come back; two turns give
  concurrent validation, and a listing that sees another turn's script; two
  selections in a turn pick the one skill twice, with an edit between. A second
  skill would add nothing: records and directories of different skills meet only
  in the list a turn works off.

* Two requests are the least for a refresh under way, one waiting and a login
  beside them; the third token is the one a second refresh, or a login, issues
  after a successor was lost. Requests repeat, so nothing needs a third. One poll
  has a poll that is authorized and one that is the last; more only delay.
* Two subscribers and buffers of two have one full and one with room at the same
  event; two turns and a progress event are five events or more, so that a full
  buffer loses both progress and terminal events and a returning subscriber starts
  in the middle.
* Two saves of one chat race for its file and differ in their time stamps; the
  third puts another chat before or behind them in a listing, and a second
  listing sees what the first one's saves and a crash have left.
* Two calls with two pieces are the least that can be interleaved, swapped or
  merged; two rounds send an answer of the first back, with its calls or empty.

Every TLC run passes within its bounds without a state constraint; the bounds are
guards of the actions. Symmetry is declared only in runs without liveness
properties and over interchangeable turns. Deadlock is checked except in `events_and_files`,
where everything to be sent and saved may be done.

The runs list no type invariants. Those of `ChatTurns`, `MessageBus`, `Lifecycle`,
`Skills`, `AgentTurn` and `CodexToken` are theorems, those of `McpClient`,
`ChatEvents`, `SessionStore` and `ProviderStreams` are part of the invariants
section 7 names. TLC has checked these inductive invariants in these instances too
(`RunInv` and `ReadInv` without their memberships in sets of sequences, which TLC
does not enumerate).

## 5. Fairness

Weak fairness per goroutine: the Go scheduler runs every goroutine that can run.
Beyond that only what the code or its environment justifies:

* Nothing makes an agent run end, cancelled or not: provider clients have no
  timeout, a request that waits for the token mutex does not look at its ctx
  (codex.go:51), and neither does a `Send` on a full pipe (stdio.go:88). So no
  specification has fairness for it, and each liveness property that needs it
  says so: `CancelFreesTheChat` assumes, per turn, that a *cancelled* run ends,
  `TurnsEnd` assumes WF(NodeStep), the properties of `Lifecycle` assume
  `TurnsReturn`.
* Consumers of `MessageBus` have none: a loop may be busy or gone.
* An MCP server owes no reply; a transport's `Send` returns. (The stdio
  transport's `Send` ignores its ctx and may block on a full pipe; that is
  outside the model.)
* In `Lifecycle` polls and sends return (the Telegram client has a 40-second
  timeout), and polls succeed infinitely often if they are tried infinitely often
  (SF). Start-up is fair only after the signal: MCP
  initialisation is bounded by nothing but ctx. Crashes and signals are never
  required.
* `CodexToken`: nothing makes the server end a refresh, which has no timeout.
  `sync.Mutex` does not starve a waiter, so taking it is strongly fair. The steps
  of the login are weakly fair: its HTTP client has a timeout of 30 seconds and it
  polls a bounded number of times.
* `ChatEvents`: a turn that was sent goes on, as above with a provider that
  answers; a stream whose client has gone is left. A client need never read.
* `SessionStore` and `ProviderStreams` have safety properties only.

## 6. Where code and documents disagree

Three disagreements have a run that TLC ends with a counterexample; the findings in
`PROJECT.json` quote the lines.

* `chat_overlapping`: `handleSendMessage` reads the session before it takes the
  slot. A request that read early and begins after the previous turn ended saves
  a stale copy: the previous turn, reported as finished, is gone.
* `agent_tagged`: enrich drops "any stale <context> block left over from a previous
  turn" (enrich.go:16), but takes every user message with that text for one
  (enrich.go:42): a user's own question is dropped by the next turn.
* `lifecycle_early`: a signal during start-up lets `Shutdown` find no server
  (http.go:92, 102); the server starts afterwards and `wg.Wait` never returns, against
  the graceful shutdown of README.md:35 and docs/plan.md:62.

Observations without a run of their own:

* After the read side of an MCP connection ended and the pump has gone, the
  client still accepts calls; one whose request can be sent (SSE) waits until its
  ctx ends (client.go:82, 104; sse.go:143). `CallersAreReleased` is therefore about
  calls that were in the table while the pump ran.
* docs/plan.md:53 and PROGRESS.md:47 say that `RunSkillCommand` authorizes by the
  APPROVED record of the current bundle alone, "без доп. ограничения": a command may
  be of any approved skill. The code has the restriction: `Execute` refuses a skill
  that is not in `ActiveSkillIDs` of its turn, as its package comment says
  (skills.go:8-13). The model follows the code; these two documents are out of date.
* `authorize` looks at the bundle once. A directory that changes between this look
  and the start of the command is executed as it then is, approved or not; that the
  bundle is another one than the turn's instructions came from is possible too.
* The temporary script of a running command lies in the skill's directory
  (exec.go:84), so a turn that lists the skills meanwhile sees a new hash, marks
  the approved record STALE, and validates a bundle that soon disappears.
* The server has rotated a refresh token before the answer is saved (codex.go:70,
  83). A lost answer, a turn cancelled meanwhile, a failed save or a crash leaves
  a spent token in the file, and only a new login helps. `LinkSurvives` names these
  as the only ways.
* A refresh that was on its way when the login process saved its token writes the
  old account back over it.
* A refresh uses a client without a timeout, and a request that waits for the
  mutex does not look at its ctx: one server call that hangs blocks all turns, and a
  cancelled one among them keeps the slot of its chat.
* A stream that ends in good order before its last event is taken for the whole
  answer by all three readers. The OpenAI-compatible one also hands over the
  arguments of a call as far as they came (openai_compat.go:380), and any reader
  those of a call whose delta was skipped or whose reply ended at its token limit.
  If they are no JSON, neither the session (`Save`, storage.go:94) nor a later
  Anthropic request (anthropic.go:48, 198) can be encoded. The Anthropic reader
  ignores `error` events.
* After a first chunk that does not decode, the OpenAI-compatible reader reports
  a call without id and name; the request that answers it leaves the id out
  (`omitempty`).
* Temporary session files left by a crash are never removed.
* `List` skips files that fail to parse, as its comment says (storage.go:121-122),
  and also files it cannot read (136-139): with too many open files, say, a chat is
  missing from the listing without an error.
* Chat ids may contain ":", so an HTTP client can address a channel's chat; the
  inbound loop and the HTTP handler then race on the file, as in `chat_contended`.
* The bus alone does not wait for a publisher between its checks and `wg.Add`:
  with `JoinFirst = FALSE` it can send on a closed channel, and TLC finds
  `NoSendOnClosedChannel` violated in `MCMessageBus`. `main.run` never gets there:
  `lifecycle_lives` and the theorem `RunClosesBusLast`.
* A validation whose turn is cancelled, or whose provider call fails, is recorded
  as REJECTED, and a rejection is final until the bundle changes
  (validation.go:109).
* Two turns that validate one skill at once may each write its record: a
  rejection can be overwritten by an approval, and the other way round.
* No `execution.cancelled` event is ever published, although README.md:135 and
  docs/plan.md:69 list it; a stopped turn publishes `execution.failed`.
* A turn that succeeds but whose save fails publishes no terminal event.
* A turn whose last assistant message is empty returns an earlier text
  (`lastAssistantText`); executor_test.go:40 pins this, so no property is stated.
* Truncation to the last `ContextSize` messages may cut between a tool call and
  its result; `ProviderSeesPairedCalls` is about untruncated requests.
  `ContextSize` counts messages in llm.go and tokens in summarize.go.
* Messages still buffered when the process stops are lost although Telegram has
  been told they were received.
* A channel turn whose save fails is answered all the same; therefore the
  abstraction `ConversationLog` counts only HTTP turns as told.

## 7. Proofs

The theorems hold for all values of the constants that satisfy the `ASSUME` of
the module (any number of chats, turns, calls, publishers, updates, lives, any
buffer size); TLC evaluates these assumptions in every run. The proofs about
`SessionStore` and `ProviderStreams` stand in the proof modules of the components
they detail, which extend both: two state machines side by side, with no variable in
common. That is why the specifications of these two are called `StoreSpec` and
`StreamsSpec`, and their variables and actions have names of their own too.

**ChatTurnsProofs.** `TypeCorrect`. `SlotsCorrect`: with the types
`SlotOwnedByTurn` is inductive as it stands, because every exit path of the
handler frees exactly its own slot; `TurnsAreSerialized` (`SingleFlight`) follows. `StopsAreAsked`
needs that every fetched cancel func was asked for and belongs to a turn that
was in flight. None of the theorems assumes anything of clients or chats.

`SlotKeepsOthersOut` (`SlotKeepsWritersOut`) follows from `SlotsCorrect`: who saves
holds the slot. `OnlyStaleCopies` (`OnlyStaleCopiesErase`) from `EraseInv`: an answer
that was kept and not erased is in the file of its chat and in every copy it has not
overtaken (`AnswerIsSafe`); a save keeps this because what it leaves out had
overtaken the copy and counts as erased. `SessionsImplementLog` (`LogSpec`) maps the read, the save and the reply
to `Read`, `Record` and `Tell`, every way out and a crash to `Leave`, and every
other step to stuttering.

`StreamsAreBracketed` (`EventsBracketed`):
a turn that has not begun has published nothing (`Unheard`), and one that is
running owns the last event of its chat's stream (`Open`), because it holds the
slot - hence `SlotOwnedByTurn` is part of the invariant `EventsInv`.
`HistoriesAreInStep` (`HistoryIsAnsweredTail`) from `CopiesInStep`: the handlers'
copies are in step too, so that overwriting one another's file, which loses turns
(section 6), cannot bring Messages and History of a file apart.

**MessageBusProofs.** `BusTypes`; `AcceptedMessagesAreInOnePlace` from `BusInv`
(types, `AcceptedOnce`, and that a message is buffered only in its own queue);
`MainNeverPanics` for `JoinFirst = TRUE`, from: channels are closed only after
Close has begun, and then no publish call is under way. `ClosedBusIsEmpty`
(`ClosedMeansEmpty`) from `ClosingInOrder`: one Close call runs the body of
`closeOnce`, what it has done follows from its place, every other call waits for
it, and nobody sends on a channel that is closed.

**LifecycleProofs.** `LifecycleTypes`; `RunNeverPanics` and `RunClosesBusLast`
from the invariant `Joined`: Close begins only in the last phase of `run`, in
which poller and inbound loop are done, and a publish call under way belongs to
one of these two. `RunClosesBusLast` discharges the assumption of
`MainNeverPanics` for this program; it holds also with a signal during start-up.
`MessagesAreKept` (`ForgottenWasAccepted`) from `Kept`: a batch is consecutive,
everything before its head is settled, and the offset is one ahead only while a
publish call is under way - after a failed one the poller never polls again.
`InboundTakesInOrder` (`TakenInOrder`) from `InOrder`, whose core is that what
the loop has taken followed by what waits in the inbound channel (`Flow`) are all
messages up to the first unpublished one. That is inductive only together with
`OneCallEach` (every update has at most one publish call, and those not yet
dispatched have none), `WithinSent` and `NewLife`; while Close drains the channel
only `TakenInOrder` itself is kept.

**McpClientProofs.** `NoDoubleClose`, `CallersAreKnown`, `ClosedIsEmpty` from
`MailInv` (types and `OneOwner`: an open mailbox is in the table or in the pump's
hands, never both); `ClientImplementsRpc` with `RepliesAreGenuine`.

**SkillsProofs.** `SkillsTypes`; then `OnlyApprovedInstructions`,
`OnlyApprovedCommands` and `RecordsHaveVerdicts`, which hold together or not at
all. Their invariant `VerdictInv` joins the three properties with `Justified(t)`:
what a turn carries from one step to the next - the record it is about to
rewrite, the bundle it is about to activate or save as approved, the key
whose look-up said APPROVED - is in `approvals`. These do not restrict how many
turns validate at once. `OnlyOneBundle` (`OneBundleApproved`) from `SupersessionInv`:
one bundle at most is approved, one turn at most validates the skill, and every
approved bundle but the one it works on has a record it has still to supersede.

**AgentTurnProofs.** All from `RunInv` (`RunInvHolds`): types; the history of the
chat is `Sound` (requests stand next to their results, answers come after their
questions unless their input has the marker, and no other text has it); one frame carries the turn, queued or
running (`OneFrame`); and it is `Ready`, that is, its history is one the node it
goes to can take - before the model no request is open, before the tool loop
exactly the last one is - and holds the calls executed so far. `ProviderSeesPairs`
(`ProviderSeesPairedCalls`), `ToolCallsRunOnce` (`CallsRunOnce`, which no run lists:
with one attempt per node, as main.go has it, it is a matter of one loop),
`QuestionsAreKept` (`PlainQuestionsStay`, for any texts of users). `RunsKeepTheContract` is the refinement of `TurnContract`
(`ContractSpec`): a history is mapped to its final answers and dumps, the end of a
turn to `Answer`, `Fail` or `Stop`, everything else stutters. `RunsAreTyped` adds the bounds on
steps and attempts. What the views of a history are - the calls of a turn, the
messages without context blocks, the final answers - is proved by induction on its
length, from the least element of a set of naturals (`LeastNumber`), since the
library's rules for induction take an operator.

**CodexTokenProofs.** `TokenTypes` (with: at most one request holds the mutex),
`LinksSurvive` and `LoginsTakeEffect` from `TokenInv`: tokens in the file and in
flight were issued by the server and belong to the link they say
(`TokensAreGenuine`); what is about to be saved has a refresh token nobody has
used (`SavesAreFresh`); what is loaded belongs to the last login, unless an older
link was written back (`LinkIsCurrent`). The login process takes no mutex; that is
why its token has to be kept apart from all others.

**ChatEventsProofs.** `StreamsFollowTheLog` (`SubscribersSeeTheLog`): what a
subscriber received, what waits in its channel and what was dropped add up to what
was published since it came (`StreamInOrder`). `FinishedAnswersAreKept`
(`FinishedIsReadable`) from `KeptInv`: turns of a chat follow one another
(`OneAtATime`), and every announced answer is in the file and in the draft of the
turn under way.

The session files, in the same module: `SessionFilesAreWhole` (`FilesAreWhole`) and
`ListingsAreWhole` (`ListingIsWhole`) from `StoreInv`. A file is whole because only
a temporary file that was written to its end is renamed, and its name is its own
(`FilesInStep`). For the listing, saves have time stamps no other save has
(`StampsAreOwn`), and what was read so far is of different chats, each in a state
it has had since `List` began (`ListedOnce`); a chat that was there all the time is
listed or still to be read (`ListedAll`). The sort keeps all this because it only
puts the entries in another order.

**Provider streams (AgentTurnProofs).** `StreamsAreResponses`
(`StreamIsTheResponse`), `CutStreamsArePrefixes` (`CutStreamIsPrefix`) and
`CallsReadAreReal` (`CallsAreReal`) from `ReadInv`: the server keeps the order of
events its API prescribes (`SentInOrder`); as long as no event was skipped, the
reader holds exactly what was sent, whole calls and open ones apart (`Exact`);
and whatever was skipped, it holds the calls of the model only, each once, with
pieces in order (`Real`). The last does not follow from the first two: a skipped
start leaves Anthropic's reader with deltas of a block it does not know, and the
compatible one with a call that has no name. `RequestsKeepTheConversation`
(`RequestsAreWhole`) from `SaidInv`: every answer stands behind its call
(`Linked`), which `Take` keeps because it appends an answer and the results of
its calls together; and unless `damaged`, every message has JSON arguments and its
ids (`SoundSaid`), because a call that was read from an answer that is not `Doubtful`
is whole (`TakenWhole`). That each of the three encodings says the same of a
conversation of any length is proved like the views of a history, by induction on
its length; the Anthropic encoding, whose messages must have a block, is looked at
message by message.

Only model-checked: all liveness (`CancelFreesTheChat`, `BlockedCallsReturn`,
`CallersAreReleased`, `TurnsEnd`, `BacklogIsTaken`,
`ServedShutdownCompletes`, `NobodyWaitsForever`, `NobodyIsHeldUp`), since fairness and
ENABLED are out of the prover's reach, and the three violations of section 6.

## 8. Not modelled

`PROJECT.json` lists every component with its status. Left out, and why:

* the calculator works on floats, which TLC does not have; its grammar alone is a
  pure function with unit tests;
* the file tools and their path sandbox, the web tools: stateless I/O, and path
  resolution character by character, which a model would only copy;
* turn hooks: two detached scripts whose order nothing enforces and whose results
  nothing reads;
* the MCP `initialize` handshake (a fixed sequence of calls), the endpoint
  handshake and the line parsers of the transports; a stdio `Send` that blocks on a
  full pipe;
* the skill bundle and frontmatter parsers, and managed skill bundles, which only
  tests create;
* `Store.Delete`, which nothing calls; `Message.Parts`, which nothing sets; token
  usage numbers, tool schemas and settings of requests;
* Mattermost and SberBoom channels are stubs; logging, the typing indicator and
  the configuration, read once, change no state another part reads;
* a power loss: files are renamed without `fsync`, so that a file may be empty
  after one. The crashes of the models end the process, not the machine.

Turn texts, JSON formats and prompts are abstracted to what the properties tell
apart.

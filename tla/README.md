# GoldClaw: specifications

TLA+ specifications of GoldClaw, a personal assistant that runs as a local
daemon: what its runtime, its database, its daemon life cycle, its channel
connectors and its terminal client do when calls overlap, calls fail and
processes die. Every definition is translated from the Rust source;
`PROJECT.json` names the lines.

## The system

| part | source | state it keeps | operations |
|---|---|---|---|
| assistant runtime | `crates/goldclaw-runtime/src/lib.rs` | maps of sessions with histories, of conversation bindings, of broadcast channels; spawned turns | `submit`, `create_session`, `list/load_session`, `subscribe`, `health`; a turn: provider rounds, tools, memory |
| session store | `crates/goldclaw-store/src/sqlite.rs`, `migrations.rs` | SQLite tables `sessions`, `session_bindings`, `messages`; the schema's version | open, migrate, back up, upsert, append, load a snapshot |
| memory store | `crates/goldclaw-memory` | `memory_chunks`, full-text rows, a vector table | open and backfill, save, recall, re-embed |
| HTTP gateway | `crates/goldclaw-gateway/src/lib.rs` | none of its own: one handler future per request, one SSE stream per listener | `POST /messages`, `/sessions`, `GET /sessions/{id}/events`, origin check |
| gateway client | `apps/goldclaw/src/gateway_handle.rs` | one pump task per subscription | the runtime's interface over HTTP |
| WeCom connector | `crates/goldclaw-connector-wecom` | WebSocket, heartbeat task, retry counters, one task per inbound message | connect, authenticate, receive, submit, wait for the reply, send |
| Weixin connector | `crates/goldclaw-connector-weixin` | account and polling cursor on disk | QR login, poll a batch, handle it message by message |
| stdin connector | `crates/goldclaw-connector-stdin` | one session | a line, a submit, a wait |
| command line | `apps/goldclaw/src/main.rs` | two state files with pids; child processes | `start`, `stop`, `restart`, `status`, `gateway run`, `memory reembed`, `init` |
| terminal client, web page | `apps/goldclaw-tui`, `apps/goldclaw-web` | session list, transcript, one event stream | select, load, send, apply events |
| doctor, configuration, layout | `crates/goldclaw-doctor`, `-config`, `-store/layout.rs` | none | checks, loading, paths |
| providers, tools | `crates/goldclaw-provider-*`, `goldclaw-runtime/src/tools` | none (files of the workspace) | chat, embed; read, write, edit, shell, soul |

Clients reach the gateway by HTTP; the gateway calls the runtime in its own
process; the runtime calls the stores, the provider and the tools and sends
events to a broadcast channel per session, which SSE streams carry back.
Connectors are processes of their own that use the same HTTP interface. The
command line starts and kills these processes and knows them only by the pids in
two files. The gateway and the commands share one database file.

What is hard about it, part by part, and the property that would notice:

* **runtime**: locks are held for one map access at a time, so submissions
  interleave between resolving a session, creating it, binding it and appending
  to it (`StableConversation`, `BindingsLive`); memory is written before the
  store and every store call can fail (`StoreWithinMemory`, `GapsExplained`);
  turns of one session interleave in one history (`ExchangesInOrder`,
  `OwnMessagePrompted`); a turn may end at any `?` (`OneOutcome`,
  `AcceptedAnswered`); handlers are cancelled at an await, and the process may die
  anywhere (`AcceptedDurable`, `ImplementsDelivery`).
* **database**: several processes open, back up, migrate and fill it, in an order
  that depends on the command; the vector table and the embeddings have dimensions
  of their own (`MigratedOnce`, `LossExplained`, `RecallReaches`, and the
  violations `BackupComplete`, `MemoriesStored`).
* **waiting for a reply**: an answer is found by session and date, or by whatever
  event arrives; the event stream opens after `subscribe` has returned; turns outlast
  their waits and overlap; the gateway dies (`RightAnswer`, `NoOldReply`,
  `AnswerFound`, `GaveUpForAReason`, `WaitEnds`).
* **Weixin**: the cursor is truncated, written, and saved before its batch is
  handled, or not at all when a response has none (`AtMostOnce`, `InChannelOrder`,
  `LossBounded`, `Delivered`, `LoginEnds`).
* **WeCom**: counters, heartbeats and reply tasks survive the connection they
  belong to (`RetryBudget`, `HeartbeatsExplained`, `AnsweredAcrossReconnects`).
* **terminal client**: a transcript made from a history and from a stream that is
  opened later, lags, breaks and is replaced (`TranscriptOwn`, `ShownOnce`,
  `AnswerAccounted`).
* **daemon**: several processes read, write and remove the state files without a
  lock (`ServerOnFile`, `OneConnector`, `ReportsTrue`, `CommandsEnd`).

## The modules

| module | models | proofs |
|---|---|---|
| `Runtime` | submit, create_session, a turn and restart, over the sessions' tables | `RuntimeProofs` |
| `Delivery` | what the runtime promises the clients that send it messages | `DeliveryProofs` |
| `RuntimeDelivery` | the mapping under which `Runtime` implements `Delivery` | in `RuntimeProofs` |
| `Memory` | the database file, its schema and the memories, and all who open it | `MemoryProofs` |
| `Connector` | the wait for a reply in both channel connectors, over `Delivery` | `ConnectorProofs` |
| `Weixin` | login, polling, cursor and batch of the Weixin connector | `WeixinProofs` |
| `WeCom` | connections, heartbeats and retries of the WeCom connector | `WeComProofs` |
| `Tui` | the terminal client, its stream and the gateway behind it | `TuiProofs` |
| `Daemon` | the command line, the gateway and connector processes, the state files | `DaemonProofs` |
| `MC*` | instances for TLC | |

`Runtime` promises `Delivery`; `Connector` uses `Delivery`; `Weixin` and `WeCom` use
what `Connector` shows of a submission and its reply: that it ends. `Memory` is
what `Runtime`'s `Remember` does. `Tui` has of the runtime only what its stream and
`GET /sessions/{id}` show.

Operators with a `_` in their names (`Kill_Signal0`) are altered forms of the
definition that follows them, for a bug that the code might have had; no
specification uses them. Each property fails when one of them takes its original's
place.

### Runtime

A client's call is a task with a program counter `pc[e]`; its labels are the
places where the code releases a lock, awaits or calls the store, and one action
leads from each to the next. `submit` is `resolve` ... `accept`; `append_message`
is the shared part `append`, `save_summary`, `save_message`, entered for the four
kinds of message (`part[e]`); `process_envelope` is `prompt` ... `failed`.

* `sessions`, `history`, `bindings` are the maps of the process; a crash empties
  them, `Restart` (`restore_from_store`) refills them.
* `dbSessions`, `dbLog`, `dbBindings` are the tables. `dbLog[s]` is in the order
  `list_messages` returns (`ORDER BY created_at`), hence `clock`, `stamp` and
  `InsertAfter`: a message is dated before it waits for locks, so table order and
  append order differ.
* A session is named by the request that created it: ids are UUIDs.
* `SaveBinding` and `ForeignKeyFails` are the foreign key of `session_bindings`.
* `StoreFails`: any store call may return an error (`MaxFailures` of them).
  `Abandon`: the client hangs up and the handler's future is dropped at an await;
  store calls do not await. `Crash`: SIGTERM or worse, at any point; nothing runs
  on a signal other than ctrl_c.
* Listing, loading, subscribing and health change nothing and have no action.
* Abstracted: contents, titles, `updated_at`, the provider's and the tools'
  decisions (a free choice among fail, call a tool, answer; refuse, fail,
  return), which memories are recalled. `emitted[e]` is the set of events sent for
  a request.

### Delivery and RuntimeDelivery

`Delivery` has no sessions, locks or tables: per request what its client knows
(`state`), and which messages and answers a reader of the store finds
(`onRecord`, `kept`). `RuntimeDelivery` computes these from `Runtime`'s state:
the client's knowledge from `pc` and `emitted`, the record from `dbLog`. Every
step of the runtime is one step of `Delivery` or changes nothing in its terms; a
crash is `Drop` of all pending requests at once.

### Memory

`db` is all that is committed, `file` the part of it that is in the main file (the
rest is in the WAL), `backups` the copies of `file`. A process is a command with a
program counter: the gateway opens the memory store (`OpenMemory`, `Backfill`),
then the session store (`ReadVersion`, `Backup`, `Migrate`), then listens and
saves; `start` opens the session store and runs a gateway; `memory reembed` lists,
embeds and writes row by row.

* A vector table holds one number of dimensions (`vec`), an embedding has another
  (`rows`); `fits` decides whether a memory is stored or rolled back.
* The initial database is new, or what an older program may have left: a schema
  without memories, or with memories that GLM or nobody embedded, in a WAL of a
  killed process or not.
* Migrations run together in one transaction; the key of `schema_migrations`
  refuses a second one. The last one drops the vector table.
* Ghosts: `lost` (memories that were not stored, and by which gateway), `applied`
  (how often a migration was committed), `upgraded`, `reembedded`.
* `Recalls` is the set of answers that `recall` may give: the candidates of the vector
  index, or of the full text when it has none, cut to `RecallLimit`.
* Abstracted: contents and words (a query is the set of memories whose words it has),
  and the ranks of vectors and words: any `RecallLimit` of more candidates may come first.

### Connector

`wait_for_assistant_reply` is the same in both connectors: look in the history,
subscribe, then look, wait for an event, look again, until the deadline, and look a last
time. All messages are of one chat, so of one session. The runtime is `Delivery` plus
the order of what a connector sees: an answer is dated, announced, pushed to the
history, stored. `early[e]` are the answers dated before the receipt of `e`, which is
all the date comparison can tell. `Serial` is Weixin (one message after the other), its
negation WeCom (a task per message). A wait may time out while its turn goes on; the
ghost `late` remembers that one did. A read (`/read`) leaves no `provider_response` in
the history. `before[e]` is a ghost: the messages whose turns had ended when `e` was
posted.

`CallFails` is a call of a dead gateway. Left out are two more ways for a call to fail,
which also end the wait: the history of a session that a restart forgot (here the
session's row is stored), and a stream that lags by more than the 64 events of its
channel.

### Weixin

The channel keeps its updates in order and delivers what comes after the cursor it
is given, the whole history for none (the external part, as `run_once` uses it).
`run_once` is `Fetch`, `SaveCursorBegins`, `SaveCursorEnds`, then `Ignore`, `Submit`,
`Reply` for one update after the other, `BatchDone`; every `?` is an action that
leaves the batch (`...Fails`), and `run_forever` sleeps and polls again (`Wake`). A
response may carry no `get_updates_buf`, or an empty one: then the cursor's file stays
as it is (`fresh` is false and `SaveCursorBegins` is not taken) or is emptied
(`FetchBlank`), and the batch is handled all the same; `blanks` counts these responses.
A file is truncated before it is filled: a death in between leaves it empty
(`resets`). Login is a process of its own (`connector weixin login`) or the first
thing that `connector weixin run` does.

### WeCom

`run_forever` is a loop of connections, numbered by the length of `log`, which
holds how each of them ended. `EndsCleanly`, `EndsWithError` and `EndsForGood` are
its three arms with counters, backoff and the two limits. `Verdict` is
`handle_frame`: which frames are answered, ignored, or end the connection. A socket
outlives the read loop: its writer is shared with the heartbeat and with the tasks
of the messages that came on it, so `socket`, `heartbeat` and `via` are indexed by
connection or message. The server closes sockets when it likes.

### Tui

The run loop does one thing at a time (`tui`): boot, a key, an event; while it
waits for a call (`fetch`) the runtime and the stream go on. `Load`, `Fetch`, `Show`
are `load_selected_session`: the answer is made, then transcript and stream change
together. `queue` is the events on their way; when `start_stream` aborts the old
task, a prefix of it has been received and stays. A stream that does not keep up
loses the oldest of the `Capacity` events that wait (tokio's broadcast channel; the
gateway drops `Lagged`). `Script` is the order in which a turn emits events and
appends messages. A failing key ends the client (`?` in `run`), a failing refresh or
reload does not. Ghosts: `loaded`, the session the transcript was loaded from,
`missed` and `doubled`.

### Daemon

A command and the gateway or connector that it starts share a name, the pid. `file` and
`connFile` are the two state files; `port` is the one bind address. Each file access,
probe, kill and spawn is a step; `start` probes the port in its loop (`WaitSucceeds`,
`WaitExpires`) and once more after it (`CheckPort`). `late` is a ghost: a process took
longer to start or to end than a command waited for it. The guard of `gateway_run`
removes whatever file is there when the gateway ends by itself (`GiveUp`, `Drained`) and
does not run when it is killed (`Die`, `Crash`).

`fs::write` truncates first: a gateway that dies between `TruncateState` and `WriteState`
leaves a file (`Torn`) that every later command fails to parse (`TornFails`). `start`
may die, or its write fail, after it has spawned a connector and before its pid is in
the file (`LoseConnector`): nobody can stop that one any more (`unfiled`).

`said[c]` is the last report of a command. "Stopped" is printed after `kill` has
returned, while the gateway may still listen: `ReportsTrue` says of it that no gateway is
left that was not told to end.

## The runs

| run | question | instance |
|---|---|---|
| `runtime_mixed` | does the runtime keep its promises under any interleaving? | 2 calls of 5 kinds, 1 failure, 1 crash |
| `runtime_serial` | does a client that waits keep its session and its prompts? | 3 messages, 2 rounds, 1 failure, 1 crash |
| `runtime_live` | does every call and every turn end? | 2 calls, 1 failure |
| `memory` | do processes that share a database migrate it once, and lose no memory? | 2 memories, 2 processes at a time, 1 death, 1 change of provider |
| `connector` | does each message get its answer, and does every wait end? | 2 messages one after the other, any of them a read, turns of any length, 1 failure or crash |
| `weixin` | is every update submitted, once and in order? | 4 updates, batches of 2, 1 death, 1 response without a cursor, 1 fault of each kind |
| `wecom` | when does the connector give up, and what does it leave behind? | 4 connections, 1 message, 3 settings of the limits |
| `tui` | does the transcript show every answer of its session, once? | 2 sessions, 2 turns, 2 loads, 1 fault |
| `daemon` | do the state files keep naming the processes, is what commands report so, and do they end? | 3 commands of 5 kinds, processes of any speed, 1 death or failed write |
| `conversation_splits`, `memory_lost`, `backup_incomplete` | violations, see below | the smallest that shows each |

*Bounds.* `Runtime`: two concurrent requests meet in every pair of steps, and every
property speaks of one request or relates two, so a third adds only repeated
pairs; the serial run has three because a conversation is resolved by creating,
by finding and by finding again after a restart. One failure and one crash reach
each store call and each control point; the theorems hold for any number of
either. `ToolCallLimit` is 8 in the code; 1 and 2 contain the last round, a middle
round and the limit. `clock` needs no bound: it advances at most once per message.

`Memory`: two processes at a time are the gateway beside a command or two commands that
open an old database at once; a process that ends may be launched again as another
command, so any sequence of them is in the run. Two memories are one that the index
holds and one that it lacks; a `RecallLimit` of 1 (5 in the code) is below their number,
so that one can push the other out. `Connector`: a message and the one before it, whose
turn may still go on, are all that an answer can be mistaken for. `Weixin`: two batches,
the first of them left at its second update; the one death loses the cursor while it is
written, or a batch, beside the one error and the one response without a cursor.
`WeCom`: four connections exceed a limit of 1 with a clean end in between, and a limit
of 2; the backoff reaches its maximum at the third failure. `Tui`: two sessions, one of
which a restart loses; an answer of the provider, which grows chunk by chunk, and a
`/read` that says the same, at the same time and in any session, each sent by this
client or another; `Capacity = 2` overflows within one turn. `Daemon`: three commands
are start, an intermediate event and the command that finds the result.

*Fairness.* `Runtime`: tokio polls every runnable task, and provider and
tool calls return (the shell tool and the Qwen client have timeouts; the GLM client
only when `API_TIMEOUT_MS` is set, so this is an assumption about its server). No
fairness for clients, crashes, hang-ups or failures; a stop of the process is
followed by a restart only in liveness runs. `Connector` and `Weixin`: the connector's
task is polled, turns end, and what has a timeout ends, which is the wait for an event
(`reply_timeout`), `get_updates` (`poll_timeout`) and the login once it has a code
(`login_timeout`). The calls of `GatewayHandle`, `send_text` and `start_login` use a
client without a timeout, so nothing is assumed of them: `AnswerFound`, `WaitEnds`,
`Delivered` and `LoginEnds` hold unless such a call never returns (`[]Calls`), and
say that nothing else holds the connector up. The channel, the user and faults are free.
`WeCom`: the timer of the authentication and the heartbeats' tickers are served, and the
answers that reply tasks wait for come (`Connector` says when); what the server does is
free, so neither authentication nor reconnection is fair. `Daemon`: commands and
processes run; a gateway that drains open streams may do so for ever.

*Deadlock* checking is off because each instance ends: every request, command,
update or connection is used once, and the terminal client may be left.

*What the violations show.*

* `conversation_splits`: two first messages of one conversation are accepted into
  two sessions (README.md:12 promises one).
* `memory_lost`: with `embedding_provider = "glm"` a memory whose embedding
  succeeds is lost: 2048 dimensions do not fit the vector table of 1024, and the
  transaction rolls its row back.
* `backup_incomplete`: the backup before a migration copies the main file; what a
  killed gateway committed is in the WAL, and in no backup.

*Conditions that the passing runs make explicit.* Each is a disjunct of a property
or a constant, and drops out when its constant is changed:

* Recalled memories may be put in front of another turn's message when turns of a
  session overlap (`OwnMessagePrompted` holds for `SerialClients`).
* An accepted message is not answered when its process dies: nothing takes it up again
  (`runtime_live` has no crash).
* After a timeout, the late answer to one message is sent as the reply to the next
  (`late`), and messages of a chat that WeCom handles at the same time may get each
  other's answers (`Serial`). An answer that cannot be stored sends an `Error` event
  that ends the wait of the *next* message early, and a third message can then be given
  the second one's answer; `connector` has two. What holds of late turns, too, is
  `NoOldReply`, and of messages handled at the same time by `RepliesAreNew`: a reply may
  belong to another message, but not to one whose turn was over when this was posted.
* A call of a channel or of the gateway that never returns holds up its message, and in
  the Weixin connector everything after it; so does a login that asks for a code
  (`[]Calls`, `login = "ask"`).
* A `/read` that completes before the SSE stream opens is never sent back (`AnswerFound`
  and `GaveUpForAReason` speak of provider messages only).
* `gateway run` beside a running daemon removes the daemon's state file (`CarefulRuns`);
  two commands at once may start two connectors (`Serial`). `start` gives up on a
  gateway that listens after three seconds, and a killed process may still be there at
  the next probe: reports may then be wrong (`ReportsTrue`: `late`), but the files are
  right all the same. `stop` fails on a dead pid and leaves the file, which the doctor
  says it cleans up; every command fails on a truncated file until somebody removes it.
* A connector whose pid could not be written runs on beside the next one
  (`OneConnector`: `unfiled`).
* A gateway that was run by hand on an old database works without memory until it is run
  again (`LossExplained`, `RecallReaches`: `via = "foreground"`): it opens the memory
  store before the session store has migrated the tables. A memory that was re-embedded
  is found by its vector only after the next start. A memory is not recalled when
  `RecallLimit` others rank before it.
* An error in the middle of a Weixin batch loses the rest of it (`LossBounded`). The
  updates of a response without a cursor come again with a later poll and are submitted
  a second time (`AtMostOnce`, `InChannelOrder`: `blanks`).
* Failures of WeCom's connections add up to the limit over any time, as long as none
  ends cleanly (`RetryBudget`); a connection that ended with an error keeps its
  heartbeat until the server closes it (`HeartbeatsExplained`).
* The terminal client does not show an answer that was announced while its stream was
  not open, or that lagged, until the session is loaded again; it shows one twice that
  was loaded while its event was queued (`missed`, `doubled`); and it leaves out an
  answer that says the same as an earlier tool output (`SaidByTool`).

## The proofs

Every invariant that a passing run checks, and the refinement of `Delivery`, is a
theorem: it holds for any value of the constants under the named assumption of its
module (`RuntimeAssumption`, `TuiAssumption`, ...), which says only what kind of values
they are. Three modules prove some of their theorems under a further hypothesis, written
in the theorem (a constant such as `Serial`, or a workload); the hypotheses are below.
The arguments, by module:

**`RuntimeProofs`**, for every set of requests, conversations and contents, every
tool-call limit and every number of failures, hang-ups and crashes.

* `Invariance`, and from it `TypeCorrect`, `Durability` (the message of every receipt is
  in the store), `CleanRejection` (a rejected submission is in no table),
  `MemoryCoversStore` and `BindingsResolve`. `IndInv` is four conjuncts, each needed by
  the next. `TypeInv` adds to the types where a task knows its session and may still
  loop. `MapInv`: the session of a live task is in memory, which makes `PushMessage`
  succeed, and `save_session` stores the task's own. `PhaseInv` ties the program counter
  to what is stored: before its `user` message is saved a request is in no table and has
  no receipt; at `accept` and ever after it is in the table. `LogInv`: a message about
  to be stored is already in memory, and its session's row exists.
* `TurnInvariance`, and from it `GapsAccounted`, `OrderKept` and `OutcomeTold`.
  `TurnInv` says what one turn has done so far: its message was accepted (`KindInv`),
  which closing events it has sent (`OutcomeInv`), which of its tool calls have their
  outputs in the table (`PairInv`), in which session's history its messages are
  (`PlaceInv`), and that they have lower ranks and earlier dates than the next one
  (`OrderInv`: a history is in the order of pushing, the table in the order of dates,
  and only dates that grow with the rank make both agree however turns interleave).
  `GapsExplained` alone is not inductive: a step that stores an answer must know that
  every tool call before it was paired.
* `DeliveryImplemented`: the mapping of `RuntimeDelivery` takes `Init` to `Init` and
  every step to a step of `Delivery` or a stutter. It needs `TurnInv`: an answer is kept
  only after its client has been told of it, and an `Error` event after the answer is
  `Delivery`'s `Withdraw`, which requires that it is not kept.
* `ConversationStable`, for `SerialClients` and a workload in which no message moves a
  conversation to a session that it names (`NoRebinding`), and `OwnPrompt`, when none
  names a session (`NoneNamed`). `BoundInv` follows a call through resolving: the
  table's binding is none until `save_bind`, and the session of an accepted call after
  it, which also survives a crash between two writes. `OwnInv`: two live calls never
  share a session, so the last user message of a history is that of the task which reads
  it.

**`DeliveryProofs`**: `RecordAgreement` for the abstract specification.

**`ConnectorProofs`**: `ConnectorTypes`, `CrashesOnly` (an answer or a stream is lost
with the gateway only) and `RepliesAreNew` without hypotheses. Behind the last is
`OldInv`: an answer whose turn was over when a message was posted is dated before its
receipt, and no event of it is in the message's stream, which was opened later; so
neither way of finding a reply can give it. `ReplyIsRight` and `ReasonToGiveUp` are for
`Serial`. A wait takes any completed answer of its session, so it must be that no other
turn runs: `Alone`. That holds since a wait ends after its turn, which is `WaitOf` of
the message before; neither is inductive without the other. Both fail once an answer
could not be stored, since its `Error` event arrives when its own wait is over already;
so `RightAnswer` says `failures = 0`, a condition that the proof asked for and that an
instance of three messages confirms.

**`TuiProofs`**, for any number of sessions, turns, loads and faults and any
capacity: `TuiTypes`, `TuiInvariance`, `ShownIsOwn`, `ShownAtMostOnce`,
`AnswersAccounted`. `SelectInv` is behind `ShownIsOwn`: if a selection is not the
loaded session, that session is gone, so no refresh selects it again with another's
transcript. `AnswerInv` is behind `ShownAtMostOnce`: an answer is announced once, its
event is queued once, and a history holds it once, so it can be shown twice only by a
load and an event, which is `doubled`. `AccountInv` is behind `AnswersAccounted`; it
holds while the client is busy too, speaks of entries that cannot change any more
(`Settled`: a growing entry is replaced by the answer of another turn), and says that
`ignore_completed_content` is always the text of a tool's entry that is shown.

**`DaemonProofs`**, for any number of commands, of processes that die and of writes that
fail: `DaemonTypes` without hypotheses; `DaemonInvariance`, `GatewayOnFile`,
`ConnectorOnce` and `ReportsAreTrue` (an action property) for `Serial` and
`CarefulRuns`. `CommandInv`: commands do not overlap, and each begins when nothing is
ending. `GatewayInv`: at most one gateway was not told to end, the file names it from
its first write on, and where a command stands tells whether it can exist.
`ConnectorInv` says the same of connectors. `WaitedInv` is what `ReportsTrue` adds:
until a process is late, a gateway that was not told to end listens whenever a command
is not in the loop of `start`.

**`MemoryProofs`**: `TypeCorrect`, `MigrationsOnce`, `NoMemoryLost`, `MemoriesReached`.
`SchemaInv` says that a migration was committed exactly when the version says so and
that no process has read a version that the database has not reached. `StartedInv`
follows a gateway from `Spawn`: `start` has migrated the database, so the vector table
it then makes has this program's dimensions, `Backfill` opens, and no migration can drop
the table any more. `IndexInv`: from `Backfill` on the index holds every memory that
fits it but those re-embedded since. `MemoriesReached` allows any `RecallLimit` of the
candidates as the answer: what it misses among them is outranked. The types say that no
index and no copy of the database holds a row it lost (`Sound`), which needs that rows
are never deleted.

**`WeixinProofs`**: `TypeCorrect`, `Once`, `InOrder`, `LossPerFault`. The argument is a
frontier, the first update that can be submitted again without the channel repeating
itself: the next of the batch while there is one, what comes after the cursor otherwise.
Submitting moves it past the update; a failure or a death in the middle of a batch moves
it to the cursor, which is at the end of the batch already. Only a lost cursor, or the
end of a batch that came without one, moves it back; `Repeats` counts these, and each
allows every update to be submitted once more. For `LossPerFault` the updates that the
cursor covers and that will not be submitted (`Missed`) are counted: only an error or a
death adds any, and no more than the rest of a batch (`SizeInv`, `FS_Union` and
`FS_Interval`).

**`WeComProofs`**: `TypeCorrect`, `GivesUpAtLimit` and `HeartbeatsAccounted`.
`CountInv`: a counter of `run_forever` is the number of failures of its kind after the
last clean end in the log; the lemmas on `Failures` say what appending an outcome does
to their number. `EndInv`: the loop has ended exactly when a counter is over its limit
or the last failure was fatal. The backoff of a pause stays between its base and its
maximum: doubling is followed by `min`, and a clean end resets it to the base.

Before it was proved each inductive invariant was checked by TLC on the instance of its
run. Only model-checked: the liveness properties (`AcceptedAnswered`, `AnswerFound`,
`WaitEnds`, `Delivered`, `LoginEnds`, `AnsweredAcrossReconnects`, `CommandsEnd`), since
they need fairness and `ENABLED`, which the prover does not handle; and the three violations, which are counterexamples.

## Plan

What is left, most valuable first:

1. The safety half of the liveness properties: that a step which is waited for is
   possible wherever a wait is (no dead end in `Connector`, `WeCom`, `Daemon`).
2. The order of `updated_at` in the session list, and which tool messages the prompt
   keeps, as pure operators.

## Not modelled

* *stdin connector*: a loop of one line, one submit and one wait, without state of its
  own; *web page*: a static script with the life cycle that `Tui` has.
* *doctor, configuration, project layout*: read-only checks, TOML and paths; they hold
  no state that outlives a call.
* *The files that tools edit*: reading and writing follow each other without an await,
  and what is written is the provider's text.
* Wording, titles, JSON and HTTP framing, parsing of SSE blocks, the origin check,
  drawing, the interactive `init`, the regular expressions of the shell tool.
* Timing is abstracted to the order of events; where a property depends on time, a
  ghost (`late`) remembers what was slower than the code waits.

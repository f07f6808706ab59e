# Formal models of the personal-intelligence pipeline

TLA+ models of the services under `src/`, the TLC runs that check them on small
instances and the theorems TLAPS proves about them for every instance. Each
definition that models code is listed in `PROJECT.json` (`map`) with the lines
it translates.

## 1. The system

A Telegram bot feeds a pipeline of Python services that talk through Redis
streams, each read by a consumer group, and store their results in Postgres,
Neo4j, Qdrant and S3.

```
telegram-ingestor --telegram.message--> ai-orchestrator --ai.projection_command--> memory-projector
                                          |    ^                                        |
              preprocessed, completed, ---+    +-- ai.reprocess_window                  +--ai.embedding_requested-->
              analytics signals                     (mcp-rest-api)                            embedding-indexer
```

The services `task-extractor`, `chat-summarizer`, `entity-extractor` and
`persona-builder` are transitional: still in the tree, out of the active runtime.

| Component | State it keeps | Operations | What makes it correct |
| --- | --- | --- | --- |
| telegram-ingestor | none (appends to streams, raw payload in S3) | new, edited, deleted message | one event per update; object storage never blocks the stream |
| ai-orchestrator consumer | one Redis list per chat (the open window), `processed_event` rows, its position in two streams | handle message, handle reprocess command, flush a window, run an analysis | each message analysed once, with its window; what a window contains; order of the events of an analysis; how little an error or a crash can lose |
| ai-orchestrator backfill | a snapshot of the message stream, the chats it has met | replay every event, flush residual windows | repeats nothing; does not disturb the live consumer |
| ai-orchestrator analysis | semaphore and pause between model requests, fallback order | one analysis | slots are returned; evidence stays inside the window; the best source there was is used |
| memory-projector | `analysis_window`, facts, signals, tasks, interactions, audit log, artefacts, graph | one projection command | idempotent; all or nothing in Postgres; embedding job and update event follow every commit |
| embedding-indexer | Qdrant points | one embedding job | the last version of a window is the one indexed |
| maintenance | partitions of `processed_event` and others, runtime settings, trim boundary | periodic job under an advisory lock | the current month always has a partition; retention keeps what is still needed |
| mcp-rest-api | person-erase jobs (in memory), task status, a client of a language model | erase cascade, reprocess, person brief, task status, read-only queries | a finished erase leaves nothing of the person; briefs are answered |
| task-extractor | tasks, dead letters | message, edit, delete | one task per message; an edit or delete meets its task; what is announced |
| chat-summarizer | one Redis list per chat, interactions, dead letters | message, edit, roll the window | how little is lost; row, object and event agree; the newest text is kept |
| entity-extractor, persona-builder | mentions, entities, personas | one message; one recomputation | reconciling is idempotent |
| libs, migrations | contracts, clients, schema | | no behaviour of their own |

How they interact: by stream entries and by rows of Postgres (tasks and
interactions have three writers), with one exception. The backfill script of ai-orchestrator runs the live consumer's
handler in a process of its own, over the same Redis lists and tables, without
a lock. Delivery is by `XREADGROUP` with `>` and an `XACK` in a `finally`
block; deduplication is by `processed_event (consumer_name, event_id)`.

The hard behaviours: every handler is a sequence of awaits over two or three
stores without a common transaction; an error, a crash or a cancellation can
fall between any two; the backfill interleaves with the live consumer; Redis
keys expire or are evicted; deliveries can be repeated under a new event id.
`PROJECT.json` lists the hazards one by one, at the line where each bites,
with the properties that cover it.

## 2. Plan

Modelled first: the orchestrator, because every later stage depends on what it
puts into a window and in which order, and because its guarantees are the
least obvious; then the two services that turn its commands into stored and
searchable memory.

Done:

1. **Orchestrator**: `WindowOps`, `Orchestrator`, `Batcher`,
   `OrchestratorRefinement`, `OrchestratorInvariant`, `OrchestratorProofs`,
   `MCOrchestrator` (section 3).
2. **Projector**: `MemoryProjector`, `MemoryProjectorInvariant`,
   `MemoryProjectorProofs`, `MCMemoryProjector` (section 4).
3. **Indexer and pipeline**: `EmbeddingIndexer` with its `Invariant` and `Proofs`
   modules, `SearchableMemory`, `Pipeline`, `MCEmbeddingIndexer`, `MCPipeline`
   (section 5).
4. **Around the pipeline**: `Erasure`, `Maintenance`, `LanguageModels`, each with
   its `MC`, `Invariant` and `Proofs` module (section 6).
5. **Transitional consumers**: `TaskExtractor` and `ChatSummarizer` with the same
   three (section 7).
6. **Theorems** in the modules named with `Proofs` (section 9): the type invariants,
   all the safety invariants and action properties the runs check, and both
   refinements, of `Batcher` and of `SearchableMemory`.

No module here declares a `RECURSIVE` operator, so all of them can be proved
about. Next:

7. `EntityPersona`: entity-extractor and persona-builder next to the projector,
   which writes the same topics of a person.

## 3. The orchestrator's modules

`WindowOps` has the pure part: when a message rolls the window over
(`needs_rollover`), and what a window becomes before it is analysed
(`NormalForms`: the stable sort and the removal of repeated `tg_message_id`s in
`normalize_window`). Sorting is stated by its result, not by an algorithm.

`Orchestrator` has one worker for the live consumer and one for each run of the
backfill. A worker's `pc` names the await it stands before:

| `pc` | next step | code |
| --- | --- | --- |
| `off`, `idle` | `Start`; `Fetch`, `Take` / `Replay`, `FlushResidual`, `EndBackfill` | group creation; loop of the process |
| `check`, `mark` | `CheckMessage`, `MarkMessage` / `CheckCommand`, `MarkCommand` | `SELECT`, then `INSERT`, of `processed_event` |
| `load` | `Load` | `LRANGE` and `needs_rollover` |
| `push`, `size` | `Push`, `Measure` | `RPUSH`, `LLEN` and the comparison with the window size |
| `flush` | `Flush` | `LRANGE` of the list to analyse, fresh window id |
| `graph`, `completed`, `signals`, `command` | `EmitPreprocessed`, `EmitCompleted`, `EmitSignal`, `EmitCommand` | the analysis graph and the four kinds of `XADD` |
| `delete` | `Delete` | `DEL` of the list |
| `ack` | `Ack` | the `XACK` of the `finally` block |

The local variables of a handler are `item` (its event or command), `dest` (the
chat), `held` (the payloads it read), `win` (the window id), `why` (what the
flush is for, which decides where it returns to) and `sigs` (signals left to
emit). Shared state: the streams with the cursor of the group, `pending` (its
pending entries list), `acked`, `processed`, `window` (the Redis lists). `Project` is memory-projector as far as
the orchestrator can see it: the `analysis_window` row a reprocess reads back.

Faults: `Error` (any await raises; the entry is acknowledged all the same),
`Crash` (the process dies anywhere), `Cancel` (SIGTERM: the entry in hand is
acknowledged, the rest of the batch stays pending), `LoseReply` (the reply of
`XREADGROUP` is lost after Redis delivered its entries) and `Expire` (the list's
time to live, or the eviction `allkeys-lru` of the compose file allows). An
effect whose reply is lost is the effect followed by a fault at the next await,
so it needs no action of its own.

`Batcher` is the abstract specification: a message is accepted, joins its
chat's open batch, which has room for it, and leaves with the whole batch.
`OrchestratorRefinement` gives the mapping (`Stage`): a message counts as
analysed from the projection command on, not from the `DEL` that follows it.

## 4. The projector's modules

`MemoryProjector` has one consumer. Its `pc`:

| `pc` | next step | code |
| --- | --- | --- |
| `off`, `idle` | `Start`; `Fetch`, `Take` | `_ensure_groups`, at `$`; `XREADGROUP`, the loop over its entries |
| `check` | `Check` | `_is_processed`, a statement of its own before the transaction |
| `begin` | `Begin` | participants; the owner `_sync_tasks` looks up |
| `tasks` | `SyncTask`, once per task, then `PutArtifact` | `_sync_tasks`; `_write_artifact` (S3) |
| `commit` | `Commit` | the rest of the transaction's statements and its COMMIT |
| `graph` | `WriteGraph` | `_project_neo4j`, after the transaction |
| `job`, `update` | `EmitJob`, `EmitUpdate` | the two `XADD`s |
| `ack` | `Ack` | the `XACK` of the `finally` block |

Only this process writes the tables of the transaction, except that the admin
API sets the `status` of a task (`PatchTask`). Nobody can therefore see the
transaction half done, and its statements are one step at COMMIT. Two parts keep
steps of their own. The loop over the tasks reads rows that the same transaction
inserted before, and rows the admin may change while it runs: `draft` is the task
table as the transaction sees it. Under READ COMMITTED a `PatchTask` is in `draft`
at once; a row the loop has updated is locked until COMMIT (`Locked`), and the admin
waits. The S3
object is not undone by a rollback: `PutArtifact` writes the shared `artifact`,
and `Abort` may leave it there.

A row's texts and scores are abstracted to the command they came from: `rows`,
`facts`, `signals`, `artifact` and the interaction rows hold commands, so "whose
content is this" is exactly what the properties can ask. `Emit` is the
orchestrator: a command for a new window, for one whose row can be read back, or
the same command once more.

Faults: `Abort` (an exception before or inside the transaction),
`LoseCommitReply`, `GraphError` (logged, the handler goes on), `EmitError` (what
follows is skipped), `LoseReply`, `Crash` and `Cancel`.

## 5. The indexer's modules, and the pipeline

`EmbeddingIndexer` starts up in three requests (`Probe`, `EnsureCollection`,
`EnsureAlias`), each of which a crash can follow, and then embeds and upserts
one job after the other (`Embed`, `Upsert`). It keeps no record of what it has
handled: a point's id is its window's, and an upsert replaces. A point is
abstracted to the position of the job it was made from. Qdrant refuses a vector
of another length than the collection's (`Fits`). `Redeploy` restarts the
service with another model while jobs of the old one are still on the stream.

`SearchableMemory` is the abstract specification of the two services: search
shows, for each window, some version that was written, and moves only forwards.
`Pipeline` joins `MemoryProjector` and `EmbeddingIndexer` by the stream `jobs`,
and maps them to it. The abstract history is the audit log: each row is a version of
its command's window (`KeyOf <- WindowOf`). What is shown of a window is the place in
that log of the command the point behind the alias was made from (`VersionFound`).
So `Commit` is a `Put`, `Upsert` is a `Show` (or, the same job a second time, nothing),
and everything else stutters. `EmitJob` is the indexer's `Request`. One model is configured throughout `Pipeline`; a
change of model is part of `EmbeddingIndexer`'s own run.

## 6. The modules around the pipeline

`Erasure` is the erase of a person. mcp-rest-api runs it as a background job, and
memory-projector and embedding-indexer go on meanwhile with what they have been
sent. A job's `at`:

| `at` | next step | code |
| --- | --- | --- |
| `none` | `Submit` | `erase_person_api`: validated, then queued in `app.state.jobs` |
| `queued` | `Validate` | the cascade validates again |
| `collect` | `Collect` | the `SELECT`s of the transaction |
| `commit` | `Commit` | its `DELETE`s; 404 and a rollback if the person's row is gone |
| `points`, `graph`, `objects` | `CleanPoints`, `CleanGraph`, `CleanObjects` | Qdrant, Neo4j, S3, each in a `try` of its own that only adds a warning |
| `audit` | `Audit` | the audit row |
| `done`, `failed`, `lost` | | result, exception, restart of the process |

A person's id is a number that is used once, so a person whom a later window names
again is somebody else to the erase, as in the code. The transaction is two steps
because what is committed between its `SELECT`s and its `DELETE`s is not collected.
`started` and `raced` are history: the ids an erase has collected, and what was
written of them afterwards. `blind` is history too: the objects the cascade cannot
find, because it reaches them only through `interaction.source_object_ref`.

`Maintenance` is `run_maintenance`, statement by statement and every statement
committed on its own, under the advisory lock, with a calendar of days and months.
Next to it a consumer looks an event up in `processed_event` (`Look`) and marks it
(`Mark`); the two are separate steps there as well. `ReadSettings` includes the
defaults it stores and the fallback for a value that is not an integer.

`LanguageModels` has the clients (semaphore, the lock on the interval, clock), the
router of ai-orchestrator and the person briefs of mcp-rest-api. A client's `queue`
is the semaphore's, `line` the lock's, whose head sleeps for `pause`. The router
asks one provider after the other (`Try`, `Answered`); an analysis that reads as
mostly Latin is sent back for a translation. Two things the source does that are
easy to overlook, and both are in the model: a translation without JSON becomes the
heuristic analysis and, if that is not Latin, replaces the draft; and a translation
that raises gives up its provider together with its draft. Validation refuses scores out of range before
`_sanitize_result` sees them, so its clamping never acts and is left out: such an
answer is an exception. Retries inside the SDK are part of a request.

## 7. The transitional consumers

`TaskExtractor` and `ChatSummarizer` read two or three streams with one
`XREADGROUP`, which returns up to a batch of each, in the order the streams were
named (`NextEntries`). Unlike the orchestrator they have a dead-letter stream, out
of which an operator can put an event back (`Requeue`). `TaskExtractor` marks an
event last, `ChatSummarizer` first, and that decides what a retry is worth.

`TaskExtractor`: `Check` decides by stream and text; `Resolve`, `Find`, `Create`,
`AnnounceCreated` are `_handle_message`, `Find` and `Update` the edit, `Drop` and
`Announce` the deletion, one statement or one `XADD` a step. `tasks` has two more
writers: `ProjectTask` (memory-projector's `_sync_tasks`) and `PatchTask` (the
admin).

`ChatSummarizer`: `Roll`, `Push`, `Full` are `_handle_message`; `Read`,
`Summarize`, `Store`, `Emit`, `Commit`, `Delete` are `_flush_window`, where the
object and the event leave before the row's transaction commits; `Scan`, `Clear`,
`Rewrite` the edit. `after` is where a flush returns to. The interaction row is
memory-projector's too; the two services are not in operation together, and the
model has one of them.

Object and event carry the row's id, which the `INSERT` mints (`interactionId`).
`ids` has the ids of the committed rows; `artifact` and `updates` are by id. A flush
that is rolled back after its `INSERT` therefore leaves an object, and perhaps an
event, under an id that no row will ever have: the retry inserts the row under another
one. `StoresAgree` counts such orphans.

## 8. What the runs check

| Run | Instance | Shows |
| --- | --- | --- |
| `live_clean` | orchestrator's consumer, no faults, at most one signal, any order of publication | `EffectivelyOnce`, refinement of `Batcher`, `EveryEntryAcked`, `FullWindowFlushed` |
| `exclusive` | consumer, and a backfill only while it is down; one reprocess command, one fault of each kind, three orders of publication, one blank and excluded message | `WindowContentStable`, `LossBound`, `NoGapInsideWindow`, `MarkedFirst`, `CommandBacked` |
| `crash_strands` | consumer, one crash, fair | violates `AtLeastOnce`: pending entries are never read again |
| `projector` | three commands for two windows that start alike, one command sent twice, one fault of each kind, one task closed at any moment | the projector's safety and `ClosedStaysClosed` |
| `indexer` | three jobs for two windows, two models of different length, one fault and one redeployment | `PointsSound`, `BehindOnlyByFault`, `EveryJobIndexed` |
| `pipeline` | projector and indexer, three commands for two windows, one error in the projector, one error and one crash in the indexer | refinement of `SearchableMemory`, `LagBound`, `EventuallySearchable` |
| `tasks` | a promise, a reply that resolves it, its edit, a deletion of both; projector and admin; one fault | `OneTaskPerMessage`, `CreationLossBound`, `ClosureLossBound`, `LaterEventsApply` |
| `summaries` | four messages of a chat, one delivered twice, and an edit; two faults | `LossBound`, `NewestText`, `StoresAgree` |
| `erasure` | owner and person, two windows that share an interaction row, two jobs, one fault | `CommittedErase`, `CleanErase`, `OneEraser` |
| `erase_retry` | the same, with a restart of the API as the only fault | violates `ErasureCanBeFinished`: the job is forgotten and a new erase is refused |
| `maintenance` | two runners, months of two days, five days, one run cut short, settings stored by an operator | `Writable`, `RepeatsOnlyOld` |
| `llm` | two providers and two windows, or four briefs on a client with two slots; any subset of the clients configured | `Grounded`, `BestSource`, `Paced`, `EveryCallAnswered` |

The loss bounds are the quantitative reading of the order of effects. In the
orchestrator an interruption loses at most the one message that was marked and
not yet pushed, and repeats at most one window, because the list is deleted last.
What was delivered and not even marked is counted apart (`Unhandled`): an entry
acknowledged after an exception, or left pending by a crash, a shutdown or a reply of
`XREADGROUP` that got lost, at most one batch per interruption. And the list that a
failed flush leaves full is flushed with the next message, so that at rest it is longer
than a window by no more than the failures; a comparison that is not `>=`
(`consumer.py:221`) breaks this part. The other runs state neither: `live_clean` has no fault.
`CommandLossBound`, `BehindOnlyByFault` and `LagBound` say the same of the later
stages, the first for commands that are acknowledged unprojected as well as for those
whose job or update is missing, `CreationLossBound` and `ClosureLossBound` of what task-extractor
announces, and `LossBound` of chat-summarizer what a fault costs there: one
message, or a whole list when it strikes while an edit rewrites the list.

`ClosedStaysClosed` is about two writers of one row. The projector finds the task by
its message and updates it, or, if there is none, inserts an open one; the admin may
close it before the transaction, inside it until the `UPDATE` locks the row, and after
COMMIT. No order of these reopens it or puts an open one beside it, because the `UPDATE`
does not name the status and the lookup does not ask for it.

`NewestText` and `LaterEventsApply` say when an edit or a deletion may miss its
message: after a fault, or when a stream held more than one batch returns
(`overflow`), since each stream of a read is counted for itself. `CleanErase` says
what an erase without warnings may have left: what was written after it had
collected, and objects no interaction of the person refers to. `Writable` says that
a run with `n` months ahead keeps the tables writable up to month `m + n - 1`: with
a setting of 1 that is the current month and no other. `RepeatsOnlyOld` bounds the
age at which an event loses its mark by the *shortest* retention any run applied.

Divergences. Two violated properties are what the documents promise, and the
findings quote the lines. The models show others that have no run of their own:

- With a backfill next to a live consumer `EffectivelyOnce` fails: both find one
  event unprocessed (`Check...` and `Mark...` are two statements, `consumer.py:197`,
  and the `INSERT` does not ask whether the row was new, as `event-schema.md:166-172`
  has it), and a message pushed between the `LRANGE` of the other process and its
  `DEL` is deleted unread (`Load`, `Push`, `Delete`).
- The orchestrator, the projector and the indexer acknowledge an entry whose
  handler raised; there is no retry and no dead-letter stream
  (`consumer.py:408`), while `event-schema.md:176-177` promises five attempts and one.
- A restart of the indexer with another model moves the alias to an empty collection
  at once (`service.py:94`); `data-flow.md:81-85` and `tech-stack.md:63` have the
  windows reindexed first.
- A job of another model is stored in the active collection if only the lengths
  agree (`Fits` compares nothing else), while `tech-stack.md` says profiles are
  not mixed. `PointsSound` therefore claims the length and no more.
- An erase whose audit row is refused (no partition of `audit_log`, or any other
  error) is reported as failed, with everything deleted (`Audit`).

Bounds. Orchestrator: at most four messages, `m1`, `m2` and `m4` of one chat,
`m2` a second delivery of `m1`, `m4` exactly one rollover gap later, and `m3` of
a chat of its own; a window of two, so that a list is flushed when full, when
rolled over and as residual; a read of two entries, so that a batch can be cut
short by a crash. The sizes only decide how many messages it takes to get to
these cases. `MaxFaults` allows one fault of each kind (a second one adds nothing
but a sum to the bounds that are checked), `MaxSignals` none or one (the loop
over signals touches nothing else); one reprocess command, one backfill.
`PublishedInOrder` allows three orders of publication: as sent, with the copy
`m2` after the message that rolls the window over, and with the last message
first. `FewFaults` allows one fault at most in a behaviour in which the script has
begun, `Alone` cuts off a script that starts while the consumer is up, and the other
way round.

Projector: `c2` reprocesses the window of `c1`; `c3`'s window is another one of
the same chat with the same start, as an overlapping backfill makes them. `c1`
has two tasks with one evidence message, `c3` a task with the same message. So
tasks meet inside a command and across windows. `MaxCopies` is 2, and the
constraint `OneRepeat` lets one command be sent twice, sends `c2` after `c1`, and
has the admin close one task. Indexer: `MaxJobs` is 3, two of them for one
window; one fault of each kind, `switch` (a redeployment) included. Pipeline:
tasks, claims and signals are left out, since they do not reach the index, and the
constraint `IndexerFirst` starts the indexer before the first job: jobs older than
its group are never read, so with a later start `LagBound` would be false for a
reason the code states itself (the group begins at `$`).

Task extractor: a batch of one entry per stream, so that a stream can hold more
than a read returns; `MaxCopies` 2 (one return from the dead letters), `MaxPatches`
2 (the admin reopens what was closed). Only the first message can have a task of
memory-projector's. Summaries: a window and a batch of two; the third message comes
a rollover gap after the second, the fourth is the first again; the cloud mode,
where a model that fails is an error. Both constraints put the messages in the
order they were sent and bound the faults.
Erasure: the owner opens one window and the person the other; `MaxProjections` 2
lets one of them be reprocessed, which is what races with the erase; two jobs, so
that two erases meet, or a second one follows a failed one. Maintenance: a month of
two days is the least in which a cutoff can fall inside a month and on its edge;
`TakenTwice` stops after the second time the event is taken; runners are
symmetric, and nothing distinguishes them. Language models: an interval of two ticks; four callers for
two slots, so that there is a queue before the semaphore and one before the lock.
The two parts share no client, and `Apart` explores one or the other.

Deadlock checking is off everywhere: the system may stop once everything that
was published has been handled.

Fairness: weak fairness of `Consume`, the steps of a service's consumer, in
`FairSpec` of `Orchestrator` and `EmbeddingIndexer`, and of both services' in
`FairPipelineSpec`. asyncio resumes the task, and compose restarts the process
(`restart: unless-stopped`). Publishing, backfill, admin and faults are never
required to happen. The liveness properties end with "or a fault has struck",
because a fault may cost the command or the job for good; the safety bounds say
how much. In `LanguageModels` time passes, sleepers wake, and a request ends: the
clients set a timeout of 60 seconds, after which it raises. There a fault is an
outcome, and `EveryCallAnswered` holds with any of them. Under the locks'
first-come order weak fairness is enough.

Definitions whose comment says "Mutant" are plausible mistakes in the code.
Nothing uses them; `PROJECT.json` says which property each one breaks when it
takes the place of the definition after it.

## 9. What is proved

For every value of the constants: any number of messages, chats, commands,
windows, people, tasks and backfills, any fault budget.

### Orchestrator

`OrchestratorProofs`, from `WindowOpsAssumption` and `OrchestratorAssumption` only,
for any number of workers side by side:

- `TypeCorrect`: `Spec => []TypeOK`.
- `MarkedFirstHolds`: `Spec => []MarkedFirst`.
- `CommandBackedHolds`: `Spec => []CommandBacked`.
- `WindowContentStableHolds`: `Spec => []WindowContentStable`.

Of the behaviours in which the consumer and the script take turns, `[]Alone` (the
script is run while the consumer is down):

- `NoGapInsideWindowHolds`: `Spec /\ []Alone => []NoGapInsideWindow`.
- `LossBoundHolds`: `Spec /\ []Alone => []LossBound`, with any number of errors,
  crashes, lost replies and expired lists. Its part about unmarked messages needs no
  `Alone` (`BatchInvariance`).
- `EffectivelyOnceHolds`: `Spec /\ []Alone /\ []Faultless => []EffectivelyOnce`.
- `BatcherImplemented`: `Spec /\ []Alone /\ []Faultless => ImplementsBatcher`.

`Alone` is what the documents assume and nothing enforces; section 8 says what
happens without it. `Faultless` is in the hypotheses of the last two because a
fault loses a message, as `LossBound` counts.

None of the properties is inductive. `OrchestratorInvariant` has the strengthening,
and TLC checked it before it was proved, on instances with faults and with the
script running next to the consumer. The parts of `Inv` and why each is needed:

- `Control`: which local variables mean anything at which `pc`. Without it, a
  window could be emitted without a chat, or a handler resumed with leftovers.
- `Marking`: `MarkedFirst`, and that a handler's own message is marked before it
  is pushed, which is what `Push` relies on.
- `Fresh`, `Owned`: ids in use are below the next one, and a worker's id is its
  own until its command is out. This is what rules out two windows with one id.
- `Reprocessing`: a row, and a list read back from one, is what some command
  carried, already normalised. With `KeptOfNormalForm` (normalising twice keeps
  every payload) it follows that a reprocess emits the same messages.
- `Backing`: a worker past an emission has it on the stream, with what it still
  holds.

`LossInv` adds, for workers that take turns:

- `Placed`, `Unseen`: a message is unmarked until its own handler marks it, and
  from then to the push it is in no list, no analysis and no event.
- `Covered`, `Deleting`: a list under flush holds nothing that was not read of it,
  and when it is deleted the events of all that was read are out. So `DEL` loses
  nothing, and only an interruption or an expiry does (`LostEffect`).
- `Repeated`: a message that can still be emitted once more has been emitted at
  most once per interruption. `LossBound`'s bound on windows follows.
- `Short`: a list is flushed as soon as it is full, and only an interruption of
  that flush leaves room for one message more. This bounds what an expiry costs, and
  is `LossBound`'s last part once no worker is about to flush the list.
- `Batch`, for any number of workers: what the consumer holds of its batch was
  delivered, is at most one read (`Hand`), and is marked past the `INSERT`. An
  interruption therefore adds at most a batch to `Unhandled`, and no other step any.
- `Losses`: the bound itself, by the sum over both kinds of fault.

`BatchInv` (`Intact`, `Announced`) adds that without faults the list is still what
was read of it at the command, and that no other event carries the window's id. The
refinement then has one lemma per kind of step: the mark is `Accept` (`AcceptStep`),
the push is `Join`, for which `Short` makes room (`JoinStep`), the command of a flush
is `Close` of exactly the open batch (`CloseStep`), and every other step, a reprocess
included, leaves every `Stage` alone (`StageStays`).

The module first proves which steps can change a variable (`WindowEffect`,
`OutputEffect`, ...) and the four things that can happen to a worker's payloads
(`HeldEffect`: kept, cleared, read from a list, fetched from a row). Each part of an
invariant then needs only the steps that could disturb it.

### Projector

`MemoryProjectorProofs`, from `ProjectorAssumption` only: `TypeCorrect`,
`ProjectedOnceHolds`, `WindowWholeHolds`, `OneTaskPerEvidenceHolds`,
`ArtifactNeverBehindHolds`, `InteractionsCoherentHolds`,
`EmissionsFollowCommitsHolds`, `EdgeWeightsHolds`, `CommandLossBoundHolds` (each
`Spec => []` of the property in its name) and `ClosedStaysClosedHolds`, an action
property. `MemoryProjectorInvariant` has the strengthening, checked by TLC on the
instance of `projector` before it was proved:

- `Control`: a handler has an entry of the stream; task ids are positions, and
  the transaction's view only grows.
- `Marking`: a command in its transaction is not marked yet, which is why COMMIT
  adds the only audit row of its command, although the check came long before. One
  that is being announced is marked.
- `WindowWhole` is preserved by COMMIT alone: the one step that writes a
  window's tables also appends the audit row it has to agree with.
- `Evidence`: evidence is distinct in the view of the open transaction, not only
  in the committed table; that is where the loop over the tasks looks.
  `ClosedStaysClosed` rests on it, and on `Synced`: a row at COMMIT for the message of
  a closed task can only be that task's.
- `Artifacts`: before COMMIT the object is the command's own, and any object is
  one of its own window. Without the latter a lost put could be taken for another
  window's.
- `Announcements`: the commands lost before their commit (`Forfeited`) or after it
  (`Unannounced`) grow by at most one, and only with a fault, since a handler between
  COMMIT and its last `XADD` counts as in flight.

`Records` is the part about what a commit leaves behind in other stores:

- `Synced`: the ids the loop over the tasks has collected are those of rows of the
  command's chat and evidence, in order, and a row the transaction has in common with
  the table has one status in both. The commit links the interaction to them.
- `Latest`: what is being announced is the commit made last, and its interaction
  still is the command's, so that an event never runs ahead of its row.
- `Weights`: a pair's weight in the graph is the number of commits that bring the
  two together, less one for each fault and for the commit the graph is yet to
  learn of. The pair that is missing is what `EdgeWeights` cannot say by itself.

The module proves the effect of the steps on each group of variables first
(`TablesEffect`, `TransactionEffect`, `DraftEffect`, `ArtifactEffect`,
`UnannouncedEffect`), and then each part of the invariant from those.

### Embedding indexer

`EmbeddingIndexerProofs`, from `IndexerAssumption`: `TypeCorrect`,
`PointsSoundHolds`, `BehindOnlyByFaultHolds`. `Control` has the alias lead to a
collection that was created, at every step that writes. `InTurn`: entries are
handled in the order of the stream, whatever was skipped. `Forward`: hence nothing in
a collection comes from a job after the one in hand, and an upsert never replaces a
later one. `Named`: until a deployment changes the model, the alias is
that model's. `Owed` counts, besides the points that are behind, the one that will
be once the entry in hand is acknowledged: the fault and the acknowledgement are
two steps, and the bound has to hold between them.

The lemmas are about `Step`, which is `Next` with a stream of any length, so that the
pipeline can use them whoever writes the stream. For it the module also proves
`SkippedBound`: the jobs that were delivered and are neither handled, nor in hand, nor
still to do are at most a batch per fault, since a process has never more than one
batch (`Batches`). It holds if the group was there before the first job (`Served`).

### Pipeline

The last two sections of `MemoryProjectorProofs`, from `ProjectorAssumption` and
`PipelineAssumption`. Their invariant is that of the projector and that of the indexer
side by side: `Ix` is an instance of the indexer's proofs over the pipeline's variables,
and a step of the pipeline is a step of each (`PipelineSteps`), for the projector a step
of the indexer's environment.

- `PipelineTypeCorrect`: `PipelineSpec => [](TypeOK /\ Indexer!TypeOK)`.
- `SearchableImplemented`: `PipelineSpec => ImplementsSearchable`, with any faults in
  either service at any time. `Versioned` says where the mapping points: what search
  shows of a window is a delivered job of that window, and so, by
  `EmissionsFollowCommits`, an audit row. COMMIT appends a row that was not there
  (`ProjectedOnce`). An upsert moves its window's point to a later job (`Forward`), jobs
  are in the order of the commits, and the place in the log therefore only grows.
- `LagBoundHolds`: `PipelineSpec /\ []IndexerFirst => []LagBound`. In a quiet state a
  window that search shows otherwise than Postgres has it was never announced, or its
  last job was skipped (`LagCauses`): a point made from a later job of the window
  would contradict `WindowWhole` (`LastCommitLastJob`). The two sets are bounded by
  `CommandLossBound` and `SkippedBound`. `IndexerFirst` is the premise the run has
  as its constraint. Section 8 says why: the group begins at `$`.

### Erasure

`ErasureProofs`, from `ErasureAssumption`: `TypeCorrect`, `CommittedEraseHolds`,
`CleanEraseHolds`, `OneEraserHolds`, for any number of people, windows and
concurrent jobs. `Identity`: an id is given to one person and stands only where that
person was named; without it an erase could delete somebody else's rows.
`Collected`: what a job's `SELECT`s found covers all there is of its id, or it was
written since and noted in `raced`. `Cleaning`: each store the clean-up has passed,
without a warning, has nothing left of the id but what raced.

### Task extractor

`TaskExtractorProofs`, from `ExtractorAssumption`: `TypeCorrect`,
`OneTaskPerMessageHolds`, `CreationLossBoundHolds`, `ClosureLossBoundHolds`,
`LaterEventsApplyHolds`. `TaskExtractorInvariant` has the strengthening, checked by TLC
on the instance of `tasks`.
`Single`: between the lookup and the `INSERT` only memory-projector can have made a
row. `Creation`: the row about to be announced is of this service's making and has
not been announced, so an announcement is never repeated, and a fault costs one.
`Closure`: the rows under announcement are those the event closed, unless the admin
has changed them; a fault costs the rows of one message each, which is why the bound
has the number of messages in it.

`LaterEventsApply` relates three streams to the table, and only while nothing has
failed and no read left a backlog (`Calm`). Its invariant, `CalmInv`, goes from the
streams to the rows:

- `Fresh` and `Once`: an entry that was delivered is acknowledged, in hand or still to
  do, one of the three, and an event that is marked was handled as an entry of its own.
- `MessageFirst`: a read names the message stream first, so what it returns of that
  stream is handled before any edit or deletion, and a message whose edit is in hand was
  acknowledged before. This is what a backlog breaks.
- `MadeLast`: of the rows of one message this service's is the last, so that the row an
  edit looks up (the newest) is the one it has to change, whatever memory-projector
  has added.
- `Applied`: every row of this service is, from the last statement of a later event's
  handler on, as that event left it (`UpToDate`), and no handler of another event makes
  it open again or puts an old text back.

The property has a premise for which the proof is the reason: one event announces the
message (`SentOnce`). A message that made no row can come again under a second event
id, after its edit or its deletion found nothing to change, and make a row then, of the
text it had. The proof also needs that no pattern
matches an event without text, since the handlers return before any pattern is tried
(`_handle_message` and `_handle_message_edited`); it is part of `ExtractorAssumption`.

The module also proves what `InOrder` and `FindTask` return: a set of row numbers has
a greatest element and can be listed in increasing order. Induction over numbers is
taken in its set form there (`NumberInduction`, from the library's `WFMin`).

### Chat summarizer

`ChatSummarizerProofs`, from `SummarizerAssumption`: `TypeCorrect`, `LossBoundHolds`,
`StoresAgreeHolds`, `NewestTextHolds`. `ChatSummarizerInvariant` has the strengthening,
checked by TLC on the instance of `summaries` before it was proved:

- `Agreement`: before its commit a flush has put out, as object and as event, just
  what it will commit, so the commit heals its own id and a fault between them
  tears no other. A new id is past all the ids in use, so the row that gets it takes it
  from nobody.
- `Lengths`: the message that fills a list is followed by a flush in the same handler;
  only a fault or an expiry between the two leaves the list full. Hence at most one
  entry more per fault, which is the size of what an expiry can cost.
- `RowsAnnounced`: every row was announced, and the row about to be written is the
  announcement made last. A row that is replaced therefore stands in the event stream,
  with a later one of its window behind it, and what it covered is not counted as lost.
- `Losses`: the bound of `LossBound`, for the handler between any two awaits. Its set
  `Gone` is counted by what a single step can add: nothing (`GoneByHandlers`), one list
  (an expiry), or the message in hand or the list under rewrite (`GoneByFault`).
- `CalmInv`, while nothing has failed and no read left a backlog: an event is on its
  stream once (`Once`); the message of an edit is acknowledged before the edit is taken
  up (`MessageFirst`); a list, or what was read of it to be written back, has the new
  text of what was edited (`NewTexts`). `MessageFirst` is why a push never brings an
  old text after its edit.

### Language models

`LanguageModelsProofs`, from `LanguageModelsAssumption`: `TypeCorrect`, `GroundedHolds`,
`BestSourceHolds` and `PacedHolds`, an action property. `Waits`: a caller stands
in one place of one client, and the head of the line sleeps for exactly what is left
of the interval; with it a request is never sent early, however many callers wait.
`Drafting`: an analysis sent back for translation is grounded, is of the provider
whose turn it is, or else of the heuristics after a translation without JSON; all
providers before it that are configured have failed. That is what lets `BestSource`
be read off the record of requests when the analysis is done.

### Maintenance

`MaintenanceProofs`, from `MaintenanceAssumption`: `TypeCorrect`, `WritableHolds`,
`RepeatsOnlyOldHolds`, for any number of runners and days. `Creating`: a run has
created, or still has on its list, every month its settings call for; `Dropping`:
what it drops lies before the present month and past the shortest retention applied;
`Kept`: what was promised stays, since no run drops it. `Marked`: a mark is of the
last time its event was taken, and an event without one is `Forgotten`.

## 10. What is only model-checked, and what is not modelled

Only by TLC: the liveness properties, `EveryEntryAcked`, `FullWindowFlushed`,
`EveryJobIndexed`, `EventuallySearchable` and `EveryCallAnswered`. Liveness under
fairness is out of this prover's reach, as ENABLED is. `crash_strands` and `erase_retry`
show violations, so there is nothing to prove.

Two assumptions on constants are there for the proofs and for no run. `Messages` of
`TaskExtractor` is finite: the bound of `ClosureLossBound` is a multiple of its size.
The answers of a model in `LanguageModels` have the fields the parser demands.

In `TaskExtractor` a row that memory-projector inserts is there from its lookup on. In
the code it is visible from COMMIT on, but its `created_at`, by which the extractor
orders rows, is the time of the `BEGIN`, so that of two rows inserted side by side this
service's is the newer one in both. What the model leaves out is a closure or an edit
that comes while the row is there but not yet visible: it misses memory-projector's row,
which none of the properties is about. In `LanguageModels` the retries of the SDK
(`llm.py:65`) are part of a request; they do not take the lock on the interval, and
`Paced` does not speak of them.

Not modelled in the orchestrator: the backfill's `--max-events` and `--dry-run`,
malformed entries (acknowledged without effect), a consumer group whose creation
failed, and the features and prompts of an analysis; in `Orchestrator` an analysis
that fails is an `Error` at `graph`, in `LanguageModels` an analysis has only the
messages it cites and its script. Not modelled in the projector and the indexer:
malformed entries, and the texts, scores and vectors themselves. A vector counts as
its length and the job it was made from. The regular expressions of task-extractor
are constants of its module, and what a summary says is not in chat-summarizer's.

Not modelled at all:

- entity-extractor and persona-builder: out of the runtime; the first wraps a
  named-entity library, the second recomputes aggregates. Their one interesting
  interaction is in the plan.
- The API's other writes (annotations, allowlist, blocked people, owner profile):
  each is one upsert by one actor. Its queries and pages change nothing.
- `libs/contracts`, `libs/storage-clients`, `libs/observability` and the migrations:
  data classes, wrappers and schema. Keys and uniqueness constraints, and the lack of
  them, are taken into the modules that write the tables.
- Fixtures and scripts under `src/scripts`: tools for development.

`PROJECT.json` lists every component with its status.

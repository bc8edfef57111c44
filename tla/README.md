# Verification of Common.Libraries

This directory holds TLA+ models of the parts of the repository where the order
of events matters: the event stores and their projections, the units of work,
the Kafka consumer, the framing of messages over TCP, the USSD socket server,
and the script that validates forms in the web application. Each model is
checked by TLC on small instances, and every safety property and refinement that
holds is also proved with TLAPS for every value of the constants.
`PROJECT.json` maps each definition to the lines it models.

Run from this directory:

    tlc -workers 2 -config MCEFAggregateStore.cfg MCEFAggregateStore.tla
    tlapm EFAggregateStore_proofs.tla

## 1. Inventory

The repository is a collection of .NET libraries with small example hosts. The
web application has no script of its own that does anything (`site.js` is an empty
template); it carries jQuery and two validation scripts of Microsoft and of the
jQuery project under `wwwroot/lib`. The one that connects the attributes the
application's views render with the validator, `jquery.validate.unobtrusive.js`,
is vendored code and is modelled all the same, with what it uses of
`jquery.validate.js` 1.17 beside it.

| Part | State | Operations | What is hard |
|---|---|---|---|
| Event-sourced aggregates on a relational database (`CommonLibraries.EventStore.Projection`, `Common.Libraries.EventSourcing`) | the Event table, the snapshot table, each request's aggregate object | `CreateWhen`, `UpdateWhen`, `Exists`, `Load`, `Save`, `SaveSnapshot` | requests interleave at every await; `Save` commits row by row; no uniqueness constraint; snapshots from stale objects |
| Projections (`ProjectionWorker`, `EFCheckpointStore`, `EFDbProjection`, the example's `UserDetailsProjection`) | checkpoint row, read model, the worker's cursor and batch | poll, project, store checkpoint | restarts, redelivery, rows that become visible out of order, batches taken newest first, a projection that throws |
| Message framing (`Framers.cs`) | bytes in the socket, bytes held by the reader or the framer | `ReadMessageAsync`, `WriteMessageAsync` of four framers | partial receives, payloads that look like headers or delimiters, one framer for all sockets |
| USSD socket server (`SocketTCPServer`, `AirtelSocketServer`, `TNMSocketServer`) | listener, `ConnectedClients`, one task per client, `_sessions` | `StartAsync`, `Stop`, `HandleClientAsync`, the wrapper's clean-up | `Stop` beside the accept loop, an unsynchronised `Dictionary`, check-then-add, failed API calls |
| USSD socket client, XML and field mapping | one socket; none | connect, process; parse, print | little: one caller, stateless conversions |
| EventStoreDB variant (`CommonLibraries.EventStore`) | streams, expected versions | append, load a page, exists, subscribe | expected version never advanced, page limit; the subscription code is commented out |
| Units of work (`EFUnitOfWork`, `UnitOfWork`) | the current transaction, tracked changes | begin, save, commit, roll back, dispose | a failure at each await, the rollback included; two begins |
| Repositories and services (EF Core, Mongo, Cassandra, `Service`) | tables | CRUD, pagination, bulk operations | bulk operations that fail half way; page numbers used as offsets |
| Caching (`CachedRepository`, memory and distributed caches) | cache entries with two expiry times | read-through, set, remove | stale entries written after an update |
| Message brokers (Kafka, RabbitMQ) | consumer loop, offsets, acknowledgements | consume, produce, close | a loop that ends for good, acknowledgement before handling |
| CQRS dispatcher, notifications, pipeline behaviours | none of its own | dispatch through behaviours | order of behaviours |
| Unobtrusive validation script (`jquery.validate.unobtrusive.js`) | the options (rules of each input) stored with the form, the validator and the rules it copied, the bound reset handler and its flag, the classes of message boxes and summary | parse, `parseElement`, the adapters, `onError`, `onErrors`, `onSuccess`, `onReset`, `validate` | inputs parsed after the validator has its copy, elements a rule refers to that left the form, a reset that throws, empty values of optional inputs |
| DataBag | a value per asynchronous flow | get, set, clear | flow of the ambient value |
| Background jobs, e-mail, files, codes, logging, HTTP clients, authentication, validation, mapping, saga data | none, or a library's | wrappers | I/O |

How the parts interact: an HTTP request runs a command handler
(`ApplicationService`) in a scope of its own; the handler reads and writes the
Event table through `EFAggregateStore` and `EFRepository`. `ProjectionWorker`
runs in the same process as a hosted service, reads that table behind a
checkpoint and updates the read model. A USSD server owns a listener; each
accepted socket gets a task that reads a message with the server's one framer,
consults the session table its tasks share, calls the application's API and
writes the reply with the same framer. A command handler may instead save to
EventStoreDB through `EsAggregateStore`. Services use repositories and units of
work on the one context of their scope; whoever owns a unit of work also decides
whether a bulk operation runs inside its transaction. Kafka's consumer is one
object for the process: each call of `Consume` overwrites the handler, the client
and the topic that the loops of earlier calls read. The validation script stands between
the attributes the server renders and the validator of jQuery, which calls it
back with each verdict.

What makes each part correct: versions without gaps and clashes only where
saves overlap; loads that see every stored event; a checkpoint that never runs
ahead of the read model, bounded redelivery and known losses only; each message
read whole, once and in order; every client reachable until the server stops
and none served after; the first request of a session announced exactly once;
streams written as a whole or not at all; transactions that end with the call
that ends them; no message skipped without a failure; a page that shows what its
markup asks for.

## 2. Modules

| Module | Models | Run |
|---|---|---|
| `EFAggregateStore` | `EFAggregateStore.cs`, `ApplicationService.cs`, `AggregateRoot.cs` | `MCEFAggregateStore.cfg`, `MCEFSnapshotInterval.cfg` |
| `EFAggregateStore_proofs` | its theorems | |
| `ProjectionWorker` | `ProjectionWorker.cs`, `EFCheckpointStore.cs`, `EFDbProjection.cs`, `UserDetailsProjection.cs`, the paging of `EFRepository.cs` | `MCProjectionWorker.cfg`, `MCProjectionOnlyNew.cfg`, `MCProjectionEventually.cfg` |
| `ProjectionWorker_proofs` | its theorems | |
| `MessageChannel` | what `IProtocolFramer` promises (abstract) | |
| `Framing` | `Framers.cs`; implements `MessageChannel` | `MCFraming.cfg`, `MCFramingShared.cfg` |
| `Framing_proofs` | its theorems, the refinement among them | |
| `UssdServer` | `SocketTCPServer.cs`, `AirtelSocketServer.cs`, `TNMSocketServer.cs` | `MCUssdServer.cfg` |
| `UssdServer_proofs` | its theorems | |
| `WriteOnce` | keys that are written once (abstract) | |
| `EsAggregateStore` | `EsAggregateStore.cs` under `ApplicationService.cs`; implements `WriteOnce` | `MCEsAggregateStore.cfg` |
| `EsAggregateStore_proofs` | its theorems, the refinement among them | |
| `UnitOfWork` | both units of work, the repositories that leave saving to them, the bulk create of `Service.cs` | `MCUnitOfWork.cfg` |
| `UnitOfWork_proofs` | its theorems | |
| `KafkaConsumer` | `KafkaConsumer.cs`, `KafkaClient.cs`, and Kafka as they use it | `MCKafkaConsumer.cfg` |
| `KafkaConsumer_proofs` | its theorems | |
| `UnobtrusiveAdapters` | the adapters of the validation script: from attributes to rules | |
| `UnobtrusiveValidation` | the rest of the script, on one form with its user and the page's scripts | `MCUnobtrusiveValidation.cfg` |
| `UnobtrusiveValidation_proofs` | its theorems | |

### EFAggregateStore

A request is a process with a program counter `pc` and its locals `req`. One
action stands for the code between two awaits: `Create` (the `Exists` query and
the creator), `LoadSnapshot` and `LoadEvents` (the two queries of `Load`, then
the updater), `LoadNothing` (`Load` returned null), `ReadVersion` (the query at
the head of `Save`), one `AddRow` per `AddAsync`, `SaveSnapshot`, `Return`, and
`Fail`, which ends the request at any of these points and leaves what was
committed. The state of an aggregate is the set of events it has applied; the
events are named by the command that raised them, so that "this row holds that
event" can be said. `checkAt` and `readAt` are history: the table's last
RecordId when the request tested `Exists` (or loaded) and when its `Save` read.

Facts of the code the model keeps: `Save` numbers from the highest version it
re-reads, not from the one that was loaded; the version in the snapshot is the
one the save started from, although the contents include its changes; `Load`
replays all rows over the snapshot and not only the later ones; `ShouldSnapshot`
looks at the version the save started from. A snapshot is a row of its own and
`Load` takes the one with the latest time stamp; the model keeps the latest.

### ProjectionWorker

`Commit` is separate from `BeginInsert` because the database hands out RecordIds
when inserts start and shows rows when they commit. `Poll` takes the first
`PageSize` rows after the cursor and the batch is projected newest first: the
repository applies `Skip` and `Take` before the ordering it is given. A page cut
without an order is taken in the order of the primary key, which is what the
databases in question do for such a query. `Project`, `ProjectThrows` and
`StoreCheckpoint` are the steps of the loop. `Kill` is the death of the process,
or a database call of the worker that throws; both end with the host stopped and
started again (`Start`). While the host is down, other instances of the API may
still insert.

`lost` and `failed` are history variables with a narrow meaning: a row is lost
when it commits although the worker will next poll from beyond it, or when a
death in the middle of a batch leaves it below the stored checkpoint;
`failed` says that a projection has thrown.

### Framing and MessageChannel

`Framing` has a stream of bytes per socket, one reader per socket and the four
framers as definitions that say when the bytes held are a complete message, how
many more are asked for, and what is left over. `Receive` takes any number of
the bytes that have arrived, up to what was asked for. `MessageChannel` is the
promise of the interface: messages are read in the order they were written, each
once, until the connection breaks. `ImplementsChannel` is the refinement; `up` is
mapped to "the peer is there and the reader has not thrown". It is conditional
on `KeepsMessages`, which names when a framer can keep its promise: never for
`NoFraming`; for `DelimiterFramer` when it serves one socket (`Alone`) and the delimiter
is first found behind each message. It is not enough that the other sockets
carry no bytes: a reader that waits on an idle socket returns what the framer
holds of another, which the proof needed and TLC then showed with two sockets.
`HeaderOf` and `LengthIn` are the digits of a length and their sum
(`BitConverter`), with as many digits as the header has bytes; `FramingAssumption`
says that the length of an array that is written fits (`Shifted`).

### UssdServer

The accept loop is in three steps (accepted, tracked, task started) because
`Stop` can run between any two of them. `Stop` is cancel, close each client its
enumeration must see, clear, close the listener. A client's task reads, looks
the session up, adds it, calls the API, replies, and cleans up in the wrapper's
`finally`. `Reply` is everything behind the API's answer: mapping or serialising
it may throw as well as writing it, and either ends the connection. A
`Dictionary` is not made for concurrent use: while one task is inside `Add`
lookups of others may miss or throw, and two overlapping `Add`s leave a table
(`torn`) from which any key may be missing and whose calls may throw. `owner`
and `calls` are history. The date a session is refreshed with is left out:
nothing but the refresh reads it. `Dispose` is left out; no code of the
repository calls it while the server runs.

### EsAggregateStore and WriteOnce

EventStoreDB does an append as one write, so a stream is abstracted to the
command that wrote it and its length. `Create` and `Update` are the parts of a
command up to the await in `Save`; `Append` or `WrongExpectedVersion` is what
the server does; `Return` is the arrival of its answer; `Throw` ends a command
at any await, before or after the write. `Save` passes the `Version` of the
aggregate as the expected version and nothing of the code advances it from -1,
which the server reads as "there is no stream". What follows from that is what
the properties say: a stream is written once, by a create; an update of an
aggregate that exists always fails; and an update of an aggregate that does not
exist, which `Load` answers with a blank object and not with null, writes the
stream of the blank id, once. `Load` reads one page, and nothing bounds the
events of a command: `Replayed` is the beginning of a longer stream.
`ShortLoadStoresNothing` says when an updater sees less than its stream, and
that nothing it decides then is stored: the append is refused, although not for
that. `WrittenOnce` is the refinement of `WriteOnce`: of the commands that race
for a stream at most one is told of its success, and only when its events are
there.

### UnitOfWork

A unit is a record of its context (`tracked`, what is still to be saved), its
connection (`open`, `staged`) and its field `_transaction` (`field`). The two
classes differ in what they do when a transaction has begun and when a rollback
throws; `Guarded` are the units of the class with the checks and the `finally`.
`CommitAsync` is `Commit`, `CommitTransaction` or `CommitThrows`, `Catch`, and
`Finish`, one for each await and handler. A failing save leaves its changes
tracked; a commit may throw after the database has committed. `CreateMany` and
`CreateNext` are the service's bulk create, whose repository saves each entity.
`made`, `undone` and `batches` are history. `TypeOK`
includes that a unit never refers to a transaction that is gone
(`ReferencesLive`), but between the end of a `CommitAsync` and its `finally`.

### KafkaConsumer

A call of `Consume`, the loop it starts, the handler its scope makes and the
client it builds are named by one topic. `Resolve`, `Build` and `SetTopic` are
three steps, because a second call can run between the assignments of the three
fields, and `Subscribe`, in the loop's task, reads the last two. `Turn` is the
loop's condition and the read of the field; `Receive`, `SkipMalformed`,
`ConsumeEnds` and `ConsumeFails` are the ways the client's `Consume` returns;
`Handle` and `HandlerThrows` those of the handler the loop found in the field
(`called`). `HandlerDisposed` is a handler that fails because the call that made
it has ended, and with it the scope (`using var scope`), while a loop of another
call uses it. Kafka is modelled as the code uses it: one partition for each
topic, a client that stores the offset of what it hands out and commits it some
time later (`AutoCommit`), also when it is closed. `Crash` loses everything but
what was committed. `settled` is history: handled, failed in its handler, or
unreadable.

### UnobtrusiveAdapters and UnobtrusiveValidation

The attributes of an input are a function from adapters to parameters, a value
is its length and whether it has the format asked for, an input's name is a pair
of model prefix and name. `Adapt` is the adapt function of every adapter,
`RulesOf` is `parseElement`: the rules of every adapter the input has attributes
for, a later one over an earlier one (`Adapted`), and the rule that every value
satisfies. `Accepts` and `Optional` are the methods of jQuery Validate as the
script uses them, `Acceptable` reads the same attributes one by one and is the
reference they are compared with. The two disagree where two attributes of an
input ask for the same rule (the later one wins: the `min` of a `password` over
that of a `length`); `AsksOnce` names the inputs of which this is not so, and
`ShownMatchesMarkup` is about those.

The `equalto` adapter looks the other input up once, when it parses, and the rule
keeps the DOM element it found (`Element`). An element that a script takes out of
the form lives on in the rule with the value it had (`Removed`, `Detach`); an
input inserted later under the same name is another element, and the code goes on
comparing with the old one (`Held`).

JavaScript runs one event at a time, so every action is a whole handler. The
validator takes a deep copy of the options when it is made (`settings`); later
parses change `options` only. So `ShownMatchesMarkup` speaks of the inputs in
`Known`: the validator has rules for them, and their rules refer to the element
a parse would find now. Of the others it says nothing: there the box shows what
held of the inputs and elements of an earlier parse. The label of an earlier
message is never found again (`onError` takes off the class it is looked up by),
so each success is an error placed and then removed. `resetForm` is called on a
validator that may not be there: that throws, and the `finally` takes the flag
back.

## 3. What the runs check

| Run | Instance | Shows |
|---|---|---|
| `aggregate_store` | 2 requests, 2 aggregates, 3 commands of 1 or 2 events, 2 failures, interval 2 | the seven properties below hold in 147 thousand states (up to symmetry of requests and aggregates) |
| `snapshot_interval` | 1 request, 1 aggregate, 60 commands of 2 events, interval 100 | **violated**: "every 100" never happens when saves start from odd versions |
| `projection` | 2 users, 3 rows, pages of 2, 1 kill | the six properties below hold in 26 thousand states (with 4 rows: 624 thousand, a minute) |
| `only_new_events` | the same without kills | **violated**: a two-event batch is loaded again in part |
| `eventually_projected` | the same without kills | **violated**: a rename that is projected before its creation stops the worker for good |
| `framing` | 1 socket, each framer, 3 messages of 0 to 3 bits, headers of 2 bits, a delimiter of 2 | refinement and liveness hold in 61 thousand states |
| `framing_shared` | 2 sockets, one `DelimiterFramer` | **violated**: a socket's reader returns bytes of the other |
| `ussd_server` | 2 clients, 1 session, 3 messages | the seven properties below hold in 156 thousand states |
| `es_store` | 4 commands, 2 aggregates, pages of 2, up to 3 events a command | the four properties below, the refinement among them, hold in 167 thousand states (up to symmetry of commands and aggregates) |
| `unit_of_work` | 1 unit of each class, 3 changes, batches of up to 3, 2 failures | the five properties below hold in 363 thousand states (up to symmetry of changes) |
| `validation` | 3 pages of 2 inputs, with a summary and without, values of length 0 to 2 | the four properties below hold in 511 thousand states |
| `kafka_consumer` | 2 topics and calls, 2 messages each, one of them malformed, 1 failure | the three properties below hold in 382 thousand states |

The four violations are disagreements between a comment of the code and what the
code does; `PROJECT.json` quotes the comments. The remaining properties hold.

Safety of the event store: `VersionsGapFree`, `VersionClashNeedsOverlap`,
`CreateClashNeedsOverlap`, `AckedSaveComplete`, `SnapshotContentsStored`,
`LoadReplaysEverything`. The two `...NeedsOverlap` properties state exactly how
much the code promises: duplicates do occur, but only between overlapping
requests. Of the worker: `CheckpointIsProjected`, `OnlyKnownLosses`,
`RedeliveryBounded`, `CaughtUpReadModelCurrent`, and the liveness property
`ProjectedUnlessThrown`. Of the framers: `StreamConserved`, `ImplementsChannel`,
`DeliveredUnlessBroken`. Of the server: `FirstRequestOnce`, `FirstRequestLeads`,
`TableMatchesHandlers`, `OnlyLateClientsLeft`, and the liveness properties
`HandlersEnd` and `RequestsFinish`. Of the second event store:
`StreamsAreCreations`, `ShortLoadStoresNothing`, `WrittenOnce`. Of the units of work:
`NoOrphanTransaction`, `CommittedIsStored`, `RolledBackStaysOut` (of the class
with the `finally` only; the other one's transaction outlives a rollback that
throws and is committed by the next `CommitAsync`), `BatchInOrder`. Of the
script: `ShownMatchesMarkup`, `SummaryNamesFailures`, `ResetClears`. Of the
consumer: `SkippedOnlyByFailure` (a crash may bring a message again,
and only a failure skips one) and the liveness property `ServedTopicDrains`. Each
property is stated in words above its definition, and each fails when one
definition is replaced by the mutant named in `PROJECT.json` (the definitions
marked as mutants).

Why the bounds are enough: two requests and two rows per save give every
interleaving of a save with another save, a load or a check; three commands let
a snapshot be taken by a request that is stale and be loaded by a third. Pages
of two with three rows give batches that are cut, batches of one, and a batch
with a creation and its rename. Two-bit headers and payloads that consist of the
same bits let a payload look like a header or a delimiter at any cut. Two
clients and three messages give two handlers in the session table at once and a
third message that meets what they left. Four commands let two of them race for
each stream, or three for one with an update that loaded in between; with up to 3
events a command and pages of 2 a stream is shorter than a page, as long, or
longer. Two
failures reach a commit that throws and a rollback that throws in its catch;
three changes give a batch with a middle, and a batch beside a tracked change.
The three pages use an adapter of every form the script registers (a flag, one
value, two bounds with and without a rule for both, several rules, another
input), and a box, which `required` treats differently. Two
calls of `Consume` are enough for one to overwrite the fields at every point of
the other; two messages for one that is handed out and one behind it. Every
bound is a CONSTANT (`Max...`, `Messages`).

Fairness: the database completes an insert it started; a hosted worker's loop
runs and a stopped host is started again; a begun write goes on and a handler
keeps reading; the tasks of the thread pool run; a call of the API returns
(`ApiCall` uses an HTTP client with a timeout; `TcpCall` has none, and for it
this is an assumption about the API); the thread of a consumer's loop runs and
its handlers return. Nothing is assumed of peers, of connections, of `Stop`
being called, or of failures. The theorems are
about `Spec`, which states no fairness, except in `KafkaConsumer`, where the
proofs do not use it.

Deadlock is not checked: each instance stops when its bounds are used up, and a
server that has been stopped, or a worker with no event to project, rests. The
validation script is the exception: a page can always go on.

## 4. What is proved

Eight modules hold theorems about the specifications, for all constants that
satisfy the modules' assumptions. The assumptions say that bounds are natural
numbers and that the interval and the page size are positive
(`BoundsAssumption`); that a `None` is not a message, a topic or a client
(`TopicsAssumption`, `OwnerAssumption`); that the guarded units are units
(`UnitsAssumption`); that the blank id is no aggregate's (`CommandsAssumption`);
that the length of a message fits the header and that no constructor
gets an empty delimiter or a fixed length of 0 (`FramingAssumption`); that an
input is what the page's markup says, that no two inputs share a name, that
`equalto` comes with the name it needs, that bounds of a length are numbers and
that a page asks for no rule whose method is not loaded (`FormsAssumption`).

Each property follows from an inductive invariant that strengthens it.

`EFAggregateStore_proofs`, all six safety properties and type correctness:

- `GapFree` (`GapInv`): the stored versions have no gap *and* a save in its loop
  of `AddAsync` continues from a version that is stored: the highest one it read
  or the row it has just added. The property alone is not inductive, because the
  number of the next row was fixed by an earlier step of the request.
- `ClashNeedsOverlap` (`ClashInv`): RecordIds are below `nextId`, and the rows a
  save has read do not exceed the version it counts on from.
- `SecondCreateOverlaps`, `LoadIsComplete` (`LookInv`): what a request saw when it
  looked at the table is all that has a RecordId up to `checkAt`.
- `SnapshotNeverAhead`, `AckedIsStored` (`StoredInv`): an aggregate object holds
  stored events and changes its save has still to add; the changes counted as
  added are stored; so a snapshot, taken after the loop, holds only stored events.

`ProjectionWorker_proofs`, all four safety properties and type correctness:

- `Positions`: no two rows share a RecordId, and a running worker's cursor is the
  stored checkpoint.
- `LossInv`: every row older than what the worker will look at next is projected
  or lost. It needs that the oldest pending row is on the first page
  (`OldestOnPage`), which is why cutting before ordering does no harm here.
- `RedeliveryInv`: an event has been projected no more often than there are
  positions up to the one the worker will poll from, plus the kills: each batch
  ends at its oldest event, which is then behind the checkpoint for good.
- `ReadModelIsCurrent` (`CurrentInv`): a user all of whose rows are done is shown
  under the newest of them, where a row is done when the worker is past it, inside
  a batch when the whole batch is younger. While nothing is lost, rows are done
  in the order of their ids, so the last projection of a user is that of the
  user's newest row. It needs that a rename has an older creation and that names
  in the read model are those of the user's rows.

`UssdServer_proofs`, all four safety properties and type correctness:

- `ServerInv`: where the client that was accepted last is (between the listener,
  the table and its task), and who holds no request.
- `TableExact`, `StopClosesAll` (`StopInv`): every handler that can still run was
  known to `Stop` when it enumerated the table, and each client known to it is
  closed or still to be closed.
- `FirstOnce`, `FirstLeads` (`FirstInv`): while no two `Add`s have overlapped, a
  session is in the table if and only if the API was asked for it as a first
  request, or its one adder is on its way there; the connection that is alone
  with the session is then the one whose request leads.

`EsAggregateStore_proofs`, type correctness, `StreamsAreCreations`,
`ShortLoadStoresNothing` and the refinement `WrittenOnce` (`Refinement`):

- `Inv`: a stream is empty or holds all that its one writer raised, and that
  writer is past its `Append` (so a command that has yet to save has written
  nothing, which the abstract `Write` asks for); a command whose append the server
  did is the writer of its stream. An update of an existing stream never gets
  past its save (`ShortLoadsStoreNothing`), whatever `Load` gave it.

`UnitOfWork_proofs`, type correctness and all four safety properties:

- `Inv`: at every point of a call, not only between calls, what the field, the
  connection and the transaction can be to each other, and that every change is
  tracked, staged, stored, or was to be dropped. One lemma for each action.
- `GuardInv`: a guarded unit's dropped changes are apart from what it tracks and
  stages, and no other unit was asked for them.
- `BatchesInOrder` (`OrderInv`): wherever a change is on its way, those before it
  in its list are at least as far. Stored: they are stored or dropped; staged in
  a transaction: those or staged in the same one; tracked: those or tracked by the
  same context; still in the list of `CreateMany`: those or further ahead in it.
  The property speaks of stored changes only and is not inductive: what a commit
  may store was put in order by an earlier save. The steps come down to two
  lemmas, one for what saves (`SavingKeeps`), one for what moves or drops what
  was staged (`MovedKeeps`); a new list is of changes nobody has asked for
  (`OrderCreateMany`).

`KafkaConsumer_proofs`, type correctness and `SkippedOnlyByFailure`
(`NoneSkipped`, from `GroupInv` and `ClientInv`): every message up to the
committed offset *and* every message up to the position of a client, which may
commit it at any moment, is settled or held; a loop holds one exactly while it
is handling it.

`UnobtrusiveValidation_proofs`, type correctness and all three safety properties:

- `SummaryIsExact`, `ResetAlwaysClears` (`Inv`): the rules of a parsed input have
  the rule that every value satisfies (`RulesHaveDummy`), so that an input with
  another rule can always leave the error state (`FailsOrSucceeds`); the flag of a
  reset that ended is down.
- `MarkupShown`: the box of an input just checked shows the verdict of the rules
  the validator has for it (`Checked`), for any markup. Those are the rules some
  parse made, but for elements that have left the form since (`FromMarkup`, kept
  by `FreshStep`), and a parse today would make the same where the element is the
  same (`ParsesAgree`, `RulesStay`). That these rules accept
  what the markup accepts is `MarkupRules`: where each rule comes from one
  attribute, the rules of an input accept a value exactly when those of each of
  its adapters do (`RulesOfEach`), and what each of the eighteen adapters asks
  for is computed in `FormatAdapters`, `LengthAdapters` and `PresenceAdapters`.

`Framing_proofs`, type correctness, `StreamConserved` and the refinement
`ImplementsChannel`, for messages, headers, delimiters and cuts of any length:

- The operators first. The provers have no induction, so `Induction` and
  `Recursion` derive it from the well-foundedness of the natural numbers (a
  counterexample has a least one); from them, that a length survives its header
  (`LengthOfHeader`) and that the frames of a longer sequence of messages are
  those of the shorter one and one more (`FramesAppend`, `NextFrame`).
- `BytesConserved` (`Conserved`): what was returned, what is held, what is in the
  stream and what is still to be written make up the frames that were written. It
  has to hold of a broken connection too, where all that can be said is that the
  rest of the bytes exist, so that a reader that has not noticed is accounted for.
- `Refinement` (`Ordered`): where the framer can keep messages apart, what was
  returned is a prefix of what was written. With `Conserved` the bytes a reader
  holds are the start of the next frame, so a complete message in them is the next
  message (`MessageIsNext`: by its header, its size, or the first delimiter in
  it), and a read is the channel's `Read` (`StepRefines`).

Only model-checked: the liveness properties (`ProjectedUnlessThrown`,
`DeliveredUnlessBroken`, `HandlersEnd`, `RequestsFinish`, `ServedTopicDrains`),
for which the prover has no rule here. What the four runs that end in a violation
show is a counterexample, which TLC finds.

## 5. Not modelled, and why

Parts of the code that do nothing to check today:

- `SubscriptionManager`: the body of `Start` is commented out, and `Stop`
  dereferences the subscription that `Start` would have made
  (`SubscriptionManager.cs:90`). With it `EsCheckpointStore`, which nothing else
  uses.
- The caches: every hit throws, since the text that was cached is returned as
  the entity's type (`MemoryAppCache.cs:22`, `DistributedAppCache.cs:24`); what a
  stale hit would serve has no behaviour to model.
- RabbitMQ acknowledges on delivery (`RabbitMQClient.cs:52`): messages of a
  handler that throws are lost by that line, and the client has no state to
  relate it to.
- The pagination of the Mongo and Cassandra repositories, and their other
  methods: one driver call each. `MongoRepository.cs:89` skips as many entities
  as the number of the page; a model of that line would only restate it.
- `SpecService.cs:35`: the constructor throws for every argument.

Parts without state or interleaving of their own: XML and field mapping, the
socket client (one caller; its reads and writes are those of `Framing`), CQRS
dispatch and its pipeline, DataBag (what `AsyncLocal` does), the job wrappers
(Hangfire and Quartz do the work, the plain one starts a task and forgets it),
`FunctionalStore`, e-mail, files, codes, logging, HTTP clients, authentication,
mapping and the saga tables.

Left out of the models that are there:

- `UssdServer`: `Dispose`, the caller's cancellation token, the date a session is
  refreshed with. Sessions are never removed, in the model as in the code.
- `KafkaConsumer`: several partitions of a topic, two clients of the group on one
  topic (a rebalance), and `EnableAutoCommit=false`, with which the code commits
  nothing and every start begins at the earliest message. `ServedTopicDrains`
  speaks of the client that is in the field: one that was overwritten is read by
  nobody, which is a fact of the code and not a failure of the loop. Nor does it
  speak of a loop whose handler belongs to another call that has ended
  (`OutlivesItsScope`): the disposed handler may throw and end the loop.
- `UnobtrusiveValidation`: radio buttons and other inputs of one name (the script
  keeps rules by name, the model by input); an `equalto` without `other`, where the
  adapter throws and the parse ends; an element that a script puts back after
  taking it out (an inserted input is a new element); inputs that are hidden or
  disabled, which the validator skips; rules from classes, HTML attributes and
  `data-rule-...`, which it adds; buttons that cancel validation. The answer of a remote check is taken to come at
  once. The partial view of the repository loads no `additional-methods.js`;
  there an attribute of the adapters in `Additional` would make the validator
  throw, and `FormsAssumption` leaves such pages out. The run loads it, so that
  `fileextensions` has its method. `addSingleVal` does not honour the default
  its comment names for the attribute (`val`), and `addMinMax` reads `min` and
  `max` whatever attributes it was given; no adapter of the script is registered
  so that this shows.
- `EFAggregateStore` and `ProjectionWorker` are not composed: the worker sees the
  requests only as rows that become visible in any order, which is what its
  `BeginInsert` and `Commit` allow, so that a composition could only remove
  behaviours.
- The sequences of characters of messages, names and values; the text of logs.

# A formal model of libserdes

libserdes serialises Kafka messages with schemas that it keeps in a local
cache and exchanges with a Confluent Schema Registry over HTTP.  This directory
holds TLA+ modules translated from its source, TLC configurations that check
them on small instances, and proofs that TLAPS checks for every instance.

Paths below are relative to the repository (`src/schema-cache.c` and so on).

## 1. Inventory

| component | source | state | operations |
|---|---|---|---|
| schema cache | `src/schema-cache.c`, `serdes_int.h` | the list `sd_schemas` under the mutex `sd_lock`; per schema: id, name, definition text, loaded object, `ss_t_last_used`, `ss_linked` | `serdes_schema_get`, `_add`, `_destroy`, `serdes_schemas_purge`, accessors |
| REST client | `src/rest.c`, `rest.h` | position `idx` in the URL list; a response: code, error string, growing buffer | `rest_get`, `rest_post` (both `rest_req`) |
| URL list | `src/rest.c` | `urls`, `cnt`, `idx`, `max_len`, `str` | `url_list_parse`, `_clear`, `url_encode` |
| configuration | `src/serdes.c` | URLs, two framing modes, debug flag, callbacks | `serdes_conf_new`, `_set`, `_copy`, `_destroy`, setters |
| handle | `src/serdes.c` | lock, cache, copy of the configuration | `serdes_new`, `serdes_destroy` |
| framing | `src/framing.c` | none | CP1 write (magic byte, 32-bit id) and read |
| Avro (de)serializer | `src/serialize-avro.c`, `deserialize-avro.c`, `schema-avro.c` | none | size query, serialise into own or given buffer, deserialise with schema lookup |
| C++ wrapper | `src-cpp/` | objects that own a C handle, configuration or schema; `ss_opaque` points back | `Handle`, `Schema`, `Conf`, `Avro` |
| logging | `src/serdes.c`, `src-cpp/Serdes.cpp` | none | `serdes_log`, `log_cb_trampoline` |
| examples | `examples/` | `run`, the schema in use, what librdkafka still has | producers and consumers in C and C++, their signal handlers |
| TinyCThread (vendored), mklove, packaging | | | not modelled |

How they interact.  Application threads call the cache concurrently.  `get`
and `add` look a schema up under `sd_lock`; on a miss the thread keeps
`sd_lock`, and `serdes_schema_add0` allocates a schema, loads its text with the
user's `schema_load_cb`, and asks the registry through the REST client, which
blocks and may fail over from one URL to the next.  The result is linked into
the list and `sd_lock` released.  The stamp `ss_t_last_used` is written after
the release.  The (de)serializers and the C++ wrapper sit on top and use schema
pointers that nothing keeps alive: the application must not use a schema that a
purge or a destroy has freed.

What is hard.  A lookup and the use of what it found are not atomic (the unlock
comes before the stamp).  A miss and the insertion are separated by a blocking
request.  Every path of `add0` that fails must undo exactly what was done.  A
POST may have succeeded although its answer was lost.  The response object is
reused between attempts, and its buffer grows with `int` arithmetic.  The
position in the URL list survives from one request to the next.  The list of
hazards, each with its line and the properties that cover it, is in
`PROJECT.json`.

What makes each part correct:

- cache: the list holds only live, loaded schemas with an id; nothing leaks and
  nothing is freed twice; one id or definition is not inserted twice by racing
  threads; a cached schema is what the registry has under its id; a purge keeps
  what was used recently; the lock is always released;
- REST client: every reachable server is tried, none is asked twice by one
  request, the returned response is that of one server, the buffer is never
  overrun, every request ends;
- URL list and configuration: a failed set leaves a usable object, a copy is
  independent of its original;
- framing and serializers: what is written is read back under the same id, no
  write passes the end of a buffer, buffers are owned by exactly one side;
- C++ wrapper: a schema gets no second object but from the places in the code
  that can make one, an application that keeps its rules touches no freed
  object, a log message reaches the object whose handle logs;
- examples: a line is decoded with the schema it was typed under, a message that
  was handed to librdkafka is delivered or reported before the producer ends,
  and a signal ends each program that waits neither for the registry nor in
  `getline`.

## 2. Modules

### `SchemaCache.tla`

The cache of one handle, used by the threads of `Threads`.  The heap is a
sequence of schemas to which an allocation appends; a pointer is an index, 0 is
`NULL`.  Addresses are not reused, so that a dangling pointer can be told.
Schemas are allocated and linked under `sd_lock`, always at the head, so the
list is kept as a set of pointers: from head to tail they are in descending
order (`First`, `Next_link`).

Each thread has a program counter `pc`, its call `req` and its local pointer
`cur`.  A step ends where another thread can see a difference: at the wait for
`sd_lock`, at the REST request, between the unlock and the stamp, and at each
schema of a purge (which reads stamps that other threads write without
`sd_lock`).

| action | code |
|---|---|
| `Call`, `CallDestroy` | an API function is entered; `serdes_schemas_purge` reads the clock before it waits for the lock |
| `LookupHit`, `LookupMiss` | lock and look up; a hit unlocks, a miss goes on to `add0` with the lock |
| `Add0Reject` | the early returns of `serdes_schema_add0`, a text that does not load, no URL configured |
| `Add0Assign`, `Add0Store`, `Add0Fetch` | definition and id given; definition to POST; schema to GET |
| `StoreOk`, `StoreFail`, `FetchOk`, `FetchFail` | the end of `serdes_schema_store` / `_fetch`, then link or destroy, and unlock |
| `serdes_schema_mark_used`, `MarkFreed` | stamp and return; or the schema is gone by now |
| `serdes_schema_destroy`, `DestroyFreed` | lock, destroy, unlock |
| `PurgeBegin`, `PurgeCheck`, `PurgeDestroy`, `PurgeEnd` | the loop of `serdes_schemas_purge` |
| `TeardownNext`, `TeardownEnd` | `serdes_destroy` |
| `UseFreed` | the application reads a schema that is gone |
| `Tick`, `RegistryPublish` | the clock; other clients of the registry |

A definition text is abstracted to what the code tells apart: leading white
space, whether it is a JSON string (which `serdes_schema_load` wraps into an
object), and the schema it denotes.  Texts are compared as texts, as `memcmp`
does.  The registry is external: it gives equal schemas equal ids and never
changes the schema of an id.  An answer may be lost after the registry has
acted (`StoreFail`).  What follows an access to freed memory is not modelled:
`fault` is set and the run halts.

History fields (`t_handed`, `assigned`, `given`, `handed`, `fault`) are only
read by properties and by the application's choice of arguments.

The constant `Quiesce` selects the application.  With `FALSE` threads purge and
destroy at any time.  With `TRUE` they do so only while no other thread is in
the library, and drop the pointers they hold when they purge: the discipline
that the API needs to be safe, since nothing counts references.

### `RestReq.tla`

`rest_req` with its response object, called again and again with the same URL
list.  The caller holds `sd_lock`, so requests do not overlap; that this is so
is `SingleFlight` of the cache.  libcurl is external: setting an option, a
transfer and the status query may each fail, and a body arrives in pieces of
any size before a transfer succeeds or breaks.  `payload` records for each byte
of the buffer which URL it came from.  `len` and `size` are `int`: nothing limits
a body, so a sum may become larger than `IntMax`, which C leaves undefined; the
model then stops (`phase` is `undefined`), and `BufferSafe` says when that can
be.  A server in `up` answers throughout the request; the
others fail or answer as they like.

### `Wire.tla`

Messages between producers and consumers that may configure their framings
differently.  Producers call `serdes_schema_serialize_avro` (size query, a
buffer of their own, a new buffer) or `AvroImpl::serialize`, which appends to a
vector that may already hold messages; other programs send payloads of their
own.  A consumer reads the last message with `serdes_deserialize_avro`, with
`serdes_schema_deserialize_avro` and its own schema, or with
`AvroImpl::deserialize` with or without a schema.

A payload is a sequence of bytes.  A byte has `2 * HalfByte` values and an
`int` four bytes; `htonl` and `ntohl` are the conversions between a signed
`int` and its bytes.  The Avro encoding (avro-c, avro-cpp) is external: the
constant operators `avro_value_write` and `avro_value_read`, of which only
`avro_value_read(v.type, avro_value_write(v)) = v` is assumed.  So is the
lookup of the schema of an id, which succeeds for the ids at the registry
unless neither cache nor registry has an answer (`found`, `again`).

| action | code |
|---|---|
| `SizeQuery` | `serdes_schema_serialize_avro` with `payloadp == NULL` |
| `SerializeTooSmall`, `SerializeFail`, `serdes_schema_serialize_avro` | its other ends: buffer too small, an error of avro-c, a message |
| `CppSerializeMismatch`, `CppSerialize` | `AvroImpl::serialize`: the encoder throws; framing and value are appended |
| `CppSend`, `ForeignSend` | the application cuts and sends the vector; another program sends |
| `serdes_deserialize_avro`, `DeserializeWith`, `CppDeserialize` | the three deserializers |

`sent` keeps what a message was made from, `packed` the places of the messages
in the vector; both are history.  The C serializer does not compare value and
schema (a FIXME there), so the model does not either.

### `SchemaStore.tla`, `SchemaCacheImpl.tla`

`SchemaStore` is what a user of the cache may rely on.  It knows neither lock
nor list nor registry: a `get` or `add` is invoked, takes effect in one atomic
step in which it finds an entry or, if none answers it, inserts one, and
responds.  Entries never change; they go only by a destroy, a purge or the end
of the handle, after which nothing is inserted.

`SchemaCacheImpl` shows that `SchemaCache` implements it.  The store is the
list `sd_schemas`; the subject of a call is the local variable `ss` once the
lock has been released.  So the point at which a call takes effect is, for a
hit, the unlock after the lookup, and for a miss the insertion at the end of
the request: all that happens in between is a stutter.  A `get` whose schema
vanishes between unlock and stamp still took effect; what it returns is then a
dangling pointer (run `returned_usable`), which the store does not hide: its
subject is no longer in the store.

### `UrlList.tla`, `SerdesConf.tla`

`UrlList` has the pure functions: `url_list_parse`, `url_encode`, and the part
of a URL that `rest_req` copies.  A text is a sequence of symbols: single
characters, the prefix `http://` (or `https://`) as one symbol, and `%xx` for an
escaped character.  `Elements` is the reference that the parser is compared
with: it cuts the text at its commas by their positions, not by a loop.

`SerdesConf` has the objects: `serdes_conf_t` and `serdes_t` in `objs`, their
URL lists in `mem`, the `ConfImpl` and `HandleImpl` of the C++ API in `cpp`.
Freed places are reused, as `malloc` does, and a pointer to a freed list stays
in the object that had it, as `url_list_clear` leaves it.

| action | code |
|---|---|
| `serdes_conf_new`, `ConfSet`, `ConfSetCallbacks`, `serdes_conf_copy` | the functions of that name; a failing property frees the object under construction |
| `Destroy` | `serdes_conf_destroy`, `serdes_destroy` |
| `New` | `serdes_new`: copy, destroy the original, fail without a schema loader |
| `CppConfCreate`, `CppConfSet`, `CppConfSetLogCb`, `CppDelete` | `ConfImpl`, `HandleImpl` |
| `CppHandleCreate` | `create_serdes` |

An application (`Apps`) is one record: the API, whether the library has Avro-C,
a URL text and one other property.  `serdes_log` is an operator, since it keeps
no state: the callback and the opaque pointer that a handle would use.

### `CppWrapper.tla`

The `Schema` objects of the C++ API, on top of `SchemaStore`: a C function is
called by `Call`, takes effect in `CFind`, `CInsert` or `CRemove`, returns by
`CRespond`, and the C++ code goes on in steps of its own (`ReadOpaque`, `Wrap`,
`WrapAdded`, `Delete`, `DeleteEnd`) with other threads in between.  `TouchFreed`
is the access to a schema that is gone.

The application may call and delete what it likes; only the calls of its own
that C++ requires to be in order are guarded (an object is deleted once, the
handle while nothing else uses it).  `Abandon` is the `Schema` object that
`decode_and_print` of the C++ consumer never deletes.  `FramedGet` is the second
half of the lookup in `AvroImpl::deserialize`, which reads the id of the schema
that `serdes_framing_read` has returned and looks it up once more.

That is not safe by itself.  `schema_get` tests and sets the opaque pointer in two
steps, so that two threads that get one schema may make two objects; `schema_add`
makes a `SchemaImpl` for a schema that has one, although `serdescpp.h` says that
an existing schema "will be returned instead"; and no count of references keeps a
schema that is used.  All of this happens in the run, including what follows from
it: after the destructor of one of two objects of a schema, the other one holds
a freed schema, and its own destructor destroys that again.  No document says what an
application has to observe, so the module does, in two rules (`DeleteRule`,
`CallRule`):

1. a `Schema` object is deleted only while no other held object wraps the same
   `serdes_schema_t`, and no call about its schema is under way or begins before
   the destructor is through;
2. a purge, and the deletion of the handle, come when no object is held and no
   other call overlaps with them.

The variable `careful` records whether the application has kept them so far.
Gets, adds and deserializations of one schema may overlap at will.  An
application that holds two objects of one schema can delete neither; it can
forget one and delete the other.  `SharedUnlessRaced` says where second objects
come from; the other properties say what the two rules are enough for.  Without
`careful` in them, TLC finds each of the three violated.

### `Pipeline.tla`

A producer and a consumer of `examples/`, with librdkafka, the topic, the input
and the registry between and around them.  The registry is reduced to the set of
schemas it has; a lookup may fail at any time.  `typed` keeps the lines that were
read; the schema in force at a line (`InForce`) is recomputed from them, not
taken from the program's variable.

| action | C client | C++ console programs |
|---|---|---|
| `ProducerSetup`, `ProducerFatal` | start of `main` and `run_producer` | `main` |
| `LoopCondition`, `Line`, `OtherLine`, `EndOfInput`, `LoopEnd` | `while (run && fgets)`, `run = 1` | `run && std::getline` |
| `SchemaLine`, `StrLine` | the two prefixes | |
| `Json2Avro`, `Serialize` | | `json2avro`, `serialize` |
| `ProduceOk`, `ProduceFail`, `Poll` | `rd_kafka_produce`; no poll | `produce`, `poll`, `dr_cb` |
| `Flushed` | wait while `run` | wait for the queue and the reports |
| `Signal` | clears `run`, closes `stdin` | clears `run` |
| `ConsumerStart`, `Consume`, `ConsumeError`, `ConsumerStop` | `run_consumer`; errors are printed | `main`, `msg_handle`; errors end it |
| `Deserialized`, `NotDeserialized` | `parse_msg`; nothing is printed on failure | `decode_and_print`; the raw bytes are |

The queue of librdkafka, the topic and what is printed are sets of messages: a
message may be sent again, be overtaken, or be read more than once (`Deliver`
and `AckLost` take any message of the queue, `Consume` any of the topic), since
several are in flight and the C++ producer leaves the partition to the
partitioner.  So no property says anything about the order of what is printed.

Three weaknesses are part of the model.  After a `schema: ` line that fails, a
`str: ` line passes a `NULL` schema to the serializer: `ppc = "crashed"`.  The
value of a line that fails early is never released: `AllHandedOver` says
which lines those are, and that there are no others.  And the signal handler of
the C client calls `fclose(stdin)`, which may be in use by `fgets` or, after an
earlier signal, be closed already: C does not define that, and the model takes
either outcome, that the program goes on (the blocked `fgets` then fails, as with
glibc) or crashes.

### Other modules

`SchemaCacheProofs.tla`, `SchemaCacheRefinement.tla`, `SchemaCacheQuiesced.tla`,
`RestReqProofs.tla`, `WireProofs.tla`, `SerdesConfProofs.tla`,
`CppWrapperProofs.tla` and `PipelineProofs.tla` hold the theorems.  `MC_SchemaCache.tla`, `MC_Wire.tla`, `MC_SerdesConf.tla`,
`MC_CppWrapper.tla` and `MC_Pipeline.tla` give the constants their values for
TLC.

## 3. Runs

| run | configuration | shows |
|---|---|---|
| `concurrent` | `SchemaCache_concurrent.cfg` | `TypeOK`, `ListIntegrity`, `NoOrphan`, `LookupStillCurrent`, `SingleFlight`, `AgreesWithRegistry`, `LockReleased` and the refinement `ImplementsStore` for an application without discipline |
| `quiesced` | `SchemaCache_quiesced.cfg` | with discipline: `NoUseAfterFree`, `TeardownFreesAll`, `PurgeSparesMarked` |
| `failover` | `RestReq_failover.cfg` | `TypeOK`, `BufferSafe`, `PayloadFromLastUrl`, `NoUrlTwice`, `FailoverReachesUp`, `ErrorSource`, `RequestEnds` |
| `wire_roundtrip` | `Wire_roundtrip.cfg` | `TypeOK`, `BufferHolds`, `QuerySuffices`, `OutIsMessages`, `RoundTrip` |
| `configuration` | `SerdesConf_configuration.cfg` | `TypeOK`, `ListsOwned`, `UrlsOfText`, `TmpUrlFits`, `LogReachesOwner` |
| `cpp_wrapper` | `CppWrapper_ownership.cfg` | `SharedUnlessRaced`, `HeldUsable`, `NoFreedAccess`, `NothingLeft` |
| `examples` | `Pipeline_examples.cfg` | `PrintedAsTyped`, `AllHandedOver`, `SignalEnds` |

Five runs are expected to fail; each checks a sentence of a header file that
the code does not keep:

| run | property | what TLC shows |
|---|---|---|
| `purge_unused` | `PurgeOnlyUnused` | `serdes_schema_get` does not stamp a schema it has fetched, so a purge destroys it at once (`serdes.h`: "that have not been used in `max_age` seconds") |
| `returned_usable` | `ReturnedSchemaUsable` | a purge or destroy between the unlock and the stamp leaves `get` with a freed schema (`serdes.h`: "fully loaded and immediately usable") |
| `identical_add` | `IdenticalDefinitionReturned` | a text with leading white space, or a string schema, is not found again, since the cache keeps the trimmed and wrapped text (`serdes.h`: "it will be returned instead") |
| `until_success` | `TriedUntilSuccess` | an HTTP error ends the request though other URLs are left (`rest.h`: "until one returns a succesful response") |
| `no_framing` | `NoFramingExpected` | `AvroImpl::deserialize` reads framing whatever schema it is given, so an unframed payload is refused (`serdescpp-avro.h`: "no framing is expected") |

Other sentences of the headers are not kept, without a run of their own.
`AvroImpl::serialize` returns the size of the vector, not "the number of bytes
written to 'out'" (`serdescpp-avro.h`, line 37); `CppSerialize` records the
returned size, and no property constrains it; `OutIsMessages` says where the messages
in the vector are.  `AvroImpl::deserialize` returns 0, not "the number of bytes
read" (line 53).  `Schema::add` always makes a new object (`serdescpp.h`, line 165),
see `CppWrapper`; and `Schema::add` by id ignores the definition it is given:
`CppWrapper` has it as an add of no definition, which fetches the schema and
inserts it a second time.

`PurgeSparesMarked` is what does hold of a purge: a schema that was stamped is
spared for `max_age` seconds, to the second.

### Bounds

`MaxCalls` (3, with discipline 4): two threads that race need two calls, and a
third destroys or purges what they share; the fourth lets a disciplined
application use the handle again after a purge.  `MaxIds` 2: one schema that
loads and one that does not.  The clock starts at `StartTime` 2, later than the
stamp 0 of a schema that was never stamped, and runs to 4, so that an age is below, at and above
the `max_age` of 1.  In `concurrent`
the clock has two values only and a purge takes whatever is older than the
present second.  The two threads are interchangeable (`SYMMETRY`, not used in
`concurrent`, which checks temporal properties).  `Requests` holds one call
for each path through `add0`: by id, by name, with neither, definitions to be
stored, with an id, not loadable, and missing; `quiesced` leaves out the two
that fail before they allocate anything.

`RestReq`: one to three URLs, so that the list wraps around with and without a
server between; `MaxRequests` 3, so that a request starts at every position;
`MaxBody` 5 with `IntMax` 7, so that the buffer grows by doubling and by
adding, up to the largest size and beyond it.

`Wire`: a byte has four values, so that an `int` (four bytes, 256 values) has
ids with four different digits (27) and negative ones (-2); the schema of the
first is a record, of the second bytes.  The buffer sizes are below, at and
above what the messages need; two messages in a vector (`MaxPacked`) show where
the second begins.  The payloads of other programs are too short, have a wrong
magic byte, an unknown id, the id -1, or a truncated value.

`SerdesConf`: all texts of up to four characters and of up to three behind a
prefix, which reach an empty element at the start, in the middle and at the end,
blanks, a user without password and the reverse; for these one object is enough
(`objs` 1).  A list of two URLs, whose second grows when it is escaped, goes
through every property with two objects; three objects at a time show copies of
copies.  Four objects, of an application that sets no URL, let one `ConfImpl`
make two handles: both then log through the trampoline, with the configuration
still there or deleted.  `MC_Bound` keeps that application from two URL
lists at a time, which the smaller ones have.

`CppWrapper`: two threads and two schemas, so that calls about one schema meet
calls about the same and about the other; the second schema is only got and
added.  `MaxImpls` 3 and `MaxPtrs` 3 let two objects of one schema exist, one be
deleted, and the schema be made once more.

`Pipeline`: three lines, so that a message under the first schema is queued when
the second is set and one under the second follows, with any of them repeated or
overtaken; two signals come before, in or behind the loop: one that ends the loop
and one that cuts the flush.

Programs may end, so `examples` does not check for deadlock; the other runs do.

### Fairness

`LockReleased` assumes weak fairness of each thread's steps inside the library:
the operating system schedules a runnable thread, and the steps `StoreOk`,
`StoreFail`, `FetchOk`, `FetchFail` say that a request ends.  It needs no
fairness of the lock: a thread that holds `sd_lock` never waits for anything
but the registry.  `RequestEnds` assumes weak fairness of `Step`: libcurl ends every
transfer (TCP and HTTP errors end it; the code sets no timeout of its own, so a
server that keeps a connection open without answering blocks the caller, and
with it every user of the handle).  A body is finite (`MaxBody`).
`SignalEnds` assumes that both programs are scheduled, that librdkafka delivers
or expires each message (`message.timeout.ms` is finite by default), and that
`fgets` fails once the signal handler has closed `stdin`.  It does not assume that
a request to the registry ends (`Requesting`; for the consumer the place `parse`),
nor that `getline` of the C++ producer returns (`Reading`): its handler only
clears `run`, and a signal that comes between the test of `run` and the read
leaves it blocked.  So the property is about a program that is in none of these
places, and says that it ends without getting into one of them for ever.

## 4. Proofs

### `SchemaCacheProofs`

For every set of threads, names, schemas, requests and every bound.  The proved
invariants are `TypeOK`, `ListIntegrity`, `NoOrphan`, `LookupStillCurrent`,
`SingleFlight` and `AgreesWithRegistry`, all from one inductive invariant
(theorem `Inductive`).  None of the properties is inductive alone.  What has to
be added, and why:

- a thread is in a locked region exactly when it owns `sd_lock`: so the schema
  under construction of one thread is not disturbed by another, and a miss
  stays a miss;
- what a thread in `fetch` or `store` builds: live, not linked, its id not chosen
  by the caller, and in `store` already loaded; without it nothing is known of
  what is linked at the end;
- an id of the registry keeps its schema: the registry only grows, so what was
  fetched once still agrees;
- no cached schema has the id `NoId` and none the text `NULL`, so that a
  lookup for them misses.

The proof has one lemma per action and, inside it, one step per conjunct that
the action can disturb.  `First` is a `CHOOSE` of a maximum; that a non-empty
set of positions has one is proved first.

### `SchemaCacheRefinement`

For the same constants, `CacheImplementsStore`: `Spec => ImplementsStore`.
`IInv` is strengthened by `RInv`: which call a thread is in at each point of the
code, that a schema to be stored is of the definition that the caller gave, and
that after `serdes_destroy` was called no thread is in another call.  Then every
action is a step of `SchemaStore` or none:

| steps of `SchemaCache` | step of `SchemaStore` |
|---|---|
| `Call`, `CallDestroy` | `Invoke` |
| `LookupHit` | `Find` |
| `Add0Assign`, `StoreOk`, `FetchOk` | `Insert`, with `Idle` for a `get` that fetched |
| `Add0Reject`, `StoreFail`, `FetchFail`, `serdes_schema_mark_used`, `PurgeEnd`, `TeardownEnd` | `Respond` |
| `serdes_schema_destroy`, `PurgeDestroy`, `TeardownNext` | `Remove` |
| all others | none |

`Insert` is the step where something could go wrong: that nothing in the store
answers the call is `MissInv`, which holds because `sd_lock` is kept across the
request; that the handle is still open follows from `AliveInv`.  `NothingIsLeft`
(`TeardownFreesAll`) follows from the same invariant and `NoOrphan`.

### `SchemaCacheQuiesced`

For the same constants with `Quiesce`, `NoUseAfterFree` and `PurgeSparesMarked`.
`QInv` says what the application's discipline keeps true: the pointers that it
holds, and those that calls hold outside `sd_lock`, are in the list, and an
exclusive call is alone.  `StampInv` says that a stamp is the time of the last
return, that a purge's limit is `max_age` behind the clock, and that the schema
it is about to destroy was older when it was compared, which stays true because
nobody stamps meanwhile.  Both need `Quiesce`: a stamp is written without
`sd_lock`, and the run `returned_usable` shows a purge or destroy getting in
before it.

### `RestReqProofs`

For every number of URLs, every bound and every set of status codes:
`TypeOK`, `BufferSafe`, `PayloadFromLastUrl`, `NoUrlTwice`,
`FailoverReachesUp` and `ErrorSource`.  The inductive invariant relates the set
of URLs tried to the arc from `start_idx` to `idx` around the list
(`Passed`), and says that none of them but the current one is up; and that an
attempt begins without an error string.  `BufferSafe` needs no bound on a body:
the buffer is grown only if the length behind the piece is larger than its size,
so the size doubled, or the size and the piece, are at most twice that
length.  It follows that `int` is left only when the answer itself has more
bytes than half of `IntMax`.

### `WireProofs`

For bytes of every size, all ids that an `int` can hold, all values, encodings
and buffer sizes: `TypeOK`, `BufferHolds`, `QuerySuffices`, `OutIsMessages` and
`RoundTrip`.  The argument has three layers: `IdRoundTrip`, that the four digits
of the remainder of a signed number give the number back; `MessageParts` and
`FramingRead`, that framing, id and value are found again in the sequence they
were put together to; and the inductive invariant, which adds to the properties
that the message sent is the one its producer made, that the size answered is
the size required, and that the places of the messages lie in the vector (so
that appending does not move them).

### `SerdesConfProofs`

For every application, every text as list of URLs, every value and any number of
objects: `TypeOK`, `ListsOwned`, `UrlsOfText`, `TmpUrlFits` and
`LogReachesOwner`.  The proof has three layers.

1. The parser.  `PiecesAreElements`: the loop of `url_list_parse` finds exactly
   the elements of the reference definition, for a text of any length.  The loop
   goes from comma to comma; the reference counts the commas before a place.
   That the *n*-th turn begins behind the *n* - 1st comma, and that no turn begins
   behind the last one, goes by induction on the places.  `Encoded` and
   `UrlLenBound` say of each URL what `url_encode` keeps, and that the part
   without slashes at its end is no longer than `max_len`.
2. The functions.  `Heap(m, o, S, l)`: the live lists of `m` are those of the
   objects `S` of `o`, one each at most, and `l`, a list in no object yet or in
   none any more; each is what `url_list_parse` makes of a text of the
   application.  Every function of `serdes.c` is an allocation, a hand-over or a
   free in these terms, and the parameter `l` is what makes their steps compose:
   `serdes_conf_set` frees the old list before there is a new one, and
   `serdes_conf_new` goes on after each property.  The loop over the arguments
   is again an induction.
3. The steps.  `IInv` is `Heap` with `l` = 0, and `Objects`: the C application
   owns live objects; each `ConfImpl` and `HandleImpl` holds a live object of its
   own kind, which no other holds and the application does not own; and whatever
   logs through the trampoline is a handle whose opaque pointer leads to the
   `HandleImpl` that holds it.  `LogReachesOwner` alone is not inductive: if a
   configuration could log through the trampoline, or two C++ objects hold one
   handle, the next copy or delete would break it.

Induction over data is possible here although the library's induction theorems
take an operator: `WFMin`, on which they rest, takes none, and from it and the
well-foundedness of `<` follow a least number of a set (`LeastNat`), induction
for a set (`NatSetInduction`), and that a function defined step by step exists
(`StepwiseExists`).  What a recursive function computes is then proved of the
function that its `CHOOSE` finds.

### `CppWrapperProofs`

For any set of threads, schemas and requests and every bound:
`SharedUnlessRaced`, `HeldUsable`, `NoFreedAccess` and `NothingLeft`.  The
inductive invariant is `careful => Good`: nothing is claimed of an application
that has broken a rule, and no step of a careful one leaves `Good`, however its
gets, adds and deserializations overlap.  `Good` says:

- where each thread is and that the schema it has in hand is in the cache
  (`PhaseInv`); in particular the one whose id `AvroImpl::deserialize` is about
  to read;
- while an object is being deleted nobody else is busy with its schema
  (`ApartInv`): rule 1 makes it so, and nothing in the library does;
- two threads behind the C call of `schema_get` with one schema are a race that
  has been recorded (`SoloInv`); elsewhere what a thread has read of the opaque
  pointer is still so when it writes it (`CallInv`), and the object that
  `schema_get` made is the only such one (`SharedInv`);
- what is held exists, with its schema, and an opaque pointer leads to an
  object of its schema that exists, also after a race (`HeldInv`);
- a purge and the end of the handle are alone (`AloneInv`).

That `TouchFreed` cannot happen from `Good` is one of the steps.

### `PipelineProofs`

For every set of schemas and programs, any number of lines, messages, signals
and repeated messages: `PrintedAsTyped` and `AllHandedOver`.  `ForceIn(typed, i)`, the
schema in force at line *i*, is a `CHOOSE` of the last schema line before it;
that there is one, and that a line appended later does not change it, comes
first.  The inductive invariant carries the schema of each message from the
line through the queue and the topic to the printed output (`MessageInv`).
Nothing is said of the order of messages, so nothing depends on it.
`SettledInv` says that a message handed over is in the
queue until it is settled, and that nothing else empties the queue but the end
of the C client's flush.

### Assumptions

The constants are assumed to be what the code is given, in `CacheAssumption`,
`RestAssumption`, `WireAssumption`, `ConfAssumption`, `NullAssumption`,
`WrapperAssumption` and `PipelineAssumption`; TLC evaluates each of them on
every run of its module.  Two say more than a type:

- `ConfAssumption`: the prefix `http://` only begins a URL, and the other property
  of an application is not `schema.registry.url` a second time;
- `WrapperAssumption`: the id of a request, or its definition, belongs to the
  schema that the request is about, which is to say that the registry never
  gives an id to two schemas.

### Only model-checked

The liveness properties `LockReleased`, `RequestEnds` and `SignalEnds`, since
temporal reasoning under fairness needs `ENABLED`, which the prover does not
expand; and the five violations.  Every invariant and every safety property that
a passing run checks is proved as well.

## 5. Not modelled

Wording of error messages and logs; `ss_lock` (held around one assignment);
memory exhaustion (the code does not check `malloc`); JSON reference counts; the
Avro encoding; HTTP headers and the path behind a URL; byte-level texts.
Vendored TinyCThread is taken to implement a mutex, and its `call_once` to run
`curl_global_init` before the first request.  Of the examples: the query mode
`-Q` of the C client and `serdes-tool.cpp`, which make one call and exit; the
options, which only decide whether the start-up ends in `FATAL`; JSON.  The
Schema Registry, librdkafka, libcurl, avro-c and avro-cpp are external and
appear only as far as the code sees them.

## 6. Plan

What is left, in this order:

1. A composition of `SchemaCache` with `RestReq` in which the URL index is
   shared, and `Wire` on top of the cache, so that a lookup fails exactly when
   the cache and the registry make it fail.
2. Lemmas about parts of the model that no invariant needs yet: that
   `url_list_parse` of a list's own text gives the same list again for every
   text, which is what a copy relies on, stated for `serdes_conf_copy0` itself.
3. Runs for the return values of `AvroImpl::serialize` and `deserialize` and for
   the object that `Schema::add` returns, against the headers.

# Verification of the GLS webhook pipeline

TLA+ modules of the webhook ingestion and normalisation service in `src/app`,
TLC configurations that check them on small instances, and proofs for every
value of the constants that TLAPS checks. Definitions keep the names of the
source; `PROJECT.json` maps each of them to the lines it stands for.

## 1. The system

A vendor POSTs arbitrary JSON. The receiver stores it and enqueues its id. A
worker reads the stored payload, makes a canonical event of it (by a learned
schema, or by asking a language model) and applies it to the projection of a
shipment or an invoice.

| Component | State | Operations | Talks to |
|---|---|---|---|
| Receiver `api/receiver.py` | none of its own; writes `raw_events` | `_ingest`: check, INSERT, enqueue, 202 | Postgres, Redis |
| Queue `queue.py`, Redis, arq | job keys, in-progress keys, kept results, retry counters | `enqueue_process`; pick, finish, retry, expire | receiver, worker, replay |
| Job `workers/processor.py` | job slots | `process_webhook`, `_mark_failed`, `shutdown` | queue, pipeline |
| Pipeline `workers/pipeline.py` | `canonical_events`, `raw_events.processing_status`, `requires_human_review` | `process_event` (Path A, Path B), `_finalize`, `_mark_review`, `_mark_pending_llm` | all below |
| State machine `domain/state_machine.py`, `domain/canonical.py` | `entities`, `applied_events`, `shipments`, `invoices`, `stale_event_log` | `apply_event` | Postgres |
| LLM orchestration `llm/fallback.py` | `llm_cache`, `llm_audit` | `classify_extract`, `classify_event_type`, `BudgetGuard.allow` | provider, Postgres |
| Schema learning `adapters/registry.py`, `schema_discoverer.py`, `schema_driven.py` | `vendor_schemas`, `vendor_event_type_map` | look up, execute, discover, persist | pipeline, Postgres |
| Replay `tools/replay.py` | none; resets everything derived | `truncate`, select, enqueue or process inline | Postgres, queue, pipeline |
| Pure functions: normaliser, fingerprint, hashing, parsers | none | `normalize`, `structural_fingerprint`, `llm_cache_key`, `parse_money`, `parse_timestamp` | pipeline |
| Migrations, seed, configuration, HTTP application, logging, metrics | start-up only | | |

What is hard here, and what must be true all the same:

- **Several workers, one entity.** `apply_event` is up to nine statements under
  READ COMMITTED. Events of one entity must be applied as if one after the
  other; none may be lost or counted twice; a lost creation race must leave the
  loser with the winner's row.
- **At-least-once delivery.** The vendor retries, arq retries, an operator
  replays: the same event is processed again, also with another reading.
- **Crashes anywhere**, between the INSERT and the enqueue, in the transaction,
  between job and acknowledgement; jobs cancelled by `job_timeout`; Redis losing
  its data.
- **`TRUNCATE` of seven tables** while workers hold and want some of them.
- **Check, then act, then record** in the LLM budget and the LLM cache, over
  tables that all workers share.
- **Orders that nobody chose**: late events, events of one instant, replays in
  the order of reception.
- **State that outlives an attempt**: schemas, meanings, cached answers and the
  vendor of an event decide how the next attempt reads it, also after a replay
  has wiped everything else.
- **Numbers in vendors' notations**: signs, thousands, decimals, currencies.

`PROJECT.json` lists these hazards one by one with their lines, and the
properties that would catch each going wrong.

## 2. Modules

| Module | Models | Role |
|---|---|---|
| `Canonical` | the enumerations of canonical events | shared by all that read events |
| `StateMachine` | canonical events, transition tables, the two guards, the rows written | pure operators |
| `Tables` | the committed tables and what must be true of them | shared by the next two |
| `Projections` | one atomic step per processed event | abstract specification |
| `ApplyEvent` | `_finalize` and `apply_event` statement by statement, `_mark_*`, `truncate`, Postgres locks | detailed specification |
| `Delivery` | receiver, Redis and arq, job, replay tool | component |
| `LLMFallback` | cache, budget, retry, audit of the LLM calls | component |
| `Extraction` | shape of a payload, execution and inference of schemas, canonical event of an answer | pure operators |
| `Registry` | `vendor_schemas` and `vendor_event_type_map`: one atomic step per lesson or decision | abstract specification |
| `Pipeline` | `process_event` with Path A, Path B, discovery and the vendor override | detailed specification |
| `Service` | the whole worker: `Pipeline` feeding `Projections`, with replays | composition |
| `Money` | `parse_money` and what the extraction and the normaliser make of it | pure operators |
| `MCApplyEvent`, `MCDelivery`, `MCLLMFallback`, `MCPipeline`, `MCService`, `MCMoney` | small instances | for TLC |
| `InductionLemmas` | induction over sequences, what `FoldLeft` computes | lemmas for TLAPS |
| `Projections_proofs`, `ApplyEvent_proofs`, `Delivery_proofs`, `LLMFallback_proofs`, `Pipeline_proofs`, `Service_proofs`, `Money_proofs` | theorems | for TLAPS |

The components are cut along the calls of the code. `Delivery` runs a job and takes
what the pipeline does with its event as one step; `Pipeline` is that step, with
the closing transaction as one step of its own, whose statements are in
`ApplyEvent`; a call of the model is one step of `Pipeline`, whose inside is in
`LLMFallback`. `Service` puts the attempts of `Pipeline` and the transactions of
`Projections` together.

### ApplyEvent and Projections

`ApplyEvent` has a program counter per worker whose value is the next SQL
statement. The tables hold committed data only. What a transaction has inserted
and not committed is in `wrote`, its projection row lock in `row_lock`, its
table locks in `locks`, the row that `FOR UPDATE` gave it in `existing`, and
`new_row` and `outcome` are what its commit will write. `Blockers(w)` says who
keeps the next statement of `w` waiting: another transaction with the same
canonical event, the same uncommitted unique-index entry or the locked row, or
the truncation that has or queues for the table. A statement that waited sees
what was committed meanwhile; a statement that takes no lock sees the last
commit. `Raise` and `Crash` may happen at every statement.

An entity is identified by its type and a *key*, which stands for
(`vendor_id`, `external_id`). `Readings` are the canonical events extraction may
return for the events; an event with several readings is one that a later
attempt reads otherwise. `Unreadable` are events that may end in review, pending
or failed. The columns that no guard reads (references, location, amount,
confidence, ...) are left out. Versions are unbounded integers: the INTEGER
column overflows after 2^31 events of one entity.

`Projections` is the same processing as one step. `Serializable` is its
specification, checked as a property of `ApplyEvent` (the tables are the same
variables, so the refinement mapping is the identity) and proved.

### Delivery

`raw_events` is the truth and Redis a pointer to it that can be lost. One
process per HTTP request, per arq job slot and for the replay tool. arq is
external: a job id is refused while its job or its kept result exists
(`EnqueueJob`); a slot takes a lease (`in_progress`) that outlives
`job_timeout`; a job whose slot died runs again, `max_tries` times; a job that
returned, raised or timed out is over (`FinishJob`). What the pipeline does with
an event is one step here. Rejections of the receiver (400, 401, 413) change
nothing. The order in which a replay takes its events is left open. The expiry
of a job key after a day is left out. Each kind of mishap is counted in
`happened` and may happen `Limit` times.

### LLMFallback

One process per worker; each database statement and each provider call is a
step, since no transaction spans them. A request stands for its cache key (kind,
vendor hint, payload), so two events with equal payloads are one request. Of
`llm_audit` the aggregates the code reads are kept (the day's sums, total and
per vendor) with the number of `'llm'` rows of each request. The audit row of a
cache hit counts for nothing and is left out. What the audit rows do not show are
the calls themselves: the provider is paid for one whose answer is rejected, too, or
whose worker dies before `_cache_set`. `asked` counts the calls sent for a request,
`lost` those of them that came to nothing; no action reads them but for the bound
`MaxLost`. Costs are in units of 0.0002 USD, so the two estimates of the code are 5
and 1. `MayCrash` lets a call end by an exception or a cancellation at any step.

### Pipeline and Registry

`Pipeline` has a program counter per worker whose value is the next database
statement or model call of `process_event`; no transaction spans them, so workers
interleave between any two. `schema_match`, `mapping`, `answer` and `canonical` are
the locals of an attempt. The model gives any answer of `Answers[e]` for an event
and any of `TypeAnswers` for a raw event type. During the attempts of the events in
`Flaky` it may also refuse, discovery may raise, and a worker may die at every step.

A payload is a function from the *addresses* of its leaves to the leaves. An address
is a sequence of keys, a key a sequence of names, which its dots separate. The code
knows leaves by *paths* such as `$.a.b`: `PathOf` writes an address down as
`_find_value_path` does, its names with no trace of where a key ends, and `ParsePath`
reads a path back as `_parse_path` does, each name for a key. For keys without dots
the one undoes the other (lemma `PlainPath`), for others not. A leaf has the text
that `str()` makes of it and its truth: discovery compares texts (`Places`), extraction
takes a falsy leaf (`0`, `False`) for missing (`Resolve`). A payload without dots in its
keys and without falsy leaves that have a text is `Plain`. The fingerprint is the set
of the paths of objects and leaves.

A text is a sequence of words and separators, so that the
id of an entity can be composed: `ResolveTemplate` and `InferTemplate` split and
join it as the code does, `Validates` accepts an id that contains the other one.
White space around a text is nothing. The timestamp of a canonical event is what
`instant` says of its text (`parse_timestamp`), and `SameDate` says which texts show
the date of an answer (`_find_timestamp_path`); `Addresses` lists the addresses in the
order in which the code prefers their paths, `TimePaths` the paths whose last name is
that of a time.
Of a canonical event `Extraction` keeps classification, vendor, external id, type and
instant. An answer may pass the JSON schema and make no canonical event: it goes to
review, and stays in the cache. What people do by SQL (review an event type, activate
or deprecate a schema) is external: no code in `src/` writes those columns.
`llm_type_writes` counts how often an answer about a raw event type was stored and is
read by no action. The success and failure counters, which nothing reads, are left out.

`Registry` says what the two tables promise: a worker writes only what explains an
event it has seen, and never over a person's decision. `RegistryKept` is its
specification, a property of `Pipeline`, checked and proved.

### Service

`Service` extends `Pipeline` with the tables of `Projections`. `Close` is `Finalize`
of the one and `Process` of the other on the same event, in one step: `ApplyEvent`
shows that the transaction takes effect at one instant. `Replay` truncates what
`replay.py` truncates; the registry, the cache and `raw_events.vendor_id` stay, and
the attempts that follow are attempts like all others. `Identified` is the canonical
event after `normalize`: the texts and instants of `Extraction` are as it leaves
them. `finalized` is the log of the canonical events applied since the last truncation,
`before` what that truncation wiped: history for the properties and for the bound
`MaxFinalized`. `Explanations(e)` are the canonical events that event `e` may be
read as: what the model may answer for its payload, or what a schema learned from an
event *of its shape* reads in it, for the vendor that sent it.
`ProjectionsExplained` is the specification of `Projections` with these as the
readings: the constant `Readings`, which an instance writes out and
`ReadingsAssumption` compares with the explanations.

### Money

The only module in which a text is its characters: signs and separators are what can
go wrong. A currency code is one symbol, since only its neighbours matter. `text` is
any text over `Chars` up to `MaxLength`, built character by character, so an instance
checks every one of them. The amount is a set with one member, or none where the
code raises.

## 3. What is checked

Passing runs (TLC; each takes from seconds to two and a half minutes):

| Run | Instance | Shows |
|---|---|---|
| `shipments` | 2 workers, 3 events of one shipment, 2 keys, timestamps 1..3; events late, of one instant, read as another shipment or unclassified; truncation | `TypeOK`, `Accounting`, `Referential`, `TransactionInv`, `NoAssertionFails`, `NoWaitCycle`, `NeverBackward`, `Serializable` |
| `invoices` | 2 workers, 2 events: issued, issued again, unreadable; truncation, fair | `CanonicalApplied`, `EveryAttemptEnds` |
| `mishaps` | 1 event, 2 requests, 2 slots, `max_tries` 2, each mishap once, every kind of replay | `TypeOK`, `Durable`, `OneRunner`, `NothingStranded` |
| `recovery` | 1 event, 2 slots, `max_tries` 1, every loss once, an operator who replays | `Recovered`, `DeferredTriedAgain` |
| `llm_calls` | 2 workers, 2 extractions and 1 event type of 2 vendors, costs 3 and 8, caps 12 and 9, 2 lost calls for each request, failures, midnight | `TypeOK`, `OvershootBounded`, `AskedBounded` |
| `learning` | 2 workers, 2 events of one shape with one word for the event type, two meanings of it, people, failures | `TypeOK`, `KnownVendorKept`, `ClassifiedOnceEach`, `SchemaReadsItsSource`, `RegistryKept` |
| `service` | 2 workers, 2 events of one shipment in 2 shapes, a simple and a composed id, one vendor by URL and one by inference; 2 transactions before the last attempt begins, people, failures, one truncation | `ServiceTypeOK`, `OneEntity`, `SameEventsSameProjections`, `ProjectionsExplained` |
| `amounts` | all texts of up to 7 characters of `-`, `.`, `,`, `0`, `5` | `ReadsItsDigits`, `DebitRefused` |

Why these bounds are enough to meet the interesting cases: two workers race for every
row, and make a waiting circle possible with the truncation as a third party. The events
of one entity meet every guard (first, later, older, same instant, disallowed,
repeated), and a second reading of an event names another entity. With `max_tries` 2 a
job is retried once; with 1 `GiveUp` is reached by a single crash. Two LLM workers that
pass the guard together exceed the caps by two calls of cost 8, both miss the cache
together, and two lost calls are enough for a rejected answer and its retry, or a crash
in each worker, before an answer is cached. In `learning` the id stands in a leaf of the
first payload that the second leaves blank, so a schema learned from the one fails on
the other, which teaches a template of its two parts; the model misses the vendor, the
word or the classification. In `service` the id of one event is a part of the id of the
other's composite, so a schema applied to the wrong shape reads an id and reads it
wrongly, and each attempt may take either path before and after the truncation. Seven
characters hold a sign, a group of three digits between two separators, and a fraction.
An answer that makes no canonical event occurs in no run; the proofs cover it. `service`
and `amounts` end by their bounds (`CHECK_DEADLOCK FALSE`): no attempt begins after
`MaxFinalized` transactions, no text grows beyond `MaxLength`. Interchangeable workers,
slots, requests and events are declared symmetric, never in the liveness runs. The
theorems of section 5 have no bounds.

What the runs say of each other's hazards:

- `Accounting` balances the version of a projection and its stale log against
  `applied_events`; a lost update, a double one or a half-committed one
  unbalances it.
- `TransactionInv` is the reason why it holds: what a transaction has read or
  inserted is still true when it commits.
- `NothingStranded` says who is responsible for each queued event at each moment.
  It holds only while workers are all that fails: without an outbox, a receiver
  that dies after its INSERT strands an event, which the README of the service
  concedes. `Recovered` is the other half: whatever was lost, an operator who
  goes on replaying gets every event out.
- `OvershootBounded` is what the budget guard does promise when calls overlap, of the
  audited cost. `AskedBounded` counts what is paid: the calls to the provider. The
  cache keeps them to one of each worker and one more for every answer that is rejected
  or lost before it is cached; of those there may be any number.
- `RegistryKept` and `ClassifiedOnceEach` are the same for the registry: workers
  may learn twice, and from different events, but what is stored reads its event,
  and a person has the last word.
- `SchemaReadsItsSource` is the round trip of discovery and extraction: the id, the
  time and the word for the event that the model named are what the stored schema
  reads in the payload it comes from, if that is `Plain`. `_validate_schema` does not
  see to the id, for it accepts one that contains the other. Exactly is not true: an
  id composed of leaves loses the colons and dashes at its ends. Nor is it true of
  other payloads: of `{"bl.number": "MBL1", "container": "C1"}` with id `MBL1:C1` a
  schema is stored that reads `C1`, and so is one for id `BL1-0` whose second part is
  the number 0 and that reads `BL1`. `SameExtraction` is the property without that
  premise; the run `dotted` shows it violated.
- `DeferredTriedAgain` says the same of events the budget guard has deferred: the
  code takes none of them up, an operator who replays does, even though the kept
  result of the deferral refuses the first try.
- `ProjectionsExplained` and `OneEntity` connect both halves of the worker: no
  race about a schema, a meaning, a cached answer or the vendor column makes an
  event count for what its payload does not say, or count twice. `OneEntity` asks
  for a known vendor; of vendor `unknown` the code promises nothing (`identity`).
- `SameEventsSameProjections` is what event sourcing rests on: after a truncation
  nothing but the log of finalized events decides what the tables become. In `service`
  the logs that are compared have one event (three transactions in all); the theorem
  is about logs of any length.
- `ReadsItsDigits` states `parse_money` without its cases: digits, moved by the
  places behind the last separator. `DebitRefused` is what is left of the rule that
  amounts are not negative.

### Disagreements between code and documentation

Four runs check a sentence of a comment, docstring or test, and TLC finds the code
violate it. Each is a finding in `PROJECT.json`.

| Run | Sentence | What happens |
|---|---|---|
| `llm_audit` | `fallback.py:15` "Every call ... writes one audit row" | rejected answers and event type calls leave none |
| `identity` | `pipeline.py:328` "entity identity stability across Path A and Path B" | events of one shipment of an unknown vendor become two entities |
| `replayed` | `tests/test_replay.py:1` "Replay-from-raw_events must yield byte-identical projections" | the event that taught a schema is read by that schema when it is replayed, at another time |
| `dotted` | `schema_discoverer.py:14` "if it produces the same extraction, the schema is correct" | a schema is stored that reads a part of the id, since a key of the payload has a dot |

How the two entities of `identity` come about: while the vendor is `unknown`,
`_finalize` keeps the vendor the model named, but the schema learned from the same
answer is stored for vendor `unknown`, and reads the next event of its shape as one
of vendor `unknown`.

What goes wrong in `dotted`: `_find_value_path` writes the leaf of a key `bl.mbl` down
as `$.bl.mbl`, `_parse_path` takes that for two keys, the template drops the part it
does not find, and `_validate_schema` lets the rest of the id pass, since it is
contained in the id. All later events of that shape and vendor are read so: shipments
that differ only in the lost part become one.

How the replay of `replayed` differs: `_find_timestamp_path` looks for a time on the
date of the answer and prefers a key that names a time, `_validate_schema` compares
ids only. The payload shows two times on that date; the model took one, the schema
takes the other. The test replays events whose schemas are known before. What does hold
is `SameEventsSameProjections`: where the replay reads the events as they were read
before, and finalizes them in the same order, it rebuilds the same tables.

Met while modelling, and not made a run because no property of the code is at
stake beyond what the model shows directly:

- The comment at `state_machine.py:208` describes a no-op transition that records
  "timestamp / refs only"; the guard at lines 197-206 has rejected that event, so
  the branch is dead (invoices do accept it, lines 326-327).
- `replay --mode enqueue` pushes nothing for an event whose job result is still
  kept, for 30 s (`processor.py:85`, `queue.py:57`): with `--truncate-projections`
  the event stays queued with empty projections until the next replay.
- A schema may be persisted without the path of the event type; every event of its
  shape then finds it, gives up on it and asks the model (`pipeline.py:211`),
  although `schema_discoverer.py:7-8` promises Path A for all of them.
- A template resolves with a part missing, which a test intends: such an event is
  applied to an entity with a shorter id. Only `:` and `-` are stripped at the ends,
  not `_` and `/`.
- A currency code next to a digit is not found (`parsers.py:85` has a word boundary on
  either side): `EUR24.350,75` is stored in USD, although `parsers.py:71-72` says that
  the code is extracted. `Currency` models it.
- `-0.50` is stored as 50 and `1.-5` as 95: `int("-0")` has no sign, and the dash
  survives the filter that the docstring of `parse_money` says drops it (step 2).
  Other negative amounts are refused by `Money` and dropped.
- An id of white space only passes Path A (`str(val) if val`), and `normalize`
  makes it empty without raising; `NormalizationError` is raised for no event that
  can reach it. White space is left out of the model.
- The comment in `_find_money_path` prefers the shortest path; the code takes the
  first in document order.
- `migrate.py` wraps a file in a transaction, which the file's own COMMIT ends: a
  crash before the row in `schema_migrations` makes the next start apply the file
  again, and `004` fails on its existing constraints.
- A job that raised is over: arq retries only what was interrupted, and there is no
  dead-letter queue, although `processor.py:5` lists "retry + DLQ".
- An event deferred by the budget guard stays `pending_llm` until somebody replays
  it (`base.py:26`: "should be retried later").
- Calls that overlap pass the budget cap together, which `fallback.py:78` calls
  exact across processes, and misses that overlap are all paid for; `OvershootBounded`
  and `AskedBounded` say by how much. The loser of the race to the cache goes on
  with its own answer.
- The vendor `_finalize` stores for an event of vendor `unknown` makes a later attempt
  at it start elsewhere: its schema lookup and its cache key are different ones, and
  it may be applied to a second entity, once for each.
- After a person has deprecated a schema, the discovery of its shape fails
  without a word: the upsert returns no row, `row["id"]` raises, the caller
  swallows it. Each event of the shape goes to the model.
- An answer that passes the JSON schema and makes no canonical event is cached
  for good: its payload goes to review at every attempt.

## 4. Fairness

- `ApplyEvent!FairSpec`: strong fairness of a worker's next statement and of
  TRUNCATE's next lock, weak fairness of its commit. Postgres queues lock waiters
  in order, so a statement that can run again and again does run; a process that
  is scheduled takes its next step. Nobody has to start, fail or crash.
- `Delivery!Fairness`: a request that was received is carried on; Redis keys
  expire; an idle slot polls, and each job is picked if it can be again and again
  (arq reads its queue by score); `job_timeout` bounds `process_event`. Mishaps
  are never forced.
- `Delivery!Recovery`: the operator replays all events in enqueue mode now and
  then. The code does not do that by itself: it is the remedy the service's
  README prescribes ("Queue loss = re-enqueue from DB", "replay tool recovers
  them"), and `Recovered` and `DeferredTriedAgain` are claimed under this assumption
  only.

## 5. What is proved

All proofs are checked by TLAPS for any sets of events, keys, workers, readings,
requests and slots, any payloads, answers, timestamps, tries, limits, costs and budgets.
Assumed of the constants is only what the ASSUMEs of the modules say: readings are
canonical events, answers fit the JSON schema, ids are texts, instants are integers,
payloads have leaves at addresses and nothing below a leaf, no path of a leaf is read as
leading to an object (`TreeAssumption`), `MaxTries` is positive, the workers of
`LLMFallback` and `Pipeline` are finitely many, costs are bounded, `NoRow` and `None`
are no values of the program.

**ApplyEvent.** `ConcurrentInv` is the inductive invariant: the transaction types, the
serial invariant of the tables, `TransactionInv` and what else it rests on.
`TransactionInv` is needed because the decision of a worker is taken statements before
its effect: it says of each program counter which earlier reads are still true. Its
preservation is proved action by action, for the acting worker and for the others; the
case of the truncation uses that a transaction holds `canonical_events`, the first table
that it shares with TRUNCATE, so the two never overlap in their middle. From it, the
commit of each transaction is a step of `Projections` (`Serializability`), and
`Accounting`, `Referential`, `CanonicalApplied` and `NeverBackward` follow from the
proofs about the serial specification (`SerialInvariant`, `SerialNeverBackward`), which
do not mention concurrency at all. `DeadlockFreedom`: every waiting process has a rank,
the position of what it waits for in the common lock order, and whoever blocks it has a
higher one; a circle would have no highest rank.

**Delivery.** `DeliveryInv` has four parts besides the types: `HeldRows` (every
pointer, wherever it is, points to a row), `Leased` (a running job has its key and
its lease, and only one slot, while Redis keeps its data), `Counted` (a job has
been tried no more often than workers crashed, plus the try that is running, so
the counter cannot run out before the crashes do) and `Settled` (a slot that is
about to finish has settled its event). `NothingStranded` needs all of them.

**LLMFallback.** `LedgerInv` adds to the types what a call in flight stands for.
`Reserved`: the audited sum plus the highest cost of each call in flight stays
within the cap plus one call per worker; the guard reserves, the audit row spends
what was reserved, midnight only lowers the sum. `Accounted`: until an answer to
a request is cached, every call for it is lost, or its answer is awaited or held by the
worker that sent it; and at any time the calls that are not lost and the workers that
have missed the cache and not called yet are together no more than the workers, since
nobody misses once an answer is cached. The second half gives `CallsBounded`.

**Pipeline.** `PipelineInv` adds to the types, for each worker, what its place in
`process_event` says of its locals (`AttemptOK`: which of them are set, that the attempt
goes by the event's vendor where that is known, and that the answer it learns from is
one for its own event), and `WritesBounded`: the stored answers about an event type and
the workers that are about to store one never exceed the workers, since nobody asks once
the map has a row. `KnownVendorKept` is part of the invariant as it stands: the column
and the attempt protect each other. `PipelineImplementsRegistry` maps each step to a
lesson, a decision or a stutter; it needs `AttemptOK` for the writes of the discovery,
whose answer must still be one for the event that is being processed.

`SchemasReadTheirSources` is shown of the registry, which the workers implement. That a
schema belongs to the shape of its source holds of every payload, that it reads it as
the model did of every `Plain` one. What the second half needs is `LessonReads`, about
the pure operators: the path of an address, read back, is the address (`PlainPath`, by
induction over its keys), so a value is read where it was found (`PlaceIsRead`,
`FoundIsRead`); and `SplitJoins`: split at any separator and joined again, a text of any
length is what it was. Both `Split` and `Join` are folds, so the lemmas of
`InductionLemmas` say what one character or one part more does to them, and `SplitLed`
is an induction over the text (the parts with a separator before each are the text with
one before it).

**Service.** `ExplainInv` says what all that outlives an attempt knows: every schema was
learned from an event of its shape (`RegistryLearned`), every cached answer is one for
its own event (`CacheAnswers`), the vendor column holds a vendor the event may be given
to (`VendorColumn`), and an attempt that is about to close holds an explanation of its
event (`AttemptExplained`). With `PipelineInv` it is inductive, action by action, and a
replay keeps it since it touches none of these. Then `Close` is a step of `Projections`
over the explanations (`OnlyExplainedEventsApplied`). `OneEntity` is not inductive;
`ObservedExplained` is: whatever an entity has observed, it is the entity of one of that
event's explanations. `ServiceTypeInvariant` takes the types and the balance of the
tables from `Projections_proofs`, instantiated with the keys and readings of `Service`;
so does `ServiceKeepsTables` the rest of what is proved there, the agreement of the
tables and `NeverBackward` included. `ServiceKeepsPipeline` says the same of the
workers: a step of the composition other than a replay is one of `Pipeline`, and a
replay, which is not, touches neither the registry, nor the vendor column, nor the
answers that `RegistryKept`, `SchemaReadsItsSource` (with its premise),
`KnownVendorKept` and `ClassifiedOnceEach` are about. `ReplayIsDeterministic` is about
two runs of the log, the one that was wiped and the one that rebuilds it, of any length,
with any attempts in flight at the truncation. Neither can be followed step by step
beside the other, so the invariant `ProjectionsFolded` says of each by itself that the
tables are the fold of its log: `After` is the function that the disjuncts of `Process`
add up to (`ProcessIsAfter`: no two of them, and no two rows, are possible at once),
`FoldsOn` carries the fold on by one event, and `FoldsToOne` says that a log has one
outcome.

**Money.** The properties are about folds over a text of any length, so the proofs are
by induction over sequences. The library states induction for a predicate, which the
provers cannot instantiate; `InductionLemmas` states it for a *set*: one that has the
empty sequence and with a sequence each longer one has all of them (`SeqSetInduction`,
from the well-foundedness of `<`). What `FoldLeft` computes is defined by a `CHOOSE` of
a function on the subsets of the indices; `FoldFcnExists` and `FoldFcnFolds` show that
it exists and what it is on the first n of them, `FoldsOn`, `FoldsToOne` and
`FoldsToAppend` what one element more does. From that follow the recursions of
`NumberOf` and of `Only`, and the algebra of filters: of a part, of a filtered text, of
two texts in a row. A text then either has no separator or is its last one with a text
on each side (`SplitExists`), what `parse_money` finds are those two
(`SplitDecimalPos`), and the digits that `Places` counts by their positions are the
digits of the second (`BehindSplit`). `AmountReadsItsDigits` goes through the three
cases of the code; `DebitsAreRefused` uses that a fraction is 99 at most, even one with
a dash of its own ("1,-5"), and that the digits before the fraction are those of the
integer part.

**Only model-checked:** liveness (`EveryAttemptEnds`, `Recovered`,
`DeferredTriedAgain`), for temporal proofs with fairness are out of the prover's
reach. The violation runs are counterexamples and need no proof.

## 6. What is not modelled

- The data columns that no guard reads (references, location, due date, confidence)
  and their normalisation; leaf types in fingerprints, arrays, and keys with brackets,
  braces or empty names; payloads with a key `a.b` beside an object `a` that has an object
  `b`, where a path of a leaf leads to an object; schema versions, of which the code
  writes only the first.
- Several workers in one database transaction of `Service`: that is `ApplyEvent`, whose
  readings are any set, hence also those of `Service`.
- What a status written late overwrites (`review`, `failed` or `pending_llm` after
  `processed`), and review rows that outlive a success: the statements are modelled,
  but nothing reads these columns to decide, and the code promises nothing of them.
- The rejections of the receiver, signatures, connection pools, migrations, seed
  data, health checks, logging, metrics: they keep no state the properties speak of.
- SHA-256 (a request is its key), date formats, JSON itself, overflow of the BIGINT of
  an amount.

## 7. Plan

1. `StateMachine`, `Tables`, `Projections`, `ApplyEvent` with proofs: done. They
   carry the guarantee the service exists for.
2. `Delivery` with proofs: done.
3. `LLMFallback` with proofs: done.
4. `Extraction` with templates and timestamps, `Registry`, `Pipeline` with proofs: done.
5. `Service`, the composition of `Pipeline` with the transactions, and its replay,
   with proofs: done.
6. `Money` with proofs: done.
7. Next: the composition of `Pipeline` with `LLMFallback` (a model call is one call
   there), shown as a refinement; leaf types in the fingerprint; the amount of an
   invoice carried through discovery (`_map_amount`) into `Service`.

# Verification of apps-script-tools (AST)

TLA+ models, TLC configurations and TLAPS proofs for the stateful core of the
`AST` library for Google Apps Script: the persisted jobs of `AST.Jobs` with
their store, their dead-letter queue and their builders; `AST.Triggers`; the
coalescing fetch and the tag index of `AST.Cache`; and the sending side of
`AST.Messaging`.

Contents: 1 the system; 2 the modules; 3 how model and code correspond; 4 the
runs and their bounds; 5 fairness; 6 the proofs; 7 where code and documentation
disagree, and what the code does not promise; 8 what is not modelled; 9 the plan.

## 1 The system

AST runs inside Apps Script. An *execution* is one run of a script: it is single
threaded, it may be killed at any point (by the six-minute limit or a quota), and
any number of executions of one project run at the same time, started by users,
by web requests or by triggers. They share the script properties (single
properties are read and written atomically, at most 9 kB each), Drive, the cache
backends, and one advisory script lock (`LockService`), which Apps Script
releases when its holder ends. So every state that outlives a call is changed by
interleaved read, compute and write steps of several executions.

| Component (`src/apps_script_tools/`) | State | Operations | What is hard |
| --- | --- | --- | --- |
| Jobs, execution (`jobs/general/runJob.js`, `resumeJob.js`) | the job record: status, steps, attempts, lease, version | run, enqueue, resume, status, cancel | executions racing for a job; leases that expire under their owner; kills and failing writes between any two checkpoints; retries |
| Jobs, store (`jobs/general/jobStore.js`) | a property per record, index buckets, locators, prefix registry, legacy scan registry | read, compare-and-swap, list, lease operations | one write is four properties; readers take no lock; bounded properties; an index built from stale reads |
| Jobs, dead-letter queue (`jobs/general/dlq.js`) | entries, their index, idempotency results | moveToDlq, listFailed, replayDlq, purgeDlq | reads long before the writes they justify; a catch block that writes; keyed retries; batches |
| Jobs, builders (`orchestration.js`) | none | chain, enqueueMany, mapReduce, their summaries | a window of concurrent items made of dependencies alone; reduce after map |
| Triggers (`triggers/general/`) | definitions, id index, uid map, Apps Script triggers | upsert, list, delete, runNow, dispatch | create, delete and store in several steps, without a lock; ScriptApp refuses; triggers deleted by hand; firings in between |
| Cache, one key (`cache/general/runtime.js`) | entry, stale copy, leases | get, set, delete, fetch, invalidate, clear, lock | a lease without an owner's fence, followers of a dead leader, the lock service failing, stale copies read early and served late |
| Cache, storage backend (`cache/backends/storageJson.js`) | an object per entry and per tag | the same, with trimming | tag objects changed under a lock, entries and deletions outside it; kills between the two |
| Messaging (`messaging/general/`) | idempotency keys, delivery log, messaging jobs, replay keys of notices | send, send batch, enqueue, log delete, inbound verify and route | check-then-set around a send; lost answers; batches that fail half-way; three layers of retries |
| Chat (`chat/`) | thread state per user | append, read, switch | read-modify-write of one document |
| Telemetry (`telemetry/`) | spans, buffers, alert suppression | spans, flush, query, alerts | buffered sinks |
| RAG (`rag/`), AI (`ai/`) | an index file; none | build, sync, answer; run, tools | incremental sync; fallback between providers |
| HTTP, GitHub, Storage, Database, Secrets | none of their own | requests | retries, polling |
| Config, runtime, dbt, DataFrame, Series, utilities, workspace | per execution | pure functions, thin wrappers | data handling |

How they interact: a firing of Triggers calls a handler or enqueues and resumes a
job; Messaging's asynchronous dispatch enqueues a job whose step makes the same
call again; the builders produce jobs; the dead-letter queue reads and resets job
records and calls resume; Messaging keeps its keys, its log and its replay keys in
Cache, as do GitHub and RAG; everything that persists goes to script properties,
Drive or a storage service.

What makes the modelled components correct:

* **Jobs.** A step runs only after its dependencies completed. A completed step
  is never run again. No handler is called more than `maxRetries + 1` times.
  Status and steps agree. Only the execution that owns the lease on the record
  changes it, besides cancel and replay; a cancel, once stored, is final. Two
  executions are never in the same step. A job that is resumed comes to an end,
  unless an execution was lost inside a handler.
* **Store.** To its callers a write is one atomic compare-and-swap, whatever
  fails between its four properties. The index may lag but never lies about the
  future; no job is left where neither a read nor a listing would index it. A
  listing returns what was stable before it began.
* **Dead-letter queue.** A job is started over only while it is failed. An entry
  that says replayed belongs to a job that did not fail again. Entries and index
  agree. A caller that repeats its key replays a job once; every queued entry is
  replayed in the end.
* **Builders.** The step graphs are acyclic; never more than `maxConcurrency` items
  are under way; reduce begins after every item has completed.
* **Triggers.** Between calls an enabled definition has exactly its trigger and a
  disabled or deleted one has none. An upsert that returns has put its definition
  right, whatever went wrong before. A firing finds its definition.
* **Cache.** Nobody but the clock and a write takes a leader's lease away; leases
  order what leaders store; what a write replaced is not returned again. The tag
  index and the entries agree; an invalidation leaves no entry of its tag.
* **Messaging.** One key is one delivery of each message, up to the faults that
  put a delivery in doubt. An answer from a key, or a job that is done, means all
  messages were delivered. Of the calls posted with a notice one accepts it.

## 2 The modules

| Module | What it is |
| --- | --- |
| `JobLifecycle` | abstract specification: a job as one sequential program |
| `Jobs` | executions racing for one job: lease, checkpoints, faults, cancel, replay |
| `JobsRefinement` | the mapping under which `Jobs` implements `JobLifecycle` |
| `JobsProofs` | TLAPS proofs about `Jobs` and the mapping |
| `JobsOrchestration` | the step graphs of the builders and the stage summary, on top of `Jobs` |
| `JobsOrchestrationProofs` | TLAPS proofs about the graphs and the window, for any number of items |
| `JobRegister` | abstract specification: registers with atomic compare-and-swap |
| `JobStore` | the store at the level of single property writes, the lock and the index |
| `JobStoreRefinement` | the mapping under which `JobStore` implements `JobRegister` |
| `JobStoreProofs` | TLAPS proofs about `JobStore` and the mapping |
| `JobsDlq` | the dead-letter queue, with the jobs' executions cut to begin and end |
| `JobsDlqProofs` | TLAPS proofs about `JobsDlq` |
| `Triggers` | definitions, index, uid map and the triggers Apps Script holds; upserts, deletes and firings |
| `TriggersProofs` | TLAPS proofs about `Triggers` |
| `CacheFetch` | one cache key: fetch with its lease and stale copy, writes, invalidations, scoped lock |
| `CacheFetchProofs` | TLAPS proofs about `CacheFetch` |
| `CacheTags` | the storage backend: entry objects and tag objects, one access a step |
| `CacheTagsProofs` | TLAPS proofs about `CacheTags` |
| `Messaging` | sends with their key, retries, batch, log entry and job; verification and routing of notices |
| `MessagingProofs` | TLAPS proofs about `Messaging` |
| `MC...` | instances of these for TLC |

The layers fit together by what each assumes of the one below. `Jobs` takes a
store call for one atomic step that takes effect or not, and may throw either
way; `JobRegister` states just that, and `JobStore` is shown to implement it.
`JobsDlq` takes an execution for a step that begins with the lease and ends with
a status, given up when the lease is lost; that an execution which lost its
lease cannot write any more is `FencedWrites` of `Jobs`. `JobsOrchestration`
runs the job that mapReduce builds on `Jobs` itself. `CacheFetch` takes the
operations of a backend for atomic, which they are in the memory, script
properties and Drive backends; `CacheTags` shows what the storage backend, where
they are not, keeps. `Messaging` takes get, set and delete of the cache for
atomic, and from `Jobs` that one execution at a time runs a job's step.

## 3 Model and code

**Versions.** Records carry a version that every write increments, and a write
is refused unless the writer's copy has the stored one. `Jobs` and `JobsDlq` keep
not the number but *who holds the latest version* (`current`, and in `Jobs`
`fresh` for the record a lease operation has just read). This is the same
information, since a version only grows and is only compared for equality, and
it keeps the models finite. `JobStore` has the numbers, because there the index
and stale copies compare them with each other.

**Time** is whether a lease has expired (`leaseLive`; `runner` in `JobsDlq`).

**Jobs.** `record` is the stored job; `job[w]` is the copy execution `w` works
on; `pc[w]` is where it stands:

| Point | Code |
| --- | --- |
| `acquire` | between the read and the write of `astJobsAcquireLease` |
| `start` | before the checkpoint `status = 'running'` |
| `loop`, `renew` | `astJobsMaybeRenewLease`: its decision; between its read and its write |
| `check` | the runtime budget, `astJobsFindRunnableStep`, the lease read for the step |
| `stepRenew`, `stepStart` | the lease write for the step; the checkpoint of the started step |
| `handler` | in the handler, up to the checkpoint in the `finally` block |
| `final` | the checkpoint after the loop, when a step has failed |
| `release`, `releaseWrite` | `astJobsReleaseLease`: its read; its write |

Each action is one store access and the code up to the next one. Faults are drawn
from the constant `Faults`, pairs of a kind and a point: `crash` (killed),
`write` (a store call throws without effect), `index` (it throws after the record
is written), `slow` (the lease expires while its owner works). `calls` is a
history variable that counts handler calls. `astJobsRun` is enqueue followed by
the same execution as resume.

**JobStore.** `record`, `index`, `locator`, `registry` and `legacy` are the five
kinds of properties; `lock` is the script lock; a write goes through `put`,
`register`, `bucket`, `locator` with the lock, a backfill through the last three,
a listing through `prefixes`, `registry`, `collect`, `snapshot`, `fill`,
`settle`, `pickup`. `Throws` is a write over the property limit or a service
error, `Crash` a kill; both release the lock. Of the 16 buckets per prefix one is
modelled (a job is always in the same one), and of a summary its version and
status. `steady` is a history variable: what a listing has to return.

**JobsDlq.** `status` and `runner` stand for the job record, `entry` and `index`
for the queue's properties, `rank` for the order of the `movedAt` times, `answered`
for the stored idempotency results. A replay goes through `select`, then per entry
`item`, `reset`, `resume`, `running`, `mark`, `markIndex`, with every exception,
that of a failing read of the job included (`NextItemThrows`), leading to the catch
block (`Catch`). `Width` is the smaller of `limit` and
`maxConcurrency`; the `Width` newest entries make up a batch, and in what order
it is gone through the model leaves open. A listing reads an entry and its summary at one moment.

**JobsOrchestration** adds no state. `Maps` and `Reduce` are the stages of the
job `MapReduceDependencies` describes; `AggregatedStatus` is what the summary
reports of a stage. An empty list of items is refused by request validation.

**Triggers.** `def`, `index` and `uidMap` are the three kinds of properties,
`project` what `ScriptApp.getProjectTriggers` returns and `made` what each trigger
was created for; a uid is a place in `made` and `uidMap`, which both grow when one is
created (mapped to nothing yet). Of a definition its being enabled (`on`), what a trigger is bound
to (`bind`: schedule and handler) and the rest (`body`) are kept, since the upsert
compares just these. An upsert goes through `read`, `find`, `list`, `create`,
`remove` (and `rollback` when that throws), `write`, `index`, `unmap`, `map`; a
delete through `read`, `remove`, `drop`, `unmap` per id and then `next`, `index`; a
firing through `lookup`, `mapped`, `scan`, `try` to `dispatch` or `missed`.

**CacheFetch.** A value is the version of its origin. `lease` has two slots, the
lease of fetch and the scoped lock, which run the same protocol: in the lock
service's critical section (`acquire`, then `confirm`, which is a step of its own
because the adapter's write gives the nested script lock back), or without it
(`look`, `take`, `recheck`). A leader goes through `resolve`, `persist`, `keep`,
`release`; a follower through `wait` and `waitLease`, twice at most. Each read,
write or delete of the adapter is one step. `coalesceWaitMs` is positive, and an
error is answered by the stale copy or thrown, as `serveStaleOnError` may have it
either way. Invalidation by prefix leaves the stale copy, as the code does.

**CacheTags.** `place` is the place each entry has by its time of update, the newest
having the first, and 0 for a key without one; `doc` the keys each tag's object
lists. The time of update is the one at which the set *began* (`storageJson.js:1071`),
so entries that other sets wrote since then may be ahead of it: `since` collects them
and `PlacesFor` leaves the place among them open. (The code orders sets that began in
one millisecond by their hashes; the model has either order while they overlap.) A clear lists the
entries, deletes them one by one, lists the tag objects and deletes those one by one
(`ListEntries` to `ClearDone`). Only `lock` to `Unlock` is under the script lock;
`WriteEntry`, listings, `DropDoc` and the steps of clear are outside it. A listing with the
reads of what it lists is one step. A trim sees the whole namespace; in the code its
listing reaches `maxMemoryEntries` entries and one batch of `storageTrimBatchSize`
more, so `BoundedAtRest` is about overflows no larger than that batch.

**Messaging.** `kept` is the stored keys, `delivered` counts what the provider has
delivered, `handled` how often a notice's handler has run to its end, `passed` how
often a notice was found genuine and there was no handler to run; `index` and `events`
are the log. A send goes through `get`, `send` (one
step per attempt of each message), `readIndex`, `writeEvent`, `writeIndex`, `set`;
a job makes the same call. A failing cache call falls back on the memory of the
execution in the log, and throws elsewhere, but for `set`. A notice goes through `check` and
`mark`, its key's read and write, whether it is to be verified (`BeginVerify`:
`inbound_verify`, and `inbound_parse` when it verifies) or routed (`BeginRoute`); only
the latter goes on to `handle`, where it may match no route (`Pass`).

**History variables.** Four of these components take no lock, or one that covers
only some of their steps, and make no promise to calls that overlap. The history
variables say when a call had the state to itself, so that everything else can be
required: `overlapped`, `harmed`, `raced`, `alone` in `Triggers`; `disturbed` in
`CacheTags`; `voided`, `high`, `floor`, `seen`, `clear` in `CacheFetch`; `doubts`,
`spoilt`, `overlapped`, `raced` in `Messaging`. They are per id, key or notice: the
calls that interfere on one do not excuse anything on another, though all share
the index, the tag objects or the log. No action reads them.

Undefined or environment behaviour: which execution moves next, whether a service
call fails, and when an execution is killed are nondeterministic. Everything else
is determined by the code, apart from the outcome of a handler.

## 4 The runs

| Run | Shows | Size and bounds |
| --- | --- | --- |
| `jobs_safety` | the inductive invariant of the proofs, dependency order, status, retry budget; action properties for terminal status, fencing, leases; `Jobs` implements `JobLifecycle` | 2 executions, 3 steps (the first waits for the last, so job order is not execution order), `maxRetries` 1, 2 faults of any kind anywhere, cancel and replay |
| `jobs_exclusive` | a job that mapReduce has built: one execution per handler, the window, reduce after map; the job ends unless an execution was lost in a handler | 2 executions, 3 items and a reduce step, `maxConcurrency` 2, `maxRetries` 1, 2 faults of any kind anywhere, cancel, no replay |
| `jobs_wedged` | violated: a job whose execution was killed in a handler never ends | 2 steps, that one fault |
| `store_cas` | no lost update, `JobStore` implements `JobRegister`, listings are complete | 2 executions, 2 jobs of 2 registered prefixes, 2 statuses, versions to 3, 1 fault, no call that scans all properties |
| `store_index` | the inductive invariant, the legacy scan registry | 2 executions, 2 jobs of one prefix, one of them older than the index, room for one summary, versions to 2, 1 fault |
| `store_stale` | violated: with a scoped listing, listings are not complete | 1 job, no fault |
| `dlq_safety` | only failed jobs are started over; entries and index agree | 2 executions, 2 jobs, 2 faults, all calls |
| `dlq_live` | the queue drains; a key of one's own replays a job once | batch as wide as the queue, 1 failing store call, one caller with a key and one without |
| `cache_fetch` | the inductive invariant, who may take a lease away, leases order stores, what a write replaced stays gone | 2 executions, 2 versions of the origin, 1 poll per wait, 1 fault of any kind, every call |
| `cache_tags` | the tag index is exact, invalidation is complete, the namespace is bounded, nothing live is deleted by mistake | 2 executions, 2 keys, 2 tags, each entry bearing one of them, room for 1 entry, 1 fault, every call |
| `triggers` | one trigger per definition, upserts repair, firings find their definition, listings are exact | 2 executions, 2 definitions, 3 upserts or deletes, any number of firings, 1 fault of any kind |
| `messaging` | a key means one delivery, an answer means delivery, one call accepts a notice, the log is exact | 2 executions, a batch of two and a single message, a notice, 3 calls besides jobs, 1 retry in each layer, a log of 2 entries, 2 faults of any kind |

Why these bounds suffice: two executions are what every race here is between (a
third can only add another stale copy, and stale copies are alike). Three steps
give a step that waits, one it waits for and one that is independent; three items
with a window of two give one that has to wait for the window. With one retry a
step or a message can fail, be retried and give up. Two faults let one strike
while another is being recovered from; where a run has one, the case after it is
a second *call*, of which there are always enough. Two jobs, keys or definitions
are the fewest with an order in the queue, competition for a bucket or for the one
place in a namespace, or an index in common. Three calls of Triggers or Messaging
let one call leave something behind, another overlap with it or repair it, and
the third show the outcome. `MaxFaults`, `MaxVersion`, `MaxPolls` and `MaxAsked`
are the only bounds on behaviour; they are conjuncts of the guards, and what the
proofs establish does not depend on their values.

`store_cas` is confined to the calls under which listings are complete:
`store_stale` shows that the confinement is needed; `store_index` has every call.
`dlq_live` has a batch as wide as the queue because a batch is the newest entries
(`dlq.js:603`) and those that fail again stay the newest: with a narrower one
(`Width` 1) TLC finds an older failed job that is never replayed.

Deadlock is checked in all runs but `triggers` and `messaging`, whose calls are
bounded and run out; `Jobs` may stop only when `Settled`, and in the other models
a caller can always begin another call.

Symmetry of the executions is used in safety runs only. The larger runs have
between four and eleven million states and take one to two and a half minutes.

## 5 Fairness

`Jobs!Fairness`: an execution that has started runs on (`WF` of its steps;
Apps Script schedules it, and a kill is a fault of its own); some loop keeps
calling resume (the documented way to use jobs); an abandoned lease expires; and
`SF` for getting past the runtime budget, because a budget too small for one step
would pause the job for ever and no code prevents that. Cancel and replay are not
fair. Under it `SettlesUnlessAbandoned` holds: a job that mapReduce has built
comes to an end, or a step of it is stored as running that no execution is in. The
exception cannot go: `jobs_wedged` shows what becomes of such a job.
`JobsDlq!FairSpec`: replays are called for again and again and run on.

Triggers, Cache and Messaging promise nothing that must happen of itself: what a
call leaves half-done is repaired by the next call, if there is one, and waits are
bounded by a clock (a follower of a dead leader gives up after its second wait,
which is in `Waited`). So their properties are safety properties, with the repair
stated of the state in which a call returns.

## 6 The proofs

TLAPS proves the following for all values of the constants that meet the named
assumptions (`JobsAssumption`, `JobStoreAssumption`, `JobsDlqAssumption`,
`TriggersAssumption`, `CacheFetchAssumption`, `CacheTagsAssumption`,
`MessagingAssumption`), so for any number of executions, jobs, steps, definitions,
versions and faults. Each component has an inductive invariant `IInv`; one lemma per
action shows that the action preserves each part of it, `NextIInv` (`NextHolds` in
`CacheTagsProofs`) puts them together, and the theorems follow from `Invariance`. Every
invariant that a run checks is also a theorem. TLC checks the same `IInv` in
`jobs_safety`, `store_index` and `cache_fetch`, and what it implies of the
properties in `dlq_safety` and `triggers`.

*Jobs.* Of the parts of `IInv`, `Coherent` carries the argument: an
execution whose version would pass the check has a copy *equal* to the stored
record, so its next checkpoint undoes nothing. The checked invariants alone are
not inductive: `Position` says what an execution with a current copy may rely on
at each point (that the step it picked is still runnable, that the record names
it as owner), `FreshRead` the same for a lease read, `AttemptsLeft` and
`CallsAccounted` relate attempts, step states and handler calls, from which the
retry budget follows. Acyclic dependencies are used once: a job with no runnable
step, no failed and no running step has no pending one. From `IInv` follow
`TypeCorrect`, `Coherence`, `DependenciesFirst`, `StatusTruthful`,
`RetriesBounded`, and with a case split over the actions (`WorkEffect`) the action
properties `Fencing`, `Monotone`, `Finality` and `LeaseHolds`. `OneHandlerPerStep`
adds a second invariant, `HandlerPinned`: without replays a step in a handler is
stored as running or canceled, and neither can be picked. `Refinement` maps every
step to one of `JobLifecycle` or to a stutter; lease writes stutter.

*JobStore.* `IInv` says what a caller may rely on where it stands: from the
comparison to the put the record cannot move (`Swapping`), what is on its way
into the index was stored at some time (`Snapped`), and every job older than the
index is indexed, waiting to be or known to have been skipped before its prefix
is struck off (`LegacyAccounted`). From it follow `IndexBehind`,
`LocatorsAreIndexed`, `WritesNotLost`, `LegacyJobsKept`, and `Refinement`: a write
takes effect at its put and returns at its locator. `ListingsComplete` has a second
invariant, `ListInv`, and the hypothesis `NoBackfill` (jobs are read with their prefix
and listed without one, and there is a prefix registry), which is that of `store_cas`;
`store_stale` shows that `ListComplete` is false without it. Under `NoBackfill` nothing
but its writer puts a record into the index. So a job that no write has in hand is
indexed as it is stored, under a registered prefix (`Indexed`), what a writer brings to
the index is the record (`Faithful`), and a listing has the prefix of every job it must
return from its first read on, and the job from its second (`Complete`).

*Dead-letter queue.* Two of the checked properties are not inductive by themselves.
That an entry says replayed only of a job that has not failed rests on
`OneReplay`: between its reset and its mark a replay is alone with the job, which
is not failed meanwhile, unless something else has run the job (`outside`). That
rests on `CopyFailed`: a copy that would pass the version check is one of a failed
job, so the reset of a second replay that read the same failed job is refused
(`ResetsFailedOnly`). That entry and index agree rests on `Writing`: between the
two writes the writer holds the lock, and nobody else touches the entry.
`KeysReplayOnce` proves `KeyedOnce` of callers no two of which give the same key
(`Apart`, of which section 7 says why it is needed). Its invariant `KeyInv` says that
a key with which a job was started over is still in use or has its result stored
(`Accounted`), so a replay that finds no result begins with a key nobody has used, and
that the jobs a replay has yet to deal with are not among those it has started over
(`Ahead`).

*Triggers.* A property that leaves out definitions on which calls overlapped must
be carried through every step in between, so the invariant says what holds while a
call is at work. `Watched` ties the history to the present: where nobody overlaps,
at most one caller is at a definition. For that caller `Decided` and `Fresh` say
what it has read, created and written, `Shifting` and `ShiftedTo` which triggers
its definition has between two of its steps, and `Settled` that at all other times
it has just the one it names. A firing finds its definition because the map names
it or will (`Settled`) and because a trigger that is left behind is no longer
mapped (`Strays`), which one fault cannot break and two can (`Blinded`). The proofs
separate who is concerned: a step is `Tolerable` to the other callers and leaves
other definitions `Undisturbed`, once for all actions, so that each action is left
with its own caller and definition.

*Cached fetch.* `WritesFinal` is what the rest of `IInv` is for. `floor` is the
value of the last write that had the key to itself. `Clearing` follows such a write through its
steps: everything that came into flight since it began is as new as what it
writes, and what it has cleaned stays clean. When it returns, `Floored` holds of
its value: nothing older is stored as entry or stale copy or held by a resolver
about to store it. `Served` then says of each fetch that neither its early copy of
the stale entry nor its result is older than the floor it began with.
`LeadersKeepLeases` and `StoresInOrder` are inductive together with `Placed`.

*Tag index.* Only changes of tag objects are under the lock, so an entry and its tags
agree only between calls, and only for keys on which no calls overlapped or were cut
short. `Clashing` is in `disturbed`, that is, at most one call is about any other key,
however many there are about its tags. For that call `Known` says what it has read of
the key, which is still so, and that the changes it has yet to make set each tag object
right; for every other moment `Consistent` has the index exact (`Listed`). Then
`IndexCorrect` and `InvalidationComplete` follow: an invalidation that has listed the
keys of its tag has yet to delete each entry that bears it. A step is put in terms of
one key (`Kept`), and a change of a tag object is a change for its own key, since the
lock keeps the objects still between the read and the write. `NamespaceBounded` rests
on `Room`, which also counts the disturbed keys: once no set has its trim still before
it, an entry whose place is beyond the limit is one some caller is about to delete.
`LiveOnesKept` is what `Known` says of an entry about to be deleted.

*Messaging.* Deliveries are counted against what vouches for them. Between calls
the key does; while a request is being sent, the caller that is past the message
(`Past`) does; where neither does, the delivery is in `doubts` (`Vouched`). So the
one delivery that has no doubt against it is there once at most, since a caller that
sends has found no key and, if it is alone, there still is none (`Unkept`), and who
is not alone is in `overlapped` (`Watched`). `Answered` needs no such exception:
keys and done jobs are only made by callers past every message of the request.
`Marking` is the same argument for notices, where the key comes before the handler, if
there is one to run: `NoticesOnce` is `AcceptedOnce`, of the calls that handled a notice
or passed it.
What the steps do is put once in terms of messages and notices (`Kept`), and shown
once to keep the invariant (`KeptKeeps`). The log has an invariant of its own, `LogInv`:
while writers and deletes of the log take turns (`Alone`) and none is cut short, the
list names stored events, newest first, and leaves out only what `MaxEntries` newer
events have followed (`Exact`); `Writing` says how far a writer is from that between
its steps. `LogTruthful` is `LogExact` for a log of any length.

*Builders.* `BuildersAcyclic`: the graphs of chain, enqueueMany and mapReduce meet
the assumption of `Jobs`, the stages and their positions giving the order.
`ReduceLast` follows from `DependencyOrder` on the graph of mapReduce. `WindowHolds`:
of two items `maxConcurrency` apart, or a multiple of it, one is done before the other
begins. So the items under way differ modulo `maxConcurrency`, and there are no more of
them than remainders.

Only model-checked: liveness (`SettlesUnlessAbandoned`, `Drains`, and the violated
`Settles`), since TLAPS has no rules for fairness and `ENABLED`. `ListComplete` and
`KeyedOnce` are proved under the hypotheses named above, which the instances of
`store_cas` and `dlq_live` meet; TLC has checked `ListInv` and `KeyInv` on those
instances too.

## 7 Where code and documentation disagree, and what the code does not promise

Two disagreements are runs of their own:

1. *A job can be resumed for ever* (`jobs_wedged`). A step is stored as running
   before its handler is called, only pending steps are picked
   (`runJob.js:126`), and a job with a running step is paused (`runJob.js:282`).
   After a kill in the handler, "Resume in a trigger/worker loop until terminal
   status" (`docs/getting-started/jobs-quickstart.md:138`) does not terminate.
2. *A listing by status can miss a job for good* (`store_stale`). A listing
   with `options.propertyPrefix` indexes each record as it read it, after reading
   them all (`jobStore.js:496`), and may put an older summary over a newer one;
   compare "list filters include them" (`tests/local/jobs-runtime.test.mjs:392`).

The others were met while modelling. They are why a property leaves out calls
that overlap or that were cut short; the property with that exception removed is
violated, in the model as in the code.

* Dead-letter queue. A key is looked up first and stored last (`dlq.js:587`,
  `dlq.js:720`), so overlapping replays with one key both replay; compare
  "idempotent request support" (`docs/api/jobs-contracts.md:232`). A purge lists
  before it takes the lock (`dlq.js:730`) and deletes under it unseen
  (`dlq.js:744`), so it may delete an entry of another state; compare "Deletes DLQ
  entries by state" (`docs/api/jobs-contracts.md:247`).
* Triggers. Overlapping upserts of one id create two triggers and store one; an
  upsert that is killed after it stored the definition leaves index and map behind,
  and its repetition finds nothing to do (`runTriggersRequest.js:423`), though the
  quickstart calls it idempotent
  (`docs/getting-started/triggers-quickstart.md:87`). Firings make up for it by a
  scan, listings do not.
* Cache. The scoped lock "ensures single-writer execution"
  (`docs/getting-started/cache-quickstart.md:147`) while the lock service works and
  the task is shorter than the lease; neither is checked when the task writes. In
  the storage backend a set that is killed between the entry and its tags, or
  overlaps with the deletion of the expired entry, leaves the key out of its tag
  for good: later sets with the same tags see no change to make
  (`storageJson.js:1075`).
* Messaging. "Use idempotency keys for retry-prone flows to prevent duplicate
  sends" (`docs/operations/messaging-security.md`) holds between calls that follow
  each other and whose answers arrive: overlapping sends with one key both send, a
  lost answer and a batch that throws half-way are sent again. A failing read of
  the log index is taken for an empty one and then written back
  (`logStore.js:136`). An event pushed out of the index is never deleted. A
  notice's replay key is stored before its handler runs (`inbound.js:529`), so
  when the handler throws the redelivery is refused. Whatever verifies a notice stores
  that key: `inbound_verify` (`inbound.js:1034`), `inbound_parse` with verification
  (`inbound.js:1061`) and a route call that matches no route (`inbound.js:1110`) accept
  it without a handler, and a route call with it is refused as a replay afterwards;
  `capabilities.js:32` declares verifying and parsing to be reads that change nothing.

## 8 What is not modelled

The components not named in section 2, with the reason in `PROJECT.json`: most are
pure data transformations (DataFrame, Series, dbt, utilities) or request building
for external services, and have no state that outlives a call. They are most of the
lines of the repository; the modelled files are those that keep state between
executions.

Within the modelled ones: request validation and payload handling everywhere; in
Jobs `listFailed` (it only reads), progress counts of the summaries, the scheduling
bridge (it turns its options into one request to Triggers), and executions that
share one explicit `options.workerId` (`runJob.js:368`), which the lease takes for
one; in Triggers `dryRun`, `list` and `runNow`, which change nothing stored; in
Cache the backfill, statistics and the bulk calls, which repeat the single ones; in
Messaging how signatures are checked, notices posted with verification or replay
protection switched off (they neither read nor store a key), templates, tracking and
the channels' own requests; the `async` of the configuration, which the code reads after it has decided not to
enqueue (`resolveMessagingConfig.js:491`).

## 9 The plan

1. `ChatThreads`: the per-user document that is read, changed and written under a
   lock that may be off or missing (`threadStore.js:365`).
2. The telemetry sinks and the alert suppression; the incremental sync of RAG.
3. The sequential loops: HTTP retries, provider fallback and the tool loop of AI,
   query polling, as operators with a reference definition.
4. `JobStore`: a property for the time in which a listing has lost a prefix from
   the registry (`jobStore.js:746`).

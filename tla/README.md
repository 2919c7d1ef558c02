# TLA+ models and proofs of mcp-cache-ci

mcp-cache-ci is a caching proxy. It speaks MCP to its clients, forwards their
`tools/call` requests to one MCP backend (code-index), and caches the answers.
A file-watching daemon and operators tell it over HTTP what has become
outdated. This directory holds TLA+ modules of its concurrent core, the TLC
configurations that check them on small instances, and theorems about them that
TLAPS proves for every value of the constants.

Paths below are relative to `src/`; `core/` stands for `crates/cache-core/src/`
and `ci/` for `crates/mcp-cache-ci/src/`.

## 1. Inventory

| component | state | operations | what makes it correct |
|---|---|---|---|
| single-flight, `core/singleflight.rs` | map key → broadcast sender | `do_or_join`, the guard's `Drop` | a key in the map always has a caller that will publish or clear it; nobody gets the answer of another key; every call returns |
| cache and reverse index, `core/cache.rs`, `core/reverse_index.rs` | map key → entry (payload, deps, `expires_at`), map file → set of keys | `insert_with_deps`, `get`, `get_with_deps`, `invalidate`, `invalidate_files`, `invalidate_where`, `evict_expired`, `clear` | an entry is found by every invalidation of a file it was built from; the index does not fill up with empty sets or dangling keys |
| dirty flags, `core/dirty.rs` | map (scope, file) → observed mtime, time of marking | `mark`, `any_dirty`, `observed`, `clear_if_caught_up`, `prune_older_than` | a flag leaves only when the index has caught up with the newest announced write, or by age |
| request handling, `core/proxy.rs` | none of its own; works on the four above | `handle`, `forward_once`, `forward_and_cache`, `forward_no_cache` | a clean hit is not older than an announced write; an outdated entry is flagged; every request is answered |
| freeze controller, `core/freeze.rs` | one immutable snapshot behind `ArcSwap`: global and per-scope `until` | `freeze`, `thaw`, `thaw_all`, `is_frozen` | a granted freeze lasts until its end unless it is thawed; a freeze never shortens another |
| batch decomposition, `core/batch.rs` | none; a window of 16 running sub-calls | `detect_batch`, `handle_batch`, `inner_value` | results in the order of the names; never more than 16 sub-calls at once; only a freeze fails a batch |
| eviction task, `ci/main.rs` (`spawn_eviction_task`) | none | `evict_expired`, the gauge, `prune_older_than`, every tick | flags and expired entries do not stay |
| HTTP handlers, `ci/handlers.rs` | none | `/mark-dirty`, `/invalidate`, `/freeze`, `/thaw`, read-only endpoints | late, lost and reordered requests do no lasting harm |
| PID lock, `ci/pidlock.rs` | one file | `acquire_optional`, `Drop` | at most one instance; a stale file does not keep the proxy from starting |
| start-up and life of a process, `ci/main.rs` | how far `main` is; the port | lock, configuration and policy, backend, tool list, port, serving; a failed step ends it | a failed start that has the lock leaves no file behind; after any sequence of failures the service comes up again |
| metrics, `core/metrics.rs` | atomics: four counters, two gauges, an average | `record_*`, `update_*`, `observe_backend_latency_micros`, `snapshot` | no sample is lost; the gauge of the cache's size is right when things are quiet |
| MCP server, `core/server.rs` | tool list fixed at the start | `call_tool` | dispatches to batch or request handling |
| cache policy, `core/policy.rs` | rules per scope and per tool | `is_scope_cacheable`, `ttl_for` | nothing is cached that a rule takes out of the cache, on any path |
| scopes and keys (`core/proxy.rs`, `cache.rs`, `ci/handlers.rs`) | none | `extract_scope`, `pick_scope`, `key_for`, arguments of sub-calls | a call, a flag, a freeze and an invalidation that mean one repository get one scope; a single call and a sub-call for one object get one key |
| payload metadata (`core/proxy.rs`, `batch.rs`) | none | `extract_dependent_files`, `extract_file_mtimes`, `strip_meta`, `inner_value` | what the proxy has read for itself does not reach the client |
| backend client, `core/rmcp_client.rs` | a connection | `connect`, `list_all_tools`, `call` | an answer or an error, at any time |
| configuration `core/config.rs`, fallback proxy, scripts | none | | read once; forwarded as it is; outside the process |

**How they interact.** `call_tool` hands a call either to `handle_batch`, which
makes one `handle` call per element, or to `handle`. `handle` looks at the
freeze, then at the policy, then at the cache; for an entry it asks the dirty
set about every file the entry was built from. A miss or a dirty hit goes
through single-flight to the backend; the answer's files and mtimes are compared
with the flags; the request may forward again; the answer is inserted (first the
links of the reverse index, then the entry) and the flags it has caught up with
are cleared. All of that runs as many tasks on one Tokio runtime, in parallel
with the HTTP handlers and with the eviction task, and all of it shares the
cache, the index, the flags, the flights and the freeze. No lock is held from
one step to the next: every map is a `DashMap`, atomic per call and only per
call, so that any two steps below may have those of another task between them.

**What is hard here.** (1) Sequences of map calls that are atomic only one by
one: look-up and registration of a flight, links and entry of an insertion,
emptiness test and removal of a link set, load and store of the freeze
snapshot. (2) State read before the backend call and used after it: flags,
freeze, entry. (3) A future dropped, or panicking, while it leads a flight.
(4) Notifications that are lost, late or out of order, on two independent paths
(`/mark-dirty` when a file is written, `/invalidate` when it has been indexed).
(5) Time: TTLs, the deadline of a revalidation, the pruning of flags, the end of
a freeze. (6) A kill, or a step that fails, anywhere between the PID lock and the
port. `PROJECT.json` lists
each of these hazards at its line with the properties that look for it.

## 2. The modules

```
Flight <---- implemented by ---- SingleFlight <---- MCSingleFlight, SingleFlightProofs
                                      |
                                  INSTANCE in CacheProxy <---- MCCacheProxy, CacheProxyProofs
CacheStore   <---- MCCacheStore, CacheStoreProofs
Payload ----EXTENDS----> CallPath <---- MCCallPath, CallPathProofs
FreezeController, Metrics, Batch ----EXTENDS----> OneProcess
Batch        <---- BatchProofs;  OneProcess, BatchProofs <---- OneProcessProofs
PidLock ----EXTENDS----> Startup
PidLock <---- PidLockProofs;  Startup, PidLockProofs <---- StartupProofs
```

`CacheProxy` composes the system: requests, handlers, notifications and eviction
against one cache, with single-flight embedded by `INSTANCE` at full
granularity. `CacheStore` takes one part of it, the two maps, apart further than
the composition could afford: `CacheProxy` treats an invalidation or an eviction
as one step and an insertion as two, `CacheStore` treats every single map access
as one. `CallPath` has what `CacheProxy` abstracts from, the data: one call at a
time, but with its arguments, scope, policy, key and the shape of its answer.
`Batch`, `FreezeController`, `Metrics` and `PidLock` stand beside them because
they share only one thing with the rest (the answer of `handle`, the answer of
`is_frozen`, the number of entries, nothing). `Startup` puts the lock into the
life of a process; `OneProcess` puts the three other modules under one next-state
relation, in which each is explored while the others rest: they have no variable in
common and read nothing of each other.

Operators such as `EvictTickPrunesNone` or `ReceiveKeepsResults`, each commented as
a slip, are plausible bugs of the operation that follows them. No
specification uses them; each run's properties have been seen to fail when the
operation is replaced by its slip.

### Flight and SingleFlight (`core/singleflight.rs:20-105`)

`inflight[k]` is the map from keys to senders (a channel or `None`). Each caller
has a `stage` in `do_or_join`, the key it `wants`, its end `chan` of a channel
(the Sender clone of a leader, the Receiver of a follower) and the `outcome` it
has so far. The actions are the lock sections and awaits, in order: `Call`;
`Join` (`inflight.get`, with the subscription of a follower); `Elect`
(`entry().or_insert()`); `Finish`, the end of the work; `Publish`, the broadcast,
which every subscriber of the channel receives; `Release`, the guard's removal of
the key. `RecvClosed` is the error of a follower whose channel has lost all its
senders, `Return` hands the result over. `Abandon` is a future that is dropped,
or panics, at an await: a leader's guard removes the key, nothing is sent. A
channel nobody refers to may be allocated again. Constants: `Caller`, `Key`,
`Channel`, `Outcome` (what the work may give, per key), and `Abandonable`, the
callers whose future may be dropped.

`Flight` says what of this a caller may rely on, with neither map nor channel: a
call runs the work or waits for calls of its key that do (`on`); a run's answer
is handed out at one moment, to exactly those that count on it, and ends their
wait; only who has nobody left to count on gets an error that is not the work's.
Two runs of one key at a time are allowed, as the code allows them. The
refinement mapping reads a call's role off its stage, and takes for `on` the
leaders that hold the Sender of its channel. That mapping is not obvious: a key
removed by another leader's guard, a late leader that joins a channel with
followers on it, and abandoned leaders all have to come out as steps of `Flight`.

### CacheProxy (`core/proxy.rs`, `dirty.rs`, `cache.rs`, `ci/handlers.rs`)

A payload is what it says about the files: the version of each file the
backend's index had. What an answer reveals of that in `_meta` is `Meta[k]`: the
files with their mtimes, only the files, or nothing (the three generations of
code-index that `extract_*` distinguishes). The world outside, marked external,
is `disk`, `index` and the daemon's undelivered `posts`: `Write` changes a file,
`Commit` lets the index catch up. A request is a task with a program counter:

| action | code |
|---|---|
| `Begin` | freeze check and policy, `proxy.rs:148-185` |
| `ForwardNoCache` | `forward_no_cache` |
| `LookupFinds`, `LookupMisses` | `get_with_deps` |
| `Scan`, `Hit`, `Forward` | `any_dirty`, one file per step |
| `Flight`, `BackendAnswers`, `Take` | `forward_once` through single-flight |
| `Compare` | caught-up test, one file per step |
| `Associate`, `Insert` | `insert_with_deps`, links and then entry |
| `ClearFlag` | `clear_if_caught_up`, one file per step |
| `DeadlinePasses` | the deadline of the revalidation loop |

The handlers and tasks are `MarkDirty`, `InvalidateFiles`, `InvalidateWhere`,
`Clear`, `FreezeOrThaw`, `EvictTick`; time is `Expire` (an entry is past its
`expires_at`) and `FlagAges` (a flag is older than `dirty_ttl`). An undelivered
post may be delivered at any later time, in any order, or never: that is the
unreliable network. The constant `Stimuli` says which of the outside stimuli a
configuration uses. `promised[f]` is a history variable: the highest mtime whose
`/mark-dirty` has been delivered since the flag was last pruned.

### CacheStore (`core/cache.rs`, `core/reverse_index.rs`)

`inner` (with the files and the expiry of each entry), `reverse_index`, and in
`job` the operation each worker is in with its loop's local variables.
`Mixed = FALSE` restricts the behaviours to those in which no insertion overlaps
a removal (an invalidation, an eviction, a clearing); insertions may overlap
insertions, removals removals, and look-ups, which remove an expired entry, both.
An insertion links
file by file and then stores; an invalidation of files
collects the keys, removes the entries and then unlinks key by key and file by
file, where `Unlink` is the removal from a set together with the emptiness test
under its lock, and `Vacate` the removal of the emptied set after it.

### CallPath and Payload (`core/proxy.rs`, `batch.rs`, `policy.rs`, `cache.rs`, `ci/handlers.rs`)

`Payload` has the functions that read and remove metadata. An answer is reduced
to the places where they look: a top-level `_meta`, the items of `content` with
the documents in their texts, `structuredContent`. `CallPath` sends calls
through: `Receive` splits a batch into sub-calls with their arguments
(`SubArgs`), and each goes to `NotAName`, `Refuse`, `Bypass`, `Hit` or `Fetch`
by the scope in its arguments, the policy and the entry under its key, or to
`BackendFails`; `Reply` ends the call. `MarkDirty`, `Invalidate`, `Freeze` and `Thaw` take their scope
from the fields of a body, as the handlers do. The variable `shape` is the form
this backend answers in, chosen at the start. A whole `handle` is one step here,
and the deadline of the revalidation has always just passed: waiting longer is
another `Fetch` later. Sub-calls go one after the other (`Batch` has their
overlapping). `announced` and `closed` are histories of what the bodies said,
read as their sender means them: by the repository they name, in whichever field.

### FreezeController (`core/freeze.rs`)

`FreezeLoad` and `ThawLoad` load the snapshot and change a copy (`next`), `Store`
puts it back; clock ticks and the calls of other callers come between, and nothing
keeps two calls apart. Overlapping calls lose updates, so the code does not do what
an atomic freeze and thaw would (`FreezeController_overlap`). What it does promise is
in the history `owed`: the end of the freeze that the calls to a scope have granted,
0 once it is thawed, and `Nothing` where a call returned beside another one and may
be undone by it (`OwedAfter`). `asked` is the latest end anybody asked for.

### Metrics (`core/metrics.rs`, `ci/main.rs:229-254`, `ci/handlers.rs:127`)

Requests and the eviction task write to the metrics between loads and stores of
their own. `LoadAverage` and `Exchange` are the loop around `compare_exchange`;
of the average only the number of samples in it is kept, which tells two values
apart whenever an exchange has succeeded between them. `Insert`, `Invalidate` and
`Evict` change the number of entries, `ReadLength` and `UpdateCacheSize` bring the
gauge up to date in two steps, in which others may come between, and `Reap` is a
lazy removal, after which nobody does. A request inserts after its own backend call,
or as a follower of a flight, which observes no latency. (`DashMap::len` adds up its
shards; here it is one moment.)

### Batch (`core/batch.rs:64-116`, `core/server.rs:90-107`)

A client's batch with its window: `Pull` starts the next sub-call while fewer
than `Cap` are in the window (16 in the code), and `Begun` is what `handle`
decides before its first await: the freeze, a hit, or a call to the backend.
`Answer` ends such a call, with an answer or an error, and `Collect` takes the
result of the *oldest* sub-call only, which is what `buffered()` does. `Receive`
and `Reply` start and answer the batch. `sawFrozen` and `sawThawed` record
whether the scope has been frozen or open at some time since the batch began.

### PidLock (`ci/pidlock.rs`)

The file, the processes and the pids of the machine. A start reads the file,
decides, and writes; the write is a truncation and then the number, with a kill
possible between any two steps, and either half may fail (`FailWrite`, while `disk`
is off), which ends the start before there is a guard; a clean end removes the file.
Instances start at any time, beside other starts too, and `GivesOut` gives out any
free number, that of a stale file included. Two histories say what of this has
happened: `raced`, that two of the instances that live have been starting at the same
time, and `recycled`, that the number in the file has been given to a process since
it was written.

### Startup (`ci/main.rs:58-207`, `core/rmcp_client.rs:38-64`, `core/config.rs:37-44`)

What `main` does, in order, each a step of `boot`: `Acquire` (the steps of
`PidLock`, if `guarded`: a PID file is given), `Load` (configuration and policy),
`Connect`, `List`, `Bind`, and then it serves. `Fail` is a step that cannot be
done because the outside (`config`, `backend`, `port`) is not as it needs: `main`
returns with an error and the guard's `Drop` removes the file. `axum::serve` does
not return and no signal is handled, so a process that serves ends only by
`Crash`, a kill, which may hit a starting one too and runs no `Drop`. `World` is
the rest: edits of the configuration, outages, a full disk, another program on the
port, other processes. `Supervised` are the instances that somebody starts again after each
end; the others may be started at any time, or never.

## 3. The runs

Every `<module>_<run>.cfg` belongs to the module `MC<module>`, or to the module
itself where no `MC` module exists. Passing runs:

| run | question | bounds, and why they suffice |
|---|---|---|
| `SingleFlight_calls` | Does the code implement `Flight`, is a registered key always looked after, does anybody get another key's answer, does every call return? | 3 callers of which one may be dropped, 2 keys, 3 channels: two leaders of one key and a follower, a leader lost with a follower waiting, and a caller of the other key that gets a recycled channel |
| `CacheProxy_fresh` | Is a clean hit ever older than an announced write, is an outdated entry always flagged, may a flag vanish too early, with one request at a time and one cached key? | 2 keys, one not cacheable, the freeze; an entry built from 2 files, 2 writes of each: an old and a new announcement of each file in any order, around a request that holds any mixture of versions, and a flag raised again between its comparison and its clearing |
| `CacheProxy_live` | Is every request answered, does the cache converge if notifications are lost or come at a bad time, do flags drain? | 2 requests of one key, one write: a leader, a follower, and a revalidation that has to retry, beside `/mark-dirty` and every form of `/invalidate` at any moment |
| `CacheStore_grouped` | Does the index cover the cache, does an invalidation miss an entry, do emptied sets stay, as long as no insertion overlaps a removal? | 3 workers, 2 keys, 2 files: entries that share a file, entries with two, and two workers in one set beside a third |
| `CallPath_data` | Do scopes, policy, keys, paths and metadata, read in different places, fit together, backend failures included? | 2 repositories with one path, `config/cache-ci.toml`'s `scope_args`, a rule of each kind, 7 forms of answer, calls single and batched, bodies with each field |
| `OneProcess_parts` | Does what was granted or thawed last, however calls of `/freeze` and `/thaw` overlap, and does a freeze end? Is a latency ever lost from the average, does the gauge settle on the size of the cache? Order of the results of a batch, size of its window, who may be refused, what a freeze stops, is every batch answered? | 2 callers, a scope and the global one, times 0 to 3: two overlapping calls after a settled one. 3 requests beside the eviction task, 2 keys, 3 latencies: two exchanges beside a third, a length stored after two changes. Batches of up to 3 names of two kinds and non-strings, window 2: the window is full, moves, and holds equal names |
| `Startup_lifecycle` | Is a start refused only if an instance runs or a live process has the number of the file; does the file name its owner if nobody has raced; does a guard take its file with it; does at most one process serve; does the supervised service come up again after everything? | 3 instances, one supervised, 3 pids, with and without a PID file, starts at the same time, kills between any two steps, writes that fail, any sequence of outages: a killed start, a failing one and a successful one beside each other, and a number given out again |

`CacheProxy_fresh` checks the freshness promise of `README.md:115` in the
conditions under which it holds. `HitFresh` is a property of steps: the step of
`any_dirty` that finds file `f` clean takes place only if the payload in hand is
at least as new as every write of `f` announced so far (unless the flag has been
pruned). `StaleIsFlagged` is its state counterpart. `ClearedOnlyWhenCaughtUp` meets
one request and the daemon in this run; that it holds for any number of requests and
beside every handler is the theorem `FlagsClearedInTime`. `ScopedHitFresh` of
`CallPath_data` is the same promise with repositories, scopes and keys told
apart; it also needs that batch and single call share one entry per object.

`InvalidationReachesFiles` is what operators rely on when they invalidate a file:
it holds only if the paths an entry is filed under, which come from one of two
places in the answer, are those it was built from. `ServiceRecovers` assumes that
kills, outages, full disks and bad configurations come to an end, and that no live
process keeps the number of a stale file, and nothing of how many there were; in the
model a killed run can be told from one that has ended by itself, as otherwise a
refused start would pass for a kill.

`FreezesLast` and `ThawsHold` are about calls that returned while no other was under
way, and hold whatever overlaps after them: a copy that a later call stores was
loaded after that call, or the call would not have been alone. `EndsOnTime` is about
all of them: a stale copy may bring a freeze back, but never one that outlives the
last end that was asked for. `GuardTakesFile` says who may leave a PID file without an
owner: a kill, and a start whose write fails. Drop covers all the rest.

`FlagsDrain` and `EventuallyConsistent` say what is left when every notification
is lost: flags go by age, and entries by TTL, so that from some moment on no
live entry is older than the index.

Deadlock is checked in every run.

### Disagreements between the code and what it says

Five runs end in a counterexample, each to one sentence of the repository's
documentation or comments, quoted in `PROJECT.json` under `findings`:

| run | what the trace shows |
|---|---|
| `CacheProxy_shared` | an answer for one key clears the file's flag, and another key's outdated entry becomes a clean hit until `/invalidate` or TTL |
| `CacheStore_lostlink` | a removal (in the trace, a clear of everything) between links and entry leaves an entry without links |
| `SingleFlight_closed` | the leader's work ends well and it has the answer; a call that joins after its broadcast and before the removal of the key gets a closed channel |
| `FreezeController_overlap` | two calls of `/freeze` load the same map; the store of the shorter freeze comes last and puts its end in the place of the longer one's |
| `Startup_race` | two instances check before either has written, and both get past the lock; the port keeps one of them from serving |

TLC finds the following ones as well. Each is a definition of its module or a
constant that no run uses, or a change of the definition named; putting it into the
configuration, in place of the properties there if it is one, gives the trace.

| change | what the trace shows |
|---|---|
| `INVARIANT SingleLeader` in `SingleFlight_calls` | two calls of one key miss in the look-up and both run the work (`singleflight.rs:1`: exactly one goes to the backend) |
| `SPECIFICATION SFNoTimeoutSpec` in `SingleFlight_calls` | `EveryCallReturns` fails: a backend that never answers holds the leader and all followers of its key; `timeout_ms` is read by nothing |
| 2 requests and channels, one file, `MaxVersion = 1` in `CacheProxy_fresh` | `StaleIsFlagged` fails: the older of two answers is inserted after the newer one has cleared the flag |
| `PROPERTY NoCachingWhileFrozen` in `CacheProxy_fresh` | a request let in before a freeze caches its answer during it |
| `PROPERTY VacatesOnlyEmptySets`, `Mixed = TRUE`, in `CacheStore_grouped` | a link made between emptiness test and removal is removed too |
| `INVARIANT NoDanglingLinks` in `CacheStore_lostlink` | lazy expiry removes an entry and leaves its links |
| `INVARIANT AllElementsFailAlike` in `OneProcess_parts` | a freeze in the middle fails a batch parts of which had been answered |
| `GuardNamesOwner` without `~ raced`, in `Startup_race` | of two instances past the lock the file names only one (the code does not look at what it removes: the loser of the race, when it fails, removes the file of the winner) |
| `RefusedOnlyIfRunning` without `recycled`, in `Startup_lifecycle` | a stale file whose number was given out again prevents a start |
| a body `[repo \|-> NoScope, base \|-> "ut"]` in `MCMarkBodies` | `ScopedHitFresh` fails: `mark_dirty` takes the empty `repo` (`handlers.rs:164`), the other handlers the first field that is not empty (`handlers.rs:256-269`) |
| `<<"base", "repo">>` in `MCScopeArgs`, and a call with `repo` and another `base` (a cacheable one with `repo` "bp"; or "ut" frozen) | `OnlyCacheableKept`, `ScopedHitFresh`, `NothingWhileFrozen` fail: rule, flag and freeze are looked up under `base` |
| `<<"repo", "base">>` in `MCScopeArgs`, and a call with `base` alone | `InvalidationIsSelective` fails: the answer is filed under a repository it is not about |
| a rule for `""` in `MCScopeRule`, and a call with an empty `repo` | `OnlyCacheableKept` fails: no rule is looked up for an empty scope (`proxy.rs:164`) |
| in `Answer`, a form with a content array and the files in a `_meta` of the answer itself | `NoMetaServed` fails: `extract_*` reads that place (`proxy.rs:419-429`), `strip_meta` leaves it alone (`proxy.rs:345`). It is not among the forms that `proxy.rs:403-412` expects, so it is not in the run |
| a freeze body with "bp" as `scope` and "ut" as `repo` | `NothingWhileFrozen` fails: the first field counts alone |
| calls of `get_class` beside `get_function`, for one object | `ScopedHitFresh` fails as in `CacheProxy_shared`: two keys, one flag |

Further observations made while reading, which no run shows: `README.md:91`
offers a bypass header that `core/server.rs:99-101` never reads; a TTL of 0 in a
tool rule (`config/cache_policy_rag.toml:12-13`) is raised to one second
(`proxy.rs:185`); `inner_value` looks at the first item of `content`, the
extractors at the first of type `text`;
`proxy.rs:149` says that a freeze refuses any `tools/call`, an empty batch is
answered all the same; `retry_after` reports the global freeze even if the
scope's own lasts longer (`freeze.rs:39-56`); `max_entries` is not enforced;
flags are pruned after
300 s while an entry may live 3600 s (`HitFresh` excepts pruned flags for that
reason); mtimes are whole seconds, so that two writes within a second look the
same to the comparison; `README_RU.md:73` says that the PID file is removed at a
graceful shutdown, but nothing ends `axum::serve` and no signal is handled, so
only a failed start removes it; `cache.default_ttl_seconds` and `health.*` are
read by nothing (the policy's default TTL counts); `replace_tools` is called by
nobody, so the tool list is that of the start; the fallback routes are not
subject to the freeze; a restart forgets announced flags and freezes, so that an
index still behind is then cached without a flag; the HELP text of
`cache_backend_errors_total` speaks of failed backend calls and that of
`cache_misses_total` of calls of the backend, while both count the waiters of a
flight too.

### Fairness

- `SFFairSpec`, `CacheProxy!FairSpec`: weak fairness of the steps of each task.
  They are never disabled by another task except by the end of a wait, and the
  Tokio scheduler polls every ready task. Weak fairness of the backend's answer
  is an *assumption about the backend* that the code does not enforce:
  `SFNoTimeoutSpec` leaves it out, with the result in the table above.
- `DeadlinePasses`, `Expire`: time passes. The ageing of flags and the ticks of
  `spawn_eviction_task` are not part of `FairSpec`, because the task is off when
  `evict_interval_seconds` is 0 (`main.rs:236-238`); `FlagsDrain` assumes them by
  itself (`Pruning => ...`), and the other liveness properties do without.
- `OneProcess!ProcessSpec`: each sub-call of a batch ends (it is a `handle` call, for which
  `EveryRequestAnswered` is checked) and the window's owner is polled.
- `Startup!FairBootSpec`: a start goes on unless it is killed (the backend answers
  or the connection fails), and the supervisor starts its instances again, which
  is what a supervisor is for and is assumed of those in `Supervised` only.
- In the same specification, a task that has read the length goes on, and the timer
  of the eviction task ticks; without it (`evict_interval_seconds = 0`) the gauge
  keeps whatever was stored last.
- Nothing is assumed of deliveries, commits, writes or handlers: a notification
  may be lost.

## 4. What is proved

All theorems hold for any finite or infinite sets of callers, keys, files,
channels, names and instances (the tasks of `Metrics` are finitely many, because
its samples are counted), under the named `ASSUME` of each module. These say that
the special values are apart and that bounds are numbers; `CallPath`'s
`RequestAssumption` adds that the scope arguments of a call, and the fields of a
body, are strings that name a repository or are empty, or no strings.

Every invariant, every action property and the refinement that a passing run
checks are proved. What a theorem supposes beyond that stands in its
statement, and each supposition is needed: the last column names the run, or the
row of the table in section 3, that shows the property fail without it.

| theorem (module `...Proofs`) | states | supposes | fails without |
|---|---|---|---|
| `SingleFlightTypeCorrect`, `RegisteredAlwaysHasLeader`, `AnswersAlwaysOwnKey` | `SFTypeOK`, `RegisteredHasLeader`, `AnswersOwnKey` | | |
| `SingleFlightImplements` | `ImplementsFlight` | | |
| `ProxyTypeCorrect`, `UsesSingleFlight`, `ProxyFlightsHaveLeaders`, `ProxyImplementsFlight` | `ProxyTypeOK`; the composition behaves like `SingleFlight` and inherits its theorems | | |
| `FlagsClearedInTime` | `ClearedOnlyWhenCaughtUp` | later versions have no earlier mtimes | |
| `OwnFilesFresh` | the `HitFresh` of the files in a set `Own` | the same; each file of `Own` belongs to one key (`Private`), and requests for that key do not overlap (`AloneOn`); nothing of other keys and files | `CacheProxy_shared`; two requests in `CacheProxy_fresh` |
| `StaleEntriesFlagged`, `HitsFresh` | `StaleIsFlagged`, `HitFresh` | that for all files (`DisjointDeps`, `AloneOn(File)`) | the same |
| `StoreTypeCorrect`, `EmptiedSetsGo` | `TypeOK`, `EmptySetsAreVacated` | | |
| `IndexCovers`, `InvalidationLeavesNone` | `IndexCoversCache`, `InvalidationComplete` | no insertion overlaps a removal | `CacheStore_lostlink` |
| `PathTypeCorrect`, `MetadataStays`, `FilesInvalidated` | `TypeOK`, `NoMetaServed`, `InvalidationReachesFiles` | | |
| `PolicyHolds` | `OnlyCacheableKept` | the first of `scope_args` is `repo`; rules are for repositories | `base` first; a rule for `""` |
| `RepositoryInvalidated` | `InvalidationIsSelective` | `scope_args` is `["repo"]` | a call by `base` alone |
| `ClosedToAll` | `NothingWhileFrozen` | the first of `scope_args` is `repo`; a body means one repository | `base` first; a body with two repositories |
| `FilesReadOnceFresh`, `ScopedHitsFresh` | the `ScopedHitFresh` of files read under one key; `ScopedHitFresh` | the same; for the second, each file is read under one key | `base` first; the body with an empty `repo`; a second tool |
| `ProcessTypeCorrect`, `EverySampleCounts` | `ProcessTypeOK`, `NoSampleLost` | | |
| `GrantedFreezesLast`, `ThawedStaysThawed`, `FreezesEnd` | `FreezesLast`, `ThawsHold`, `EndsOnTime` | | |
| `BatchOrdered`, `BatchRefusals`, `BatchFrozen`, `BatchLimited` | `ResultsInOrder`, `RefusedOnlyIfFrozen`, `FreezeHolds`, `AtMostCap` | | |
| `GuardOwnsFile` | `GuardNamesOwner` | | |
| `RestartNotBarred` | `RefusedOnlyIfRunning` | | |
| `StartupTypeCorrect`, `FailuresLeaveNoFile` | `BootTypeOK`, `GuardTakesFile` | | |

**The arguments.**

*Single-flight.* `SFInv` puts together the types, the leader behind each
registered key, the isolation of channels and the answers. The answers need the
isolation (a channel is never used by two keys at once), and that needs
`RegisteredHasLeader`, because a channel is free only when no leader holds it.
The refinement goes action by action: `Call`, `Join` and `Elect` may move a call
from one role of `Flight` to another, `Publish` is the moment at which an answer
is handed out, to all that count on the leader, and `Abandon` and `Release` only
take away somebody to count on. `CacheProxy` then inherits all of it: each of its
actions is a step of `SFNext` or a stutter of it.

*Freshness.* `FlagsClearedInTime` needs `NothingAhead` (no payload is newer than
the index): the comparison is of an answer taken earlier, and the index only moves
on. `HitsFresh` is by the invariant `FreshInv`: whatever is behind an announced
write, in the index, in the cache, in the hands of a request or in a flight, has its
flag standing at exactly the announced mtime (`IndexFlagged`, `CacheFlagged`,
`AnswersFlagged`), and whoever clears flags has put its answer into the cache or
found it gone (`ClearsForEntry`). A step that takes a flag away must preserve all
three for its file: that is where another key with the same file, or a second
request for the same key, breaks it, and the only place, so that the invariant can
be stated for the files of a set `Own` alone. In `CallPath`, where a call is one step, the
invariant is in two parts: an announced write is in the index or flagged
(`AnnouncedInv`), and an entry whose file is not flagged has what was announced
(`FreshState`). Between the two stands `EntryInv`: an entry is under the key of a
request that a client can make, its payload is what `strip_meta` leaves of an
answer to that request, and the files it is indexed under are those of the body.
It rests on the lemmas about the operators: `ScopeIs` and `PickScopeIs` (which
field decides), `Extracted` and `AnswerStripped` (what is found and what is left in
each form of answer), `StrippedClean` (neither it nor what `inner_value` takes from
it has metadata). `EntryInv` alone gives the policy, both invalidations and the
absence of metadata.

*Cache and index.* That emptied sets go holds for any interleaving: a worker that
has emptied a set is about to vacate it, or the set has been filled again. Coverage
needs `Apart` (what `Mixed = FALSE` means, as an invariant), what an invalidation
has collected already (`Visited`), and that a worker cleans up only after keys whose
entry has gone (`CleaningUp`): nobody can put the entry back before it is done.

*Freeze.* What a scope is owed is in the stored map (`Keeps`), and in every copy that
waits to be stored, unless that copy's own change takes it back (`TakesBack`: a thaw
of a scope that is owed a freeze, or the other way round); these are `Promises`. It is
inductive because `OwedAfter` lets a call that returns beside another one promise
nothing that a waiting copy does not have. `Bounded` ties every end that is stored or
about to be to what has been asked.

*The rest.* For the average, each sample is
counted at its successful exchange and nowhere else, and `MetricsInv` bounds them by
the requests under way. `BatchInv`: the window is the part of the batch between what
has been collected and what has been pulled, and what its sub-calls got is tied to
whether the scope has been open or frozen meanwhile. `LockInv`: as long as nobody has
raced, one instance at a time is starting, it gets past the check only if none runs,
and the file names the process past the lock; `FileNamesLive`, whatever has raced: a
live number in the file is that of a running instance, or has been given out again.
`Startup` is the lock with steps after it, each of which is a step of `PidLock` or
leaves it alone, so that `LockInv` carries over; `BootTypeOK`
ties the stage of `main` to that of the lock.

Only model-checked: liveness, as the prover has neither `ENABLED` nor fairness
(`EveryCallReturns`, `EveryRequestAnswered`, `EventuallyConsistent`, `FlagsDrain`,
`EveryBatchAnswered`, `GaugeSettles`, `ServiceRecovers`), and all counterexamples.

## 5. What is not modelled

- Of the metrics the counters (single atomic additions nothing reads back), the
  size of the reverse index (set by the very request that shows it) and the
  Prometheus text.
- The fallback proxy: it forwards what is no route of its own and shares nothing.
- The contents of the configuration: its values are the constants of the modules.
- What the MCP library does when the backend restarts and has lost the session
  opened at the start; the models let any call fail. And the tool list, which is
  a constant of the process.
- A restart of the process inside `CacheProxy`. The cache is lost together with
  the flags, the flights and the freeze, so that what follows is a behaviour from
  the initial state in which some notifications are never delivered, which
  `CacheProxy_live` has; `Startup` has the restarts themselves.
- In `CacheProxy`, a request whose future is dropped or panics at an await (its
  `SingleFlight` has `Abandonable = {}`). A dropped request leaves the cache, the
  flags and the freeze as they are, so that the only thing it can disturb is its
  flight, which `SingleFlight_calls` has; between links and entry, or between entry
  and flags, there is no await at which it could be dropped.
- In `CallPath`, the configuration that turns revalidation off (`proxy.rs:203-205`);
  `CacheProxy` has it (`Reval`). And answers in forms that neither the comment of
  `extract_dependent_files` nor `strip_meta` expects (the table in section 3).
- A number half written into the PID file that happens to be that of another live
  process, and a disk that fails the removal of the file.
- Scripts and the release pipeline.
- In `CacheProxy`, the backend's JSON (represented by `Deps` and `HasMtimes`) and
  scopes and policy (by the choice of a key and of the set `Uncacheable`); both
  are the matter of `CallPath`, which in turn has no interleavings and no time.
- The text of a key. `KeyFor` is a record: `sha256` is taken to be injective, and
  a scope to hold no separator, as `cache.rs:11-12` asks.
- The capacity (16) of the broadcast channels. It matters only if 17 callers of
  one key elect themselves leader in the same window.
- In `CacheProxy`, the scope as a part of the flags' key. `CallPath` has it, and
  shows what it costs that the reverse index has only the path: an invalidation
  reaches every repository with a file of that path.

## 6. Plan

Written, in this order: `SingleFlight`, `CacheProxy` over it, `CacheStore`,
`FreezeController`, `Batch`, `PidLock`, the proofs of each,
`Payload`/`CallPath`, `Flight`, `Startup`, `Metrics`, `OneProcess`.

To come, most important first:

1. Proofs about more than the runs check: an abstract cache with atomic
   operations, implemented by `CacheStore` for callers that do not overlap, and
   `NoDanglingLinks` where it holds.
2. Freshness by version, with `Mtime` functions that are constant over a second
   or go backwards, which the constant of `CacheProxy` already allows.
3. The length of TTLs and the ageing of flags as numbers: which relation of
   `dirty_ttl` to the TTLs makes `HitFresh` hold without the exception for
   pruned flags.

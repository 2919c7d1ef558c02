----------------------------- MODULE CacheProxy -----------------------------
(***************************************************************************)
(* CacheProxy::handle of cache-core/src/proxy.rs with everything it shares *)
(* with other tasks: the response cache and its reverse index, the dirty   *)
(* flags, the freeze, single-flight (module SingleFlight), the HTTP        *)
(* handlers of mcp-cache-ci/src/handlers.rs and the eviction task of       *)
(* main.rs.  The code-index daemon and the backend are external: they own  *)
(* disk and index, and talk to the proxy by answers and by POSTs, which    *)
(* may arrive late, out of order or never.                                 *)
(*                                                                         *)
(* The contents of a file are its version, 0 .. MaxVersion; an answer is   *)
(* the index version of each file it was built from.  A file stands for a  *)
(* (scope, path) pair, a key for a (scope, tool, arguments) triple.        *)
(***************************************************************************)
EXTENDS Integers, FiniteSets

CONSTANTS
    Request,      \* tasks that run handle(), one call at a time each
    Key,          \* cache keys
    File,         \* files the answers are built from
    Channel,      \* broadcast channels, see SingleFlight
    Reads,        \* Reads[k]: the files the answer to key k is built from
    Meta,         \* Meta[k]: what _meta of the answer to k carries
    Uncacheable,  \* keys whose scope or tool the policy does not cache
    Prefixes,     \* sets of keys a scope or key_prefix invalidation can select
    MaxVersion,   \* bound on the writes to each file
    Mtime,        \* Mtime[v]: modification time, in seconds, of version v
    Reval,        \* lazy_revalidation_enabled
    Stimuli,      \* which events from outside the instance contains
    Failed,       \* the Err of a backend call
    Closed,       \* see SingleFlight
    None          \* absence of a value

Version == 0 .. MaxVersion

\* What code-index reports: nothing (< 0.9), dependent_files (0.9 - 0.19),
\* or file_mtimes as well (since 0.20).
MetaKinds == {"none", "deps", "mtimes"}

ASSUME CacheProxyAssumption ==
    /\ MaxVersion \in Nat
    /\ Reads \in [Key -> SUBSET File]
    /\ Meta \in [Key -> MetaKinds]
    /\ Mtime \in [Version -> Nat]
    /\ Reval \in BOOLEAN
    /\ None \notin Key \cup Channel \cup Nat \cup [File -> Version]
    /\ Failed \notin [File -> Version]
    /\ Closed \notin [File -> Version]
    /\ Failed # Closed /\ Failed # None /\ Closed # None

VARIABLES
    disk,       \* [File -> Version], external: what is on disk
    index,      \* [File -> Version], external: what the backend answers from
    posts,      \* POSTs of the daemon that have not been delivered
    cache,      \* Cache::inner, key -> payload
    lapsed,     \* keys whose entry's expires_at is past
    rindex,     \* Cache::reverse_index, file -> keys
    dirty,      \* DirtySet, file -> observed mtime
    aged,       \* files whose flag is older than dirty_ttl
    frozen,     \* FreezeState::is_frozen of the scope
    pc,         \* where in handle() each request is
    key,        \* the cache key of each request
    held,       \* the payload a request holds across its steps
    todo,       \* dependent files the current loop has still to look at
    caught,     \* dirty files the index has caught up with, of this answer
    timeUp,     \* the revalidation deadline is past
    promised,   \* history: highest observed mtime delivered and not pruned
    stage, wants, inflight, chan, outcome     \* SingleFlight

worldVars == <<disk, index, posts>>
storeVars == <<cache, lapsed, rindex>>
flagVars  == <<dirty, aged, promised>>
reqVars   == <<pc, key, held, todo, caught, timeUp>>
sfVars    == <<stage, wants, inflight, chan, outcome>>
vars      == <<worldVars, storeVars, flagVars, frozen, reqVars, sfVars>>

Payload == [File -> Version]

\* An answer to k from the present index; other files do not show in it.
Snapshot(k) == [f \in File |-> IF f \in Reads[k] THEN index[f] ELSE 0]

KeyOutcome ==
    [k \in Key |-> {p \in Payload : \A f \in File \ Reads[k] : p[f] = 0} \cup {Failed}]

SF == INSTANCE SingleFlight WITH
        Caller <- Request, Outcome <- KeyOutcome, Abandonable <- {}

\* extract_dependent_files and extract_file_mtimes of an answer to k.
Deps(k) == IF Meta[k] = "none" THEN {} ELSE Reads[k]
HasMtimes(k) == Meta[k] = "mtimes"

\* get_with_deps finds an entry that has not expired.
Live(k) == cache[k] # None /\ k \notin lapsed

PCs == {"idle", "direct", "lookup", "scan", "flight", "compare", "insert", "clear"}

Init ==
    /\ disk = [f \in File |-> 0]
    /\ index = [f \in File |-> 0]
    /\ posts = {}
    /\ cache = [k \in Key |-> None]
    /\ lapsed = {}
    /\ rindex = [f \in File |-> {}]
    /\ dirty = [f \in File |-> None]
    /\ aged = {}
    /\ frozen = FALSE
    /\ pc = [r \in Request |-> "idle"]
    /\ key = [r \in Request |-> None]
    /\ held = [r \in Request |-> None]
    /\ todo = [r \in Request |-> {}]
    /\ caught = [r \in Request |-> {}]
    /\ timeUp = [r \in Request |-> FALSE]
    /\ promised = [f \in File |-> 0]
    /\ SF!SFInit

-----------------------------------------------------------------------------
(* The world outside: files, the daemon, the clock, the administrator.       *)

\* A file is written; the daemon's watcher posts /mark-dirty with its mtime.
Write(f) ==
    /\ disk[f] < MaxVersion
    /\ disk' = [disk EXCEPT ![f] = @ + 1]
    /\ posts' = IF "mark" \in Stimuli THEN posts \cup {<<"mark", f, Mtime[disk[f] + 1]>>}
                ELSE posts
    /\ UNCHANGED <<index, storeVars, flagVars, frozen, reqVars, sfVars>>

\* The daemon commits a reindex, of a version it has read some time ago, and
\* posts /invalidate.
Commit(f) ==
    /\ \E v \in index[f] + 1 .. disk[f] : index' = [index EXCEPT ![f] = v]
    /\ posts' = IF "invalidate" \in Stimuli THEN posts \cup {<<"invalidate", f>>} ELSE posts
    /\ UNCHANGED <<disk, storeVars, flagVars, frozen, reqVars, sfVars>>

\* Time passes: an entry outlives its TTL, a flag outlives dirty_ttl, a
\* request outlives its revalidation budget.
Expire(k) ==
    /\ "expire" \in Stimuli
    /\ Live(k)
    /\ lapsed' = lapsed \cup {k}
    /\ UNCHANGED <<worldVars, cache, rindex, flagVars, frozen, reqVars, sfVars>>

FlagAges(f) ==
    /\ "age" \in Stimuli
    /\ dirty[f] # None /\ f \notin aged
    /\ aged' = aged \cup {f}
    /\ UNCHANGED <<worldVars, storeVars, dirty, promised, frozen, reqVars, sfVars>>

DeadlinePasses(r) ==
    /\ Reval
    /\ pc[r] \in {"flight", "compare"}
    /\ ~ timeUp[r]
    /\ timeUp' = [timeUp EXCEPT ![r] = TRUE]
    /\ UNCHANGED <<worldVars, storeVars, flagVars, frozen, pc, key, held, todo, caught, sfVars>>

\* POST /freeze, POST /thaw (or the freeze running out), as the scope sees them.
FreezeOrThaw ==
    /\ "freeze" \in Stimuli
    /\ frozen' = ~ frozen
    /\ UNCHANGED <<worldVars, storeVars, flagVars, reqVars, sfVars>>

-----------------------------------------------------------------------------
(* The HTTP handlers and the eviction task.                                  *)

\* Slip: the last signal wins instead of the newest write.
MarkDirtyLast(f) ==
    \E m \in {Mtime[v] : v \in Version} :
        /\ <<"mark", f, m>> \in posts
        /\ posts' = posts \ {<<"mark", f, m>>}
        /\ dirty' = [dirty EXCEPT ![f] = m]
        /\ aged' = aged \ {f}
        /\ promised' = [promised EXCEPT ![f] = IF @ > m THEN @ ELSE m]
        /\ UNCHANGED <<disk, index, storeVars, frozen, reqVars, sfVars>>

\* POST /mark-dirty: keep the highest observed mtime, renew marked_at.
MarkDirty(f) ==
    \E m \in {Mtime[v] : v \in Version} :
        /\ <<"mark", f, m>> \in posts
        /\ posts' = posts \ {<<"mark", f, m>>}
        /\ dirty' = [dirty EXCEPT ![f] = IF @ # None /\ @ > m THEN @ ELSE m]
        /\ aged' = aged \ {f}
        /\ promised' = [promised EXCEPT ![f] = IF @ > m THEN @ ELSE m]
        /\ UNCHANGED <<disk, index, storeVars, frozen, reqVars, sfVars>>

\* remove_key_from_files for every key of S, with the deps of its entry.
Unlinked(S) == [f \in File |-> {k \in rindex[f] : k \notin S \/ f \notin Deps(k)}]

RemoveEntries(S) ==
    /\ cache' = [k \in Key |-> IF k \in S THEN None ELSE cache[k]]
    /\ lapsed' = lapsed \ S

\* POST /invalidate {file_paths}: the keys the reverse index has for the file.
\* Only the entries found are unlinked.
InvalidateFiles(f) ==
    LET removed == {k \in rindex[f] : cache[k] # None}
    IN  /\ <<"invalidate", f>> \in posts
        /\ posts' = posts \ {<<"invalidate", f>>}
        /\ RemoveEntries(removed)
        /\ rindex' = Unlinked(removed)
        /\ UNCHANGED <<disk, index, flagVars, frozen, reqVars, sfVars>>

\* POST /invalidate {scope} or {key_prefix}.
InvalidateWhere(S) ==
    LET removed == {k \in S : cache[k] # None}
    IN  /\ "where" \in Stimuli
        /\ RemoveEntries(removed)
        /\ rindex' = Unlinked(removed)
        /\ UNCHANGED <<worldVars, flagVars, frozen, reqVars, sfVars>>

\* POST /invalidate {all}.
Clear ==
    /\ "clear" \in Stimuli
    /\ RemoveEntries(Key)
    /\ rindex' = [f \in File |-> {}]
    /\ UNCHANGED <<worldVars, flagVars, frozen, reqVars, sfVars>>

\* Slip: the tick prunes no flag.
EvictTickPrunesNone ==
    /\ lapsed # {}
    /\ RemoveEntries(lapsed)
    /\ rindex' = Unlinked(lapsed)
    /\ UNCHANGED <<worldVars, flagVars, frozen, reqVars, sfVars>>

\* One tick of spawn_eviction_task: evict_expired, then prune_older_than.  A
\* pruned flag is a promise given up.
EvictTick ==
    /\ lapsed # {} \/ aged # {}
    /\ RemoveEntries(lapsed)
    /\ rindex' = Unlinked(lapsed)
    /\ dirty' = [f \in File |-> IF f \in aged THEN None ELSE dirty[f]]
    /\ promised' = [f \in File |-> IF f \in aged THEN 0 ELSE promised[f]]
    /\ aged' = {}
    /\ UNCHANGED <<worldVars, frozen, reqVars, sfVars>>

-----------------------------------------------------------------------------
(* CacheProxy::handle, cut at its awaits and at its accesses to shared state. *)

\* handle returns; its local state is gone.
Done(r) ==
    /\ pc' = [pc EXCEPT ![r] = "idle"]
    /\ key' = [key EXCEPT ![r] = None]
    /\ held' = [held EXCEPT ![r] = None]
    /\ todo' = [todo EXCEPT ![r] = {}]
    /\ caught' = [caught EXCEPT ![r] = {}]
    /\ timeUp' = [timeUp EXCEPT ![r] = FALSE]

\* Slip: the files found caught up are collected across retries.
ToFlightKeepsCaught(r) ==
    /\ pc' = [pc EXCEPT ![r] = "flight"]
    /\ held' = [held EXCEPT ![r] = None]
    /\ todo' = [todo EXCEPT ![r] = {}]
    /\ UNCHANGED <<key, caught, timeUp>>

\* On to forward_once, for the first time or again.
ToFlight(r) ==
    /\ pc' = [pc EXCEPT ![r] = "flight"]
    /\ held' = [held EXCEPT ![r] = None]
    /\ todo' = [todo EXCEPT ![r] = {}]
    /\ caught' = [caught EXCEPT ![r] = {}]
    /\ UNCHANGED <<key, timeUp>>

\* The freeze, then the policy.  A frozen call gets its error and leaves no
\* trace.  call_tool passes bypass = false, so that test never succeeds.
Begin(r, k) ==
    /\ pc[r] = "idle"
    /\ ~ frozen
    /\ pc' = [pc EXCEPT ![r] = IF k \in Uncacheable THEN "direct" ELSE "lookup"]
    /\ key' = [key EXCEPT ![r] = k]
    /\ UNCHANGED <<worldVars, storeVars, flagVars, frozen, held, todo, caught, timeUp, sfVars>>

\* forward_no_cache: whatever the backend answers goes straight to the client.
ForwardNoCache(r) ==
    /\ pc[r] = "direct"
    /\ Done(r)
    /\ UNCHANGED <<worldVars, storeVars, flagVars, frozen, sfVars>>

\* Slip: a look-up renews the TTL of what it finds, expired or not.
LookupRenews(r) ==
    /\ pc[r] = "lookup"
    /\ cache[key[r]] # None
    /\ lapsed' = lapsed \ {key[r]}
    /\ pc' = [pc EXCEPT ![r] = "scan"]
    /\ held' = [held EXCEPT ![r] = cache[key[r]]]
    /\ todo' = [todo EXCEPT ![r] = IF Reval THEN Deps(key[r]) ELSE {}]
    /\ UNCHANGED <<worldVars, cache, rindex, flagVars, frozen, key, caught, timeUp, sfVars>>

\* get_with_deps finds a live entry.
LookupFinds(r) ==
    /\ pc[r] = "lookup"
    /\ Live(key[r])
    /\ pc' = [pc EXCEPT ![r] = "scan"]
    /\ held' = [held EXCEPT ![r] = cache[key[r]]]
    /\ todo' = [todo EXCEPT ![r] = IF Reval THEN Deps(key[r]) ELSE {}]
    /\ UNCHANGED <<worldVars, storeVars, flagVars, frozen, key, caught, timeUp, sfVars>>

\* get_with_deps finds nothing, or removes an expired entry (remove_if), whose
\* links it leaves in the reverse index.
LookupMisses(r) ==
    /\ pc[r] = "lookup"
    /\ ~ Live(key[r])
    /\ RemoveEntries({key[r]})
    /\ ToFlight(r)
    /\ UNCHANGED <<worldVars, rindex, flagVars, frozen, sfVars>>

\* any_dirty looks at one dependent file.
Scan(r, f) ==
    /\ pc[r] = "scan"
    /\ f \in todo[r]
    /\ IF dirty[f] = None
       THEN /\ todo' = [todo EXCEPT ![r] = @ \ {f}]
            /\ UNCHANGED <<pc, key, held, caught, timeUp>>
       ELSE ToFlight(r)
    /\ UNCHANGED <<worldVars, storeVars, flagVars, frozen, sfVars>>

\* A clean hit.
Hit(r) ==
    /\ pc[r] = "scan"
    /\ todo[r] = {}
    /\ Done(r)
    /\ UNCHANGED <<worldVars, storeVars, flagVars, frozen, sfVars>>

\* forward_once: the call of do_or_join, its own steps, and its result.
Forward(r) ==
    /\ pc[r] = "flight"
    /\ SF!Call(r, key[r])
    /\ UNCHANGED <<worldVars, storeVars, flagVars, frozen, reqVars>>

Flight(r) ==
    /\ SF!FlightStep(r)
    /\ UNCHANGED <<worldVars, storeVars, flagVars, frozen, reqVars>>

\* The backend answers the leader's tools/call, or fails.
BackendAnswers(r) ==
    /\ stage[r] = "lead"
    /\ \E o \in {Snapshot(wants[r]), Failed} : SF!Finish(r, o)
    /\ UNCHANGED <<worldVars, storeVars, flagVars, frozen, reqVars>>

\* An error ends the request.  Without lazy revalidation nothing is compared.
Take(r) ==
    /\ pc[r] = "flight"
    /\ SF!Return(r)
    /\ IF outcome[r] \in {Failed, Closed}
       THEN Done(r)
       ELSE /\ pc' = [pc EXCEPT ![r] = "compare"]
            /\ held' = [held EXCEPT ![r] = outcome[r]]
            /\ todo' = [todo EXCEPT ![r] = IF Reval THEN Deps(key[r]) ELSE {}]
            /\ UNCHANGED <<key, caught, timeUp>>
    /\ UNCHANGED <<worldVars, storeVars, flagVars, frozen>>

\* One dependent file of the fresh answer against its flag: a file without a
\* reported mtime counts as behind.  Once one file is behind the outcome of the
\* loop is settled: answer without caching if the budget is spent, else retry.
CaughtUp(r, f) == HasMtimes(key[r]) /\ Mtime[held[r][f]] >= dirty[f]

\* Slip: the budget is not looked at.
CompareEndlessly(r, f) ==
    /\ pc[r] = "compare"
    /\ f \in todo[r]
    /\ IF dirty[f] = None \/ CaughtUp(r, f)
       THEN /\ todo' = [todo EXCEPT ![r] = @ \ {f}]
            /\ caught' = [caught EXCEPT ![r] = IF dirty[f] = None THEN @ ELSE @ \cup {f}]
            /\ UNCHANGED <<pc, key, held, timeUp>>
       ELSE ToFlight(r)
    /\ UNCHANGED <<worldVars, storeVars, flagVars, frozen, sfVars>>

Compare(r, f) ==
    /\ pc[r] = "compare"
    /\ f \in todo[r]
    /\ IF dirty[f] = None \/ CaughtUp(r, f)
       THEN /\ todo' = [todo EXCEPT ![r] = @ \ {f}]
            /\ caught' = [caught EXCEPT ![r] = IF dirty[f] = None THEN @ ELSE @ \cup {f}]
            /\ UNCHANGED <<pc, key, held, timeUp>>
       ELSE IF timeUp[r] THEN Done(r) ELSE ToFlight(r)
    /\ UNCHANGED <<worldVars, storeVars, flagVars, frozen, sfVars>>

\* insert_with_deps, first the reverse index ...
Associate(r) ==
    /\ pc[r] = "compare"
    /\ todo[r] = {}
    /\ rindex' = [f \in File |-> IF f \in Deps(key[r]) THEN rindex[f] \cup {key[r]}
                                 ELSE rindex[f]]
    /\ pc' = [pc EXCEPT ![r] = "insert"]
    /\ UNCHANGED <<worldVars, cache, lapsed, flagVars, frozen,
                   key, held, todo, caught, timeUp, sfVars>>

\* ... then the entry, with a new expires_at.
Insert(r) ==
    /\ pc[r] = "insert"
    /\ cache' = [cache EXCEPT ![key[r]] = held[r]]
    /\ lapsed' = lapsed \ {key[r]}
    /\ IF caught[r] = {}
       THEN Done(r)
       ELSE /\ pc' = [pc EXCEPT ![r] = "clear"]
            /\ todo' = [todo EXCEPT ![r] = caught[r]]
            /\ UNCHANGED <<key, held, caught, timeUp>>
    /\ UNCHANGED <<worldVars, rindex, flagVars, frozen, sfVars>>

\* Slip: the flag goes without being read again.
ClearFlagBlindly(r, f) ==
    /\ pc[r] = "clear"
    /\ f \in todo[r]
    /\ dirty' = [dirty EXCEPT ![f] = None] /\ aged' = aged \ {f}
    /\ IF todo[r] = {f}
       THEN Done(r)
       ELSE /\ todo' = [todo EXCEPT ![r] = @ \ {f}]
            /\ UNCHANGED <<pc, key, held, caught, timeUp>>
    /\ UNCHANGED <<worldVars, storeVars, promised, frozen, sfVars>>

\* clear_if_caught_up reads the flag again.
ClearFlag(r, f) ==
    /\ pc[r] = "clear"
    /\ f \in todo[r]
    /\ IF dirty[f] # None /\ Mtime[held[r][f]] >= dirty[f]
       THEN dirty' = [dirty EXCEPT ![f] = None] /\ aged' = aged \ {f}
       ELSE UNCHANGED <<dirty, aged>>
    /\ IF todo[r] = {f}
       THEN Done(r)
       ELSE /\ todo' = [todo EXCEPT ![r] = @ \ {f}]
            /\ UNCHANGED <<pc, key, held, caught, timeUp>>
    /\ UNCHANGED <<worldVars, storeVars, promised, frozen, sfVars>>

-----------------------------------------------------------------------------

RequestStep(r) ==
    \/ ForwardNoCache(r)
    \/ LookupFinds(r)
    \/ LookupMisses(r)
    \/ \E f \in File : Scan(r, f)
    \/ Hit(r)
    \/ Forward(r)
    \/ Flight(r)
    \/ BackendAnswers(r)
    \/ Take(r)
    \/ \E f \in File : Compare(r, f)
    \/ Associate(r)
    \/ Insert(r)
    \/ \E f \in File : ClearFlag(r, f)

Next ==
    \/ \E f \in File : Write(f) \/ Commit(f) \/ FlagAges(f)
    \/ \E k \in Key : Expire(k)
    \/ \E r \in Request : DeadlinePasses(r)
    \/ FreezeOrThaw
    \/ \E f \in File : MarkDirty(f) \/ InvalidateFiles(f)
    \/ \E S \in Prefixes : InvalidateWhere(S)
    \/ Clear
    \/ EvictTick
    \/ \E r \in Request : (\E k \in Key : Begin(r, k)) \/ RequestStep(r)

Spec == Init /\ [][Next]_vars

\* The runtime runs every ready task, the backend answers and the clock
\* advances.  Nothing obliges the daemon to commit or its POSTs to arrive.
Fairness ==
    /\ \A r \in Request : WF_vars(RequestStep(r)) /\ WF_vars(DeadlinePasses(r))
    /\ \A k \in Key : WF_vars(Expire(k))

\* Flags age and the eviction task ticks, which it does unless
\* evict_interval_seconds is 0 (main.rs:236-238).
Pruning == (\A f \in File : WF_vars(FlagAges(f))) /\ WF_vars(EvictTick)

FairSpec == Spec /\ Fairness

-----------------------------------------------------------------------------

WorldTypeOK ==
    /\ disk \in [File -> Version] /\ index \in [File -> Version]
    /\ \A f \in File : index[f] <= disk[f]

StoreTypeOK ==
    /\ cache \in [Key -> Payload \cup {None}]
    /\ lapsed \subseteq {k \in Key : cache[k] # None}
    /\ rindex \in [File -> SUBSET Key]

FlagTypeOK ==
    /\ dirty \in [File -> Nat \cup {None}]
    /\ aged \subseteq {f \in File : dirty[f] # None}
    /\ promised \in [File -> Nat]
    /\ frozen \in BOOLEAN

\* What a request holds at each point of handle().
RequestOK(r) ==
    /\ (pc[r] = "idle") <=> (key[r] = None)
    /\ (pc[r] \in {"scan", "compare", "insert", "clear"}) <=> (held[r] # None)
    /\ stage[r] # "idle" => pc[r] = "flight" /\ wants[r] = key[r]
    /\ caught[r] # {} => pc[r] \in {"compare", "insert", "clear"}
    /\ todo[r] # {} => pc[r] \in {"scan", "compare", "clear"}
    /\ pc[r] # "idle" => todo[r] \cup caught[r] \subseteq Deps(key[r])

RequestTypeOK ==
    /\ pc \in [Request -> PCs]
    /\ key \in [Request -> Key \cup {None}]
    /\ held \in [Request -> Payload \cup {None}]
    /\ todo \in [Request -> SUBSET File]
    /\ caught \in [Request -> SUBSET File]
    /\ timeUp \in [Request -> BOOLEAN]
    /\ \A r \in Request : RequestOK(r)

\* Type invariant, with what a request holds at each point of handle(): a key
\* unless idle, a payload from the look-up or the flight to the end of its use,
\* a flight only inside forward_once, and findings of the present answer only.
ProxyTypeOK == WorldTypeOK /\ StoreTypeOK /\ FlagTypeOK /\ RequestTypeOK

\* Whatever the proxy keeps or is about to hand out was once in the index.
NotAhead(p) == p \in Payload => \A f \in File : p[f] <= index[f]

NothingAhead ==
    /\ \A k \in Key : NotAhead(cache[k])
    /\ \A r \in Request : NotAhead(held[r]) /\ NotAhead(outcome[r])

\* A later version of a file never has an earlier modification time.
MonotoneMtime == \A v, w \in Version : v <= w => Mtime[v] <= Mtime[w]

\* A dirty flag goes away only if the backend has indexed at least the newest
\* write announced for the file, or if the flag has outlived dirty_ttl; and a
\* late or reordered /mark-dirty never lowers it.  The comparison of an answer
\* that is several steps old, and of another request's flight, may not clear
\* the flag of a newer write (dirty.rs: clear_if_caught_up, mark).
FlagStep(f) ==
    /\ dirty[f] # None /\ dirty'[f] = None
          => f \in aged \/ Mtime[index[f]] >= dirty[f]
    /\ dirty[f] # None /\ dirty'[f] # None => dirty'[f] >= dirty[f]

ClearedOnlyWhenCaughtUp == [][\A f \in File : FlagStep(f)]_vars

\* A clean hit never serves a file older than a write whose /mark-dirty had
\* been delivered when any_dirty looked at it (proxy.rs:187-197, README.md:115),
\* unless the flag was pruned.
CleanScan(r, f) == pc[r] = "scan" /\ f \in todo[r] /\ todo'[r] = todo[r] \ {f} /\ pc'[r] = "scan"

HitFresh ==
    [][\A r \in Request, f \in File :
          CleanScan(r, f) => Mtime[held[r][f]] >= promised[f]]_vars

\* An entry older than an announced write carries a flag, so that its next read
\* is revalidated: an outdated answer is not cached again without one
\* (CHANGELOG.md:143).
StaleIsFlagged ==
    \A k \in Key : \A f \in Deps(k) :
        Live(k) /\ Mtime[cache[k][f]] < promised[f] => dirty[f] # None

\* Every entry can be found by the files it depends on, as /invalidate
\* {file_paths} does (cache.rs:152-154: when an entry is visible its links are
\* already in the index).
IndexCoversCache ==
    \A k \in Key : cache[k] # None => \A f \in Deps(k) : k \in rindex[f]

\* Nothing is cached while the scope is frozen (README.md:89: "stop caching
\* during a large operation").
NoCachingWhileFrozen ==
    [][\A r \in Request : pc[r] = "insert" /\ pc'[r] # "insert" => ~ frozen]_vars

\* Every request is answered, however far the index is behind: the retries stop
\* at the deadline and no follower is left behind by its leader.
EveryRequestAnswered == \A r \in Request : pc[r] # "idle" ~> pc[r] = "idle"

\* With every notification lost the TTL alone makes the cache converge to the
\* index, although requests in flight can put outdated answers back.
EventuallyConsistent ==
    <>[](\A k \in Key : Live(k) => \A f \in File : cache[k][f] < index[f] => f \notin Reads[k])

\* If the eviction task runs, no dirty flag stays for ever, even if its file is
\* never read again or the backend does not report mtimes (dirty.rs:94-96).
FlagsDrain == Pruning => <>[](\A f \in File : dirty[f] = None)

=============================================================================

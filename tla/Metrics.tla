------------------------------ MODULE Metrics ------------------------------
(***************************************************************************)
(* What the tasks of a process write to Metrics of cache-core/src/         *)
(* metrics.rs without a lock: the running average of the backend's latency,*)
(* by compare-and-exchange, and the gauge cache_size, by a store of a len()*)
(* that was read before.  Of the average only the number of samples in it  *)
(* is kept, which a step can only have increased when it has succeeded.    *)
(* The hit, miss, bypass and error counters are single atomic additions.   *)
(***************************************************************************)
EXTENDS Naturals, FiniteSets

CONSTANTS
    Task,       \* requests, one at a time each
    Evictor,    \* the eviction task
    CacheKey,   \* keys of the cache
    MaxSamples  \* bound on the number of observed latencies

ASSUME MetricsAssumption ==
    /\ Evictor \notin Task /\ MaxSamples \in Nat
    /\ IsFiniteSet(CacheKey) /\ IsFiniteSet(Task)

VARIABLES
    cached,     \* keys in the cache
    cache_size, \* the gauge
    avg,        \* samples in avg_backend_latency_micros_bits
    doing,      \* where each task is
    seen,       \* what it has loaded: an average or a length
    ended       \* history: observations that have ended

metricsVars == <<cached, cache_size, avg, doing, seen, ended>>

Actor == Task \cup {Evictor}

MetricsInit ==
    /\ cached = {} /\ cache_size = 0
    /\ avg = 0 /\ ended = 0
    /\ doing = [a \in Actor |-> "idle"]
    /\ seen = [a \in Actor |-> 0]

Goes(a, from, to) == doing[a] = from /\ doing' = [doing EXCEPT ![a] = to]

\* A task with nothing loaded holds 0, whatever it has loaded before.
Holds(a, n) == seen' = [seen EXCEPT ![a] = n]

-----------------------------------------------------------------------------
(* observe_backend_latency_micros, after a call to the backend.               *)

Answered(t) ==
    /\ Cardinality({u \in Task : doing[u] \in {"load", "exchange"}}) + ended < MaxSamples
    /\ Goes(t, "idle", "load")
    /\ UNCHANGED <<cached, cache_size, avg, seen, ended>>

LoadAverage(t) ==
    /\ Goes(t, "load", "exchange") /\ Holds(t, avg)
    /\ UNCHANGED <<cached, cache_size, avg, ended>>

\* Slip: a plain store.
ExchangeBlindly(t) ==
    /\ Goes(t, "exchange", "answered") /\ Holds(t, 0)
    /\ avg' = seen[t] + 1 /\ ended' = ended + 1
    /\ UNCHANGED <<cached, cache_size>>

\* compare_exchange; once more from the start if the average has changed.
Exchange(t) ==
    /\ Holds(t, 0)
    /\ \/ /\ avg = seen[t]
          /\ Goes(t, "exchange", "answered")
          /\ avg' = avg + 1 /\ ended' = ended + 1
       \/ /\ avg # seen[t]
          /\ Goes(t, "exchange", "load")
          /\ UNCHANGED <<avg, ended>>
    /\ UNCHANGED <<cached, cache_size>>

-----------------------------------------------------------------------------
(* The cache changes, and whoever has changed it sets the gauge: two steps.   *)

Changes(a, from, keys) ==
    /\ Goes(a, from, "len")
    /\ cached' = keys
    /\ UNCHANGED <<cache_size, avg, seen, ended>>

\* CacheProxy::handle and forward_and_cache; or the answer is not kept.  A request
\* that has shared the flight of another observes no latency.
Insert(t, k) == \E from \in {"idle", "answered"} : Changes(t, from, cached \cup {k})

KeepsNothing(t) ==
    /\ Goes(t, "answered", "idle")
    /\ UNCHANGED <<cached, cache_size, avg, seen, ended>>

\* POST /invalidate.
Invalidate(t, S) == Changes(t, "idle", cached \ S)

\* Slip: a tick that has removed nothing leaves the gauge alone.
EvictSomething(S) == S \cap cached # {} /\ Changes(Evictor, "idle", cached \ S)

\* A tick of the eviction task; S are the expired entries.
Evict(S) == Changes(Evictor, "idle", cached \ S)

\* get finds an entry expired and removes it, and the gauge stays.
Reap(k) ==
    /\ cached' = cached \ {k}
    /\ UNCHANGED <<cache_size, avg, doing, seen, ended>>

ReadLength(a) ==
    /\ Goes(a, "len", "size") /\ Holds(a, Cardinality(cached))
    /\ UNCHANGED <<cached, cache_size, avg, ended>>

UpdateCacheSize(a) ==
    /\ Goes(a, "size", "idle") /\ Holds(a, 0)
    /\ cache_size' = seen[a]
    /\ UNCHANGED <<cached, avg, ended>>

Sizing(a) == ReadLength(a) \/ UpdateCacheSize(a)

-----------------------------------------------------------------------------

MetricsNext ==
    \/ \E t \in Task :
          \/ Answered(t) \/ LoadAverage(t) \/ Exchange(t) \/ KeepsNothing(t)
          \/ \E k \in CacheKey : Insert(t, k)
          \/ \E S \in SUBSET CacheKey : Invalidate(t, S)
    \/ \E S \in SUBSET CacheKey : Evict(S)
    \/ \E k \in CacheKey : Reap(k)
    \/ \E a \in Actor : Sizing(a)

-----------------------------------------------------------------------------

\* Type invariant; only a task between a load and its store holds a value.
MetricsTypeOK ==
    /\ cached \subseteq CacheKey
    /\ cache_size \in 0 .. Cardinality(CacheKey)
    /\ avg \in 0 .. MaxSamples /\ ended \in 0 .. MaxSamples
    /\ doing \in [Actor -> {"idle", "load", "exchange", "answered", "len", "size"}]
    /\ \A a \in Actor : seen[a] # 0 => doing[a] \in {"exchange", "size"}

\* No observation of the latency is lost, however many end at the same time
\* (metrics.rs:69, the comment at the compare_exchange).
NoSampleLost == avg = ended

\* When the cache has come to rest the gauge shows its size: a length that was
\* stored too late, and a lazily removed entry, are wrong only until the eviction
\* task has come round (main.rs:244; /health and /status show the gauge).
GaugeSettles == <>[][FALSE]_cached => <>[](cache_size = Cardinality(cached))

=============================================================================

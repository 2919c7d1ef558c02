--------------------------- MODULE OneProcessProofs ---------------------------
(***************************************************************************)
(* OneProcess for any scopes, clock, callers, tasks, keys and batches.     *)
(* What a call to the freeze promises survives every overlap of later      *)
(* calls, because each copy has in it what was promised before, unless the *)
(* copy's own change is the one that takes it back.  The average of Metrics*)
(* loses no sample, whoever writes it.                                     *)
(***************************************************************************)
EXTENDS OneProcess, BatchProofs, FiniteSetTheorems, TLAPS

-----------------------------------------------------------------------------
(* The freeze.                                                               *)

\* The map has in it what the scope is owed.
Keeps(map, s) == IF owed[s] = 0 THEN map[s] = 0 ELSE map[s] >= owed[s]

\* The call of this copy takes back what the scope is owed: a freeze if it is owed to
\* be open, a thaw if it is owed a freeze.
TakesBack(copy, s) == copy.scope = s /\ (copy.end = 0 <=> owed[s] # 0)

\* The map and every copy keep what a scope is owed.
Promises ==
    \A s \in Scopes : owed[s] # Nothing =>
        /\ Keeps(frozen, s)
        /\ \A a \in Admin : next[a] # Nothing => Keeps(next[a].map, s) \/ TakesBack(next[a], s)

\* No map has a freeze that nobody asked for.
Bounded ==
    \A s \in Scopes :
        /\ frozen[s] <= asked[s]
        /\ \A a \in Admin : next[a] # Nothing => next[a].map[s] <= asked[s]

FreezeInv == TypeOK /\ Promises /\ Bounded

LEMMA FreezeStarts == Init => FreezeInv
BY FreezeAssumption
   DEF Init, FreezeInv, TypeOK, Promises, Keeps, Bounded, Time

LEMMA FreezeLoadStep ==
    ASSUME FreezeInv, NEW a \in Admin, NEW s \in Scopes, FreezeLoad(a, s)
    PROVE  FreezeInv'
<1>. USE FreezeAssumption DEF FreezeInv, Time
<1>1. PICK t \in now .. MaxTime :
          /\ next' = [next EXCEPT ![a] =
                        [map |-> Extended(frozen, s, t), scope |-> s, end |-> t]]
          /\ asked' = Extended(asked, s, t)
  BY DEF FreezeLoad
<1>2. UNCHANGED <<now, frozen, owed>>
  BY DEF FreezeLoad
<1>3. t \in 1 .. MaxTime /\ frozen \in [Scopes -> Time] /\ asked \in [Scopes -> Time]
  BY DEF TypeOK
<1>. DEFINE map == Extended(frozen, s, t)
<1>4. /\ map \in [Scopes -> Time] /\ map[s] = Later(t, frozen[s])
      /\ \A u \in Scopes : u # s => map[u] = frozen[u]
  BY <1>3 DEF Extended, Later
<1>5. /\ asked' \in [Scopes -> Time] /\ asked'[s] = Later(t, asked[s])
      /\ \A u \in Scopes : u # s => asked'[u] = asked[u]
  BY <1>1, <1>3 DEF Extended, Later
<1>. DEFINE copy == [map |-> map, scope |-> s, end |-> t]
<1>6. copy \in Copy /\ copy # Nothing /\ copy.map = map /\ copy.scope = s /\ copy.end = t
  BY <1>3, <1>4 DEF Copy
<1>7. next'[a] = copy /\ \A b \in Admin : b # a => next'[b] = next[b]
  BY <1>1 DEF TypeOK
<1>. HIDE DEF map, copy
<1>8. TypeOK'
  <2>1. next' \in [Admin -> Copy \cup {Nothing}]
    BY <1>1, <1>6 DEF TypeOK, map, copy
  <2>2. copy.end # 0 /\ copy.map[copy.scope] >= copy.end
    BY <1>3, <1>4, <1>6 DEF Later
  <2>3. \A b \in Admin : next'[b] # Nothing =>
            IF next'[b].end = 0 THEN next'[b].map[next'[b].scope] = 0
            ELSE next'[b].map[next'[b].scope] >= next'[b].end
    BY <1>7, <2>2 DEF TypeOK
  <2>. QED
    BY <1>2, <1>5, <2>1, <2>3 DEF TypeOK
<1>9. Promises'
  <2>. SUFFICES ASSUME NEW u \in Scopes, owed[u] # Nothing
                PROVE  Keeps(map, u) \/ TakesBack(copy, u)
    BY <1>2, <1>6, <1>7 DEF Promises, Keeps, TakesBack
  <2>1. Keeps(frozen, u) /\ owed[u] \in Time
    BY DEF Promises, TypeOK
  <2>2. CASE u # s
    BY <2>1, <2>2, <1>4 DEF Keeps
  <2>3. CASE u = s /\ owed[u] = 0
    BY <2>3, <1>3, <1>6 DEF TakesBack
  <2>4. CASE u = s /\ owed[u] # 0
    <3>1. map[s] >= frozen[s] /\ map[s] \in Nat /\ frozen[s] \in Nat
      BY <1>3, <1>4 DEF Later
    <3>. QED
      BY <2>1, <2>4, <3>1 DEF Keeps
  <2>. QED
    BY <2>2, <2>3, <2>4
<1>10. Bounded'
  <2>1. \A u \in Scopes : asked'[u] >= asked[u] /\ asked[u] \in Nat /\ asked'[u] \in Nat
    BY <1>3, <1>5 DEF Later
  <2>2. \A u \in Scopes : frozen[u] <= asked[u] /\ frozen[u] \in Nat
    BY <1>3 DEF Bounded
  <2>3. \A u \in Scopes : map[u] <= asked'[u]
    BY <1>3, <1>4, <1>5, <2>1, <2>2 DEF Later
  <2>4. \A b \in Admin : next[b] # Nothing => \A u \in Scopes :
            next[b].map[u] <= asked[u] /\ next[b].map[u] \in Nat
    BY DEF Bounded, TypeOK, Copy
  <2>. QED
    BY <1>2, <1>6, <1>7, <2>1, <2>2, <2>3, <2>4 DEF Bounded
<1>. QED
  BY <1>8, <1>9, <1>10

LEMMA ThawLoadStep ==
    ASSUME FreezeInv, NEW a \in Admin, NEW s \in Scopes, ThawLoad(a, s)
    PROVE  FreezeInv'
<1>. USE FreezeAssumption DEF FreezeInv, Time
<1>1. UNCHANGED <<now, frozen, owed, asked>> /\ frozen \in [Scopes -> Time]
  BY DEF ThawLoad, TypeOK
<1>. DEFINE map == [frozen EXCEPT ![s] = 0]
            copy == [map |-> map, scope |-> s, end |-> 0]
<1>2. /\ map \in [Scopes -> Time] /\ map[s] = 0
      /\ \A u \in Scopes : u # s => map[u] = frozen[u]
  BY <1>1
<1>3. copy \in Copy /\ copy # Nothing /\ copy.map = map /\ copy.scope = s /\ copy.end = 0
  BY <1>2 DEF Copy
<1>4. next' = [next EXCEPT ![a] = copy]
  BY DEF ThawLoad
<1>5. next'[a] = copy /\ \A b \in Admin : b # a => next'[b] = next[b]
  BY <1>4 DEF TypeOK
<1>. HIDE DEF map, copy
<1>6. TypeOK'
  <2>1. next' \in [Admin -> Copy \cup {Nothing}]
    BY <1>3, <1>4 DEF TypeOK
  <2>2. \A b \in Admin : next'[b] # Nothing =>
            IF next'[b].end = 0 THEN next'[b].map[next'[b].scope] = 0
            ELSE next'[b].map[next'[b].scope] >= next'[b].end
    BY <1>2, <1>3, <1>5 DEF TypeOK
  <2>. QED
    BY <1>1, <2>1, <2>2 DEF TypeOK
<1>7. Promises'
  <2>. SUFFICES ASSUME NEW u \in Scopes, owed[u] # Nothing
                PROVE  Keeps(map, u) \/ TakesBack(copy, u)
    BY <1>1, <1>3, <1>5 DEF Promises, Keeps, TakesBack
  <2>1. Keeps(frozen, u)
    BY DEF Promises
  <2>. QED
    BY <2>1, <1>2, <1>3 DEF Keeps, TakesBack
<1>8. Bounded'
  <2>1. \A u \in Scopes : map[u] <= asked[u]
    BY <1>1, <1>2 DEF Bounded, TypeOK
  <2>. QED
    BY <1>1, <1>3, <1>5, <2>1 DEF Bounded
<1>. QED
  BY <1>6, <1>7, <1>8

LEMMA StoreStep ==
    ASSUME FreezeInv, NEW a \in Admin, Store(a)
    PROVE  FreezeInv'
<1>. USE FreezeAssumption DEF FreezeInv, Time
<1>. PICK copy : copy = next[a]
  OBVIOUS
<1>. PICK s : s = copy.scope
  OBVIOUS
<1>1. /\ copy # Nothing /\ UNCHANGED <<now, asked>> /\ frozen' = copy.map
      /\ owed' = [owed EXCEPT ![s] = OwedAfter(@, copy.end, Alone(a))]
      /\ next' = [next EXCEPT ![a] = Nothing]
  BY DEF Store
<1>2. copy \in Copy /\ s \in Scopes /\ copy.end \in Time /\ copy.map \in [Scopes -> Time]
  BY <1>1 DEF TypeOK, Copy
<1>3. /\ owed[s] \in Time \cup {Nothing} /\ owed'[s] = OwedAfter(owed[s], copy.end, Alone(a))
      /\ \A u \in Scopes : u # s => owed'[u] = owed[u]
  BY <1>1, <1>2 DEF TypeOK
<1>4. next'[a] = Nothing /\ \A b \in Admin : b # a => next'[b] = next[b]
  BY <1>1 DEF TypeOK
<1>5. IF copy.end = 0 THEN copy.map[s] = 0 ELSE copy.map[s] >= copy.end
  BY <1>1 DEF TypeOK
<1>6. \A u \in Scopes : owed[u] # Nothing => Keeps(copy.map, u) \/ TakesBack(copy, u)
  BY <1>1 DEF Promises
<1>7. TypeOK'
  <2>1. owed'[s] \in Time \cup {Nothing}
    BY <1>2, <1>3 DEF OwedAfter, Later
  <2>2. owed' \in [Scopes -> Time \cup {Nothing}]
    BY <1>1, <1>2, <1>3, <2>1 DEF TypeOK
  <2>3. next' \in [Admin -> Copy \cup {Nothing}]
    BY <1>1 DEF TypeOK
  <2>. QED
    BY <1>1, <1>2, <1>4, <2>2, <2>3 DEF TypeOK
<1>8. ASSUME NEW u \in Scopes, u # s, owed'[u] # Nothing
      PROVE  /\ Keeps(frozen, u)'
             /\ \A b \in Admin : next'[b] # Nothing =>
                   (Keeps(next[b].map, u) \/ TakesBack(next[b], u))'
  <2>1. owed'[u] = owed[u] /\ ~ TakesBack(copy, u)
    BY <1>3, <1>8 DEF TakesBack
  <2>2. Keeps(copy.map, u)
    BY <1>6, <1>8, <2>1
  <2>3. \A b \in Admin : next'[b] # Nothing =>
            next'[b] = next[b] /\ (Keeps(next[b].map, u) \/ TakesBack(next[b], u))
    BY <1>4, <1>8, <2>1 DEF Promises
  <2>. QED
    BY <1>1, <2>1, <2>2, <2>3 DEF Keeps, TakesBack
<1>9. Bounded'
  BY <1>1, <1>2, <1>4 DEF Bounded
<1>10. CASE Alone(a)
  <2>1. \A b \in Admin : next'[b] = Nothing
    BY <1>4, <1>10 DEF Alone
  <2>2. Keeps(frozen, s)'
    <3>1. CASE copy.end = 0
      BY <1>1, <1>3, <1>5, <1>10, <3>1 DEF Keeps, OwedAfter
    <3>2. CASE copy.end # 0
      <4>1. /\ owed'[s] = IF owed[s] = Nothing THEN copy.end ELSE Later(copy.end, owed[s])
            /\ copy.map[s] >= copy.end /\ copy.map[s] \in Nat /\ copy.end \in Nat
        BY <1>2, <1>3, <1>5, <1>10, <3>2 DEF OwedAfter
      <4>2. owed[s] \notin {0, Nothing} => copy.map[s] >= owed[s]
        BY <1>2, <1>6, <3>2 DEF Keeps, TakesBack
      <4>. QED
        BY <1>1, <1>3, <3>2, <4>1, <4>2 DEF Keeps, Later
    <3>. QED
      BY <3>1, <3>2
  <2>. QED
    BY <1>7, <1>8, <2>1, <2>2, <1>9 DEF Promises
<1>11. CASE ~ Alone(a)
  <2>. SUFFICES ASSUME owed'[s] # Nothing
                PROVE  /\ Keeps(frozen, s)'
                       /\ \A b \in Admin : next'[b] # Nothing =>
                             (Keeps(next[b].map, s) \/ TakesBack(next[b], s))'
    BY <1>7, <1>8, <1>9 DEF Promises
  <2>1. owed'[s] = owed[s] /\ (copy.end = 0 <=> owed[s] = 0)
    BY <1>3, <1>11 DEF OwedAfter
  <2>2. Keeps(copy.map, s)
    BY <1>2, <1>6, <2>1 DEF TakesBack
  <2>3. \A b \in Admin : next'[b] # Nothing =>
            next'[b] = next[b] /\ (Keeps(next[b].map, s) \/ TakesBack(next[b], s))
    BY <1>2, <1>4, <2>1 DEF Promises
  <2>. QED
    BY <1>1, <2>1, <2>2, <2>3 DEF Keeps, TakesBack
<1>. QED
  BY <1>10, <1>11

LEMMA ThawAllStep ==
    ASSUME FreezeInv, NEW a \in Admin, ThawAll(a)
    PROVE  FreezeInv'
<1>. USE FreezeAssumption DEF FreezeInv, Time
<1>1. /\ UNCHANGED <<now, next, asked>> /\ frozen' = [u \in Scopes |-> 0]
      /\ owed' = [u \in Scopes |-> OwedAfter(owed[u], 0, Alone(a))] /\ next[a] = Nothing
  BY DEF ThawAll
<1>2. \A u \in Scopes :
          /\ owed'[u] \in {0, Nothing}
          /\ owed'[u] = 0 => Alone(a) \/ owed[u] = 0
  BY <1>1 DEF OwedAfter
<1>3. TypeOK'
  <2>1. owed' \in [Scopes -> Time \cup {Nothing}]
    BY <1>1, <1>2
  <2>. QED
    BY <1>1, <2>1 DEF TypeOK
<1>4. Promises'
  <2>. SUFFICES ASSUME NEW u \in Scopes, owed'[u] = 0
                PROVE  /\ frozen'[u] = 0
                       /\ \A b \in Admin : next'[b] # Nothing =>
                             (Keeps(next[b].map, u) \/ TakesBack(next[b], u))'
    BY <1>2 DEF Promises, Keeps
  <2>1. CASE Alone(a)
    BY <1>1, <2>1 DEF Alone
  <2>2. CASE owed[u] = 0
    BY <1>1, <2>2 DEF Promises, Keeps, TakesBack
  <2>. QED
    BY <1>1, <1>2, <2>1, <2>2
<1>5. Bounded'
  BY <1>1 DEF Bounded, TypeOK
<1>. QED
  BY <1>3, <1>4, <1>5

LEMMA FreezeStep ==
    ASSUME FreezeInv, [Next]_vars
    PROVE  FreezeInv'
<1>1. CASE Tick
  BY <1>1, FreezeAssumption DEF Tick, FreezeInv, TypeOK, Promises, Keeps, TakesBack, Bounded, Time
<1>2. CASE UNCHANGED vars
  BY <1>2 DEF vars, FreezeInv, TypeOK, Promises, Keeps, TakesBack, Bounded
<1>. QED
  BY <1>1, <1>2, FreezeLoadStep, ThawLoadStep, StoreStep, ThawAllStep DEF Next

-----------------------------------------------------------------------------
(* The metrics.                                                              *)

\* The requests that are at the average now.
Observing == {u \in Task : doing[u] \in {"load", "exchange"}}

\* The bound on the samples holds with those to come, and a length that is about to
\* be stored is that of a set of keys.
MetricsInv ==
    /\ MetricsTypeOK
    /\ NoSampleLost
    /\ Cardinality(Observing) + ended <= MaxSamples
    /\ seen \in [Actor -> Nat]
    /\ \A a \in Actor : doing[a] = "size" => seen[a] <= Cardinality(CacheKey)

LEMMA KeysCounted ==
    ASSUME NEW S \in SUBSET CacheKey
    PROVE  Cardinality(S) \in 0 .. Cardinality(CacheKey)
BY MetricsAssumption, FS_Subset, FS_CardinalityType

\* One request goes from the average or comes to it, or none does.
LEMMA ObservingCounted ==
    /\ IsFiniteSet(Observing) /\ Cardinality(Observing) \in Nat
    /\ \A t : /\ t \in Observing => Cardinality(Observing \ {t}) = Cardinality(Observing) - 1
              /\ Cardinality(Observing \cup {t}) <= Cardinality(Observing) + 1
<1>1. IsFiniteSet(Observing)
  BY MetricsAssumption, FS_Subset DEF Observing
<1>2. Cardinality(Observing) \in Nat
  BY <1>1, FS_CardinalityType
<1>3. ASSUME NEW t
      PROVE  /\ t \in Observing => Cardinality(Observing \ {t}) = Cardinality(Observing) - 1
             /\ Cardinality(Observing \cup {t}) <= Cardinality(Observing) + 1
  BY <1>1, <1>2, FS_RemoveElement, FS_AddElement
<1>. QED
  BY <1>1, <1>2, <1>3

LEMMA MetricsStarts == MetricsInit => MetricsInv
<1>. SUFFICES ASSUME MetricsInit PROVE MetricsInv
  OBVIOUS
<1>1. Cardinality({}) \in 0 .. Cardinality(CacheKey)
  BY KeysCounted
<1>2. Observing = {} /\ Cardinality({}) = 0
  BY FS_EmptySet DEF MetricsInit, Observing, Actor
<1>. QED
  BY <1>1, <1>2, MetricsAssumption, FS_EmptySet
     DEF MetricsInit, MetricsInv, MetricsTypeOK, NoSampleLost

\* Only the exchange writes the average, and only if nobody has since its load.
LEMMA MetricsStep ==
    ASSUME MetricsInv, [MetricsNext]_metricsVars
    PROVE  MetricsInv'
<1>. USE MetricsAssumption, ObservingCounted
     DEF MetricsInv, MetricsTypeOK, NoSampleLost, Goes, Holds
<1>1. ASSUME NEW t \in Task, Answered(t)
      PROVE  MetricsInv'
  <2>1. Observing' = Observing \cup {t}
    BY <1>1 DEF Answered, Observing, Actor
  <2>2. Cardinality(Observing) + 1 + ended <= MaxSamples
    BY <1>1 DEF Answered, Observing
  <2>3. Cardinality(Observing') <= Cardinality(Observing) + 1
    BY <2>1
  <2>4. Cardinality(Observing') \in Nat
    BY <2>1, FS_AddElement, FS_CardinalityType
  <2>5. Cardinality(Observing') + ended <= MaxSamples
    BY <2>2, <2>3, <2>4
  <2>. QED
    BY <1>1, <2>5 DEF Answered, Actor
<1>2. ASSUME NEW t \in Task, LoadAverage(t)
      PROVE  MetricsInv'
  <2>1. Observing' = Observing
    BY <1>2 DEF LoadAverage, Observing, Actor
  <2>. QED
    BY <1>2, <2>1 DEF LoadAverage, Actor
<1>3. ASSUME NEW t \in Task, Exchange(t)
      PROVE  MetricsInv'
  <2>1. CASE avg = seen[t]
    <3>1. Observing' = Observing \ {t} /\ t \in Observing
      BY <1>3, <2>1 DEF Exchange, Observing, Actor
    <3>2. /\ Cardinality(Observing') = Cardinality(Observing) - 1
          /\ Cardinality(Observing') \in Nat
      BY <3>1, FS_RemoveElement, FS_CardinalityType
    <3>3. avg' = avg + 1 /\ ended' = ended + 1
      BY <1>3, <2>1 DEF Exchange
    <3>4. /\ ended' \in 0 .. MaxSamples
          /\ Cardinality(Observing') + ended' <= MaxSamples
      BY <3>2, <3>3
    <3>. QED
      BY <1>3, <2>1, <3>3, <3>4 DEF Exchange, Actor
  <2>2. CASE avg # seen[t]
    <3>1. Observing' = Observing
      BY <1>3, <2>2 DEF Exchange, Observing, Actor
    <3>. QED
      BY <1>3, <2>2, <3>1 DEF Exchange, Actor
  <2>. QED
    BY <2>1, <2>2
<1>4. ASSUME NEW a \in Actor, NEW from \in {"idle", "answered"}, NEW K \in SUBSET CacheKey,
             Changes(a, from, K)
      PROVE  MetricsInv'
  <2>1. Observing' = Observing
    BY <1>4 DEF Changes, Observing, Actor
  <2>. QED
    BY <1>4, <2>1 DEF Changes
<1>5. ASSUME NEW t \in Task, KeepsNothing(t)
      PROVE  MetricsInv'
  <2>1. Observing' = Observing
    BY <1>5 DEF KeepsNothing, Observing, Actor
  <2>. QED
    BY <1>5, <2>1 DEF KeepsNothing, Actor
<1>6. ASSUME NEW k \in CacheKey, Reap(k)
      PROVE  MetricsInv'
  <2>1. Observing' = Observing
    BY <1>6 DEF Reap, Observing
  <2>. QED
    BY <1>6, <2>1 DEF Reap
<1>7. ASSUME NEW a \in Actor, ReadLength(a)
      PROVE  MetricsInv'
  <2>1. Observing' = Observing
    BY <1>7 DEF ReadLength, Observing, Actor
  <2>2. Cardinality(cached) \in 0 .. Cardinality(CacheKey)
    BY KeysCounted
  <2>3. Cardinality(CacheKey) \in Nat
    BY FS_CardinalityType
  <2>. QED
    BY <1>7, <2>1, <2>2, <2>3 DEF ReadLength
<1>8. ASSUME NEW a \in Actor, UpdateCacheSize(a)
      PROVE  MetricsInv'
  <2>1. Observing' = Observing
    BY <1>8 DEF UpdateCacheSize, Observing, Actor
  <2>2. Cardinality(CacheKey) \in Nat
    BY FS_CardinalityType
  <2>. QED
    BY <1>8, <2>1, <2>2 DEF UpdateCacheSize
<1>9. CASE UNCHANGED metricsVars
  <2>1. Observing' = Observing
    BY <1>9 DEF metricsVars, Observing
  <2>. QED
    BY <1>9, <2>1 DEF metricsVars
<1>. QED
  <2>1. ASSUME NEW t \in Task, NEW k \in CacheKey, Insert(t, k)
        PROVE  MetricsInv'
    <3>1. PICK from \in {"idle", "answered"} : Changes(t, from, cached \cup {k})
      BY <2>1 DEF Insert
    <3>. QED
      BY <3>1, <1>4 DEF Actor
  <2>2. ASSUME NEW a \in Actor, NEW S \in SUBSET CacheKey, Changes(a, "idle", cached \ S)
        PROVE  MetricsInv'
    BY <2>2, <1>4
  <2>. QED
    BY <1>1, <1>2, <1>3, <1>5, <1>6, <1>7, <1>8, <1>9, <2>1, <2>2
       DEF MetricsNext, Invalidate, Evict, Sizing, Actor

-----------------------------------------------------------------------------
(* All of them, in one process.                                              *)

LEMMA EachSteps ==
    ASSUME [ProcessNext]_processVars
    PROVE  [Next]_vars /\ [MetricsNext]_metricsVars /\ [BatchNext]_batchVars
BY DEF ProcessNext, Freezing, Measuring, Batching, processVars

LEMMA ProcessHolds == ProcessSpec => [](FreezeInv /\ MetricsInv /\ BatchInv)
<1>1. ProcessInit => FreezeInv /\ MetricsInv /\ BatchInv
  BY FreezeStarts, MetricsStarts, BatchStarts DEF ProcessInit
<1>2. FreezeInv /\ MetricsInv /\ BatchInv /\ [ProcessNext]_processVars
      => (FreezeInv /\ MetricsInv /\ BatchInv)'
  BY EachSteps, FreezeStep, MetricsStep, BatchStepInv
<1>. QED
  BY <1>1, <1>2, PTL DEF ProcessSpec

\* However many calls overlap, each part keeps its types, and only a task between a
\* load and its store holds a value.
THEOREM ProcessTypeCorrect == ProcessSpec => []ProcessTypeOK
<1>1. FreezeInv /\ MetricsInv /\ BatchInv => ProcessTypeOK
  BY DEF ProcessTypeOK, FreezeInv, MetricsInv, BatchInv
<1>. QED
  BY ProcessHolds, <1>1, PTL

\* No observation of the latency is lost, however many requests end at a time
\* (observe_backend_latency_micros).
THEOREM EverySampleCounts == ProcessSpec => []NoSampleLost
<1>1. MetricsInv => NoSampleLost
  BY DEF MetricsInv
<1>. QED
  BY ProcessHolds, <1>1, PTL

\* A freeze whose call returned while no other was under way lasts as long as it was
\* asked for, however many callers overlap after it (FreezeController::freeze).
THEOREM GrantedFreezesLast == ProcessSpec => []FreezesLast
<1>1. FreezeInv => FreezesLast
  <2>. SUFFICES ASSUME FreezeInv, NEW u \in Scopes, owed[u] # Nothing, owed[u] > now
                PROVE  frozen[u] > now
    BY DEF FreezesLast, Frozen
  <2>1. owed[u] \in Nat /\ frozen[u] \in Nat /\ now \in Nat /\ Keeps(frozen, u)
    BY FreezeAssumption DEF FreezeInv, TypeOK, Promises, Time
  <2>. QED
    BY <2>1 DEF Keeps
<1>. QED
  BY ProcessHolds, <1>1, PTL

\* A scope whose thaw returned while no other call was under way stays open until
\* somebody freezes it (FreezeController::thaw, thaw_all).
THEOREM ThawedStaysThawed == ProcessSpec => []ThawsHold
<1>1. FreezeInv => ThawsHold
  BY FreezeAssumption DEF FreezeInv, Promises, Keeps, ThawsHold, Time
<1>. QED
  BY ProcessHolds, <1>1, PTL

\* However calls overlap, no scope is refused beyond the last freeze that was asked
\* for it, or for all (FreezeState::is_frozen).
THEOREM FreezesEnd == ProcessSpec => []EndsOnTime
<1>1. FreezeInv => EndsOnTime
  <2>. SUFFICES ASSUME FreezeInv, NEW u \in Scopes, frozen[u] > now PROVE asked[u] > now
    BY DEF EndsOnTime, Frozen, Scopes
  <2>1. asked[u] \in Nat /\ frozen[u] \in Nat /\ now \in Nat /\ frozen[u] <= asked[u]
    BY FreezeAssumption DEF FreezeInv, TypeOK, Bounded, Time
  <2>. QED
    BY <2>1
<1>. QED
  BY ProcessHolds, <1>1, PTL

=============================================================================

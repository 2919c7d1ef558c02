-------------------------- MODULE CacheStoreProofs --------------------------
(***************************************************************************)
(* CacheStore for any keys and files.  For any number of workers: the      *)
(* types, and that no emptied set stays in the index.  As long as no       *)
(* insertion overlaps a removal: the index covers the cache, and           *)
(* invalidate_files is complete; the invariant says what each loop has     *)
(* done so far.                                                            *)
(***************************************************************************)
EXTENDS CacheStore, TLAPS

Depends(k, f) == inner[k] # None /\ f \in inner[k].dependent_files

\* Insertions and removals stay apart.
Apart == \A v, w \in Worker : ~ (Inserting(v) /\ Removing(w))

\* The links a worker is going to remove belong to entries that are gone, and
\* the set it is going to drop is empty.
CleaningUp(w) ==
    /\ \A k \in Key, f \in File : <<k, f>> \in job[w].links => inner[k] = None
    /\ job[w].do = "vacate" => \A f \in job[w].left : Linked(f) = {}

\* What the loops over files and keys have already visited.
Visited(w) ==
    /\ job[w].do = "associate" =>
          \A f \in job[w].files \ job[w].left : job[w].key \in Linked(f)
    /\ job[w].do = "collect" =>
          \A k \in Key : \A f \in job[w].files \ job[w].left :
              Depends(k, f) => k \in job[w].keys
    /\ job[w].do = "clear" => \A k \in Key \ job[w].keys : inner[k] = None
    /\ job[w].do = "clearLinks" => \A k \in Key : inner[k] = None

GroupedInv ==
    /\ TypeOK
    /\ Apart
    /\ IndexCoversCache
    /\ InvalidationComplete
    /\ \A w \in Worker : CleaningUp(w) /\ Visited(w)

IndexType == reverse_index \in [File -> (SUBSET Key) \cup {None}]

LEMMA LinkedType == ASSUME IndexType PROVE \A f \in File : Linked(f) \subseteq Key
BY DEF IndexType, Linked

\* What a link made and a link removed do to the sets of the files.
LEMMA LinkMade ==
    ASSUME IndexType, NEW f \in File, NEW k \in Key,
           reverse_index' = [reverse_index EXCEPT ![f] = Linked(f) \cup {k}]
    PROVE  \A g \in File : Linked(g)' = IF g = f THEN Linked(g) \cup {k} ELSE Linked(g)
<1>1. Linked(f) \cup {k} # None
  BY CacheStoreAssumption, LinkedType
<1>. QED
  BY <1>1 DEF IndexType, Linked

LEMMA LinkRemoved ==
    ASSUME IndexType, NEW f \in File, NEW k \in Key,
           reverse_index' = [reverse_index EXCEPT ![f] = Without(f, k)]
    PROVE  \A g \in File : Linked(g)' = IF g = f THEN Linked(g) \ {k} ELSE Linked(g)
<1>1. CASE reverse_index[f] = None
  BY <1>1 DEF IndexType, Linked, Without
<1>2. CASE reverse_index[f] # None
  <2>1. reverse_index[f] \ {k} # None
    BY <1>2, CacheStoreAssumption DEF IndexType
  <2>. QED
    BY <1>2, <2>1 DEF IndexType, Linked, Without
<1>. QED
  BY <1>1, <1>2

\* Associate and Unlink change the set of their file and no other.
LEMMA AssociateLinks ==
    ASSUME TypeOK, NEW w \in Worker, NEW f \in File, Associate(w, f)
    PROVE  \A g \in File :
              Linked(g)' = IF g = f THEN Linked(g) \cup {job[w].key} ELSE Linked(g)
<1>1. IndexType
  BY DEF TypeOK, IndexType
<1>2. job[w].key \in Key
  BY DEF TypeOK, Job, Associate
<1>. QED
  BY <1>1, <1>2, LinkMade DEF Associate

LEMMA UnlinkLinks ==
    ASSUME TypeOK, NEW w \in Worker, NEW k \in Key, NEW f \in File, Unlink(w, k, f)
    PROVE  \A g \in File : Linked(g)' = IF g = f THEN Linked(g) \ {k} ELSE Linked(g)
<1>1. IndexType
  BY DEF TypeOK, IndexType
<1>. QED
  BY <1>1, LinkRemoved DEF Unlink

LEMMA CollectType ==
    ASSUME job \in [Worker -> Job], NEW w \in Worker, NEW L \in SUBSET File, NEW K \in SUBSET Key,
           job' = [job EXCEPT ![w].left = L, ![w].keys = K]
    PROVE  job' \in [Worker -> Job]
<1>1. job[w] \in Job
  OBVIOUS
<1>2. [job[w] EXCEPT !.left = L, !.keys = K] \in Job
  BY <1>1 DEF Job
<1>3. job' = [job EXCEPT ![w] = [job[w] EXCEPT !.left = L, !.keys = K]]
  OBVIOUS
<1>. QED
  BY <1>2, <1>3

\* Every step keeps the types.
LEMMA TypeStep ==
    ASSUME TypeOK, [Next]_vars
    PROVE  TypeOK'
<1>. USE CacheStoreAssumption DEF TypeOK, Job, Entry
<1>1. ASSUME NEW w \in Worker, NEW k \in Key, NEW D \in SUBSET File, InsertWithDeps(w, k, D)
      PROVE  TypeOK'
  BY <1>1 DEF InsertWithDeps, Begins, Idle
<1>2. ASSUME NEW w \in Worker, NEW k \in Key, Get(w, k)
      PROVE  TypeOK'
  BY <1>2 DEF Get, Begins, Idle
<1>3. ASSUME NEW w \in Worker, NEW F \in SUBSET File, InvalidateFiles(w, F)
      PROVE  TypeOK'
  BY <1>3 DEF InvalidateFiles, Begins, Idle
<1>4. ASSUME NEW w \in Worker, NEW S \in SUBSET Key, InvalidateWhere(w, S)
      PROVE  TypeOK'
  BY <1>4 DEF InvalidateWhere, Begins, Idle
<1>5. ASSUME NEW w \in Worker, EvictExpired(w)
      PROVE  TypeOK'
  BY <1>5 DEF EvictExpired, Begins, Idle
<1>6. ASSUME NEW w \in Worker, Clear(w)
      PROVE  TypeOK'
  BY <1>6 DEF Clear, Begins, Idle
<1>7. ASSUME NEW w \in Worker, NEW f \in File, Associate(w, f)
      PROVE  TypeOK'
  BY <1>7 DEF Associate, Linked
<1>8. ASSUME NEW w \in Worker, InnerInsert(w)
      PROVE  TypeOK'
  BY <1>8 DEF InnerInsert, Idle
<1>9. ASSUME NEW w \in Worker, Reap(w)
      PROVE  TypeOK'
  BY <1>9 DEF Reap, Idle
<1>10. ASSUME NEW w \in Worker, NEW f \in File, Collect(w, f)
      PROVE  TypeOK'
  <2>1. Linked(f) \subseteq Key
    BY LinkedType DEF IndexType
  <2>2. job[w].left \ {f} \in SUBSET File /\ job[w].keys \cup Linked(f) \in SUBSET Key
    BY <2>1
  <2>3. job' = [job EXCEPT ![w].left = job[w].left \ {f}, ![w].keys = job[w].keys \cup Linked(f)]
    BY <1>10 DEF Collect
  <2>4. job' \in [Worker -> Job]
    BY <2>2, <2>3, CollectType, ZenonT(30)
  <2>5. \A v \in Worker \ {w} : job'[v] = job[v]
    BY <1>10 DEF Collect
  <2>6. /\ job'[w].do = "collect" /\ job'[w].key = None /\ job'[w].links = job[w].links
        /\ job'[w].files = job[w].files
    BY <1>10 DEF Collect
  <2>. QED
    BY <1>10, <2>4, <2>5, <2>6, SMTT(30) DEF Collect
<1>11. ASSUME NEW w \in Worker, NEW k \in Key, RemoveEntry(w, k)
      PROVE  TypeOK'
  BY <1>11 DEF RemoveEntry, Doomed
<1>12. ASSUME NEW w \in Worker, StartUnlink(w)
      PROVE  TypeOK'
  BY <1>12 DEF StartUnlink
<1>13. ASSUME NEW w \in Worker, NEW k \in Key, NEW f \in File, Unlink(w, k, f)
      PROVE  TypeOK'
  <2>1. reverse_index' \in [File -> (SUBSET Key) \cup {None}] /\ UNCHANGED inner
    BY <1>13 DEF Unlink, Without
  <2>2. CASE Without(f, k) = {}
    BY <1>13, <2>1, <2>2 DEF Unlink
  <2>3. CASE Without(f, k) # {}
    BY <1>13, <2>1, <2>3 DEF Unlink
  <2>. QED
    BY <2>2, <2>3
<1>14. ASSUME NEW w \in Worker, NEW f \in File, Vacate(w, f)
      PROVE  TypeOK'
  BY <1>14 DEF Vacate
<1>15. ASSUME NEW w \in Worker, Unlinked(w)
      PROVE  TypeOK'
  BY <1>15 DEF Unlinked, Idle
<1>16. ASSUME NEW w \in Worker, NEW k \in Key, ClearEntry(w, k)
      PROVE  TypeOK'
  <2>1. CASE job[w].keys = {k}
    BY <1>16, <2>1 DEF ClearEntry, Idle, Linked
  <2>2. CASE job[w].keys # {k}
    <3>1. job' = [job EXCEPT ![w].keys = job[w].keys \ {k}]
      BY <1>16, <2>2 DEF ClearEntry
    <3>2. [job[w] EXCEPT !.keys = job[w].keys \ {k}] \in Job
      OBVIOUS
    <3>3. job' = [job EXCEPT ![w] = [job[w] EXCEPT !.keys = job[w].keys \ {k}]]
      BY <3>1
    <3>. QED
      BY <1>16, <2>2, <3>2, <3>3 DEF ClearEntry
  <2>. QED
    BY <2>1, <2>2
<1>17. ASSUME NEW w \in Worker, NEW f \in File, ClearLinks(w, f)
      PROVE  TypeOK'
  <2>1. reverse_index' \in [File -> (SUBSET Key) \cup {None}] /\ UNCHANGED inner
    BY <1>17 DEF ClearLinks
  <2>2. CASE job[w].left = {f}
    BY <1>17, <2>1, <2>2 DEF ClearLinks, Idle
  <2>3. CASE job[w].left # {f}
    BY <1>17, <2>1, <2>3 DEF ClearLinks
  <2>. QED
    BY <2>2, <2>3
<1>18. ASSUME NEW k \in Key, Expire(k)
      PROVE  TypeOK'
  <2>1. inner[k] \in Entry
    BY <1>18 DEF Expire
  <2>2. [inner[k] EXCEPT !.expired = TRUE] \in Entry
    BY <2>1
  <2>3. inner' \in [Key -> Entry \cup {None}]
    BY <1>18, <2>2 DEF Expire
  <2>. QED
    BY <1>18, <2>3 DEF Expire
<1>19. CASE UNCHANGED vars
  BY <1>19 DEF vars
<1>. QED
  BY <1>1, <1>2, <1>3, <1>4, <1>5, <1>6, <1>7, <1>8, <1>9, <1>10, <1>11, <1>12, <1>13, <1>14, <1>15, <1>16, <1>17, <1>18, <1>19
     DEF Next, Start, Step

\* Every step keeps emptied sets about to be removed.
LEMMA EmptySetsStep ==
    ASSUME TypeOK, EmptySetsAreVacated, [Next]_vars
    PROVE  EmptySetsAreVacated'
<1>. USE CacheStoreAssumption DEF TypeOK, EmptySetsAreVacated, Job
<1>1. ASSUME NEW w \in Worker, NEW k \in Key, NEW D \in SUBSET File, InsertWithDeps(w, k, D)
      PROVE  EmptySetsAreVacated'
  BY <1>1 DEF InsertWithDeps, Begins, Idle
<1>2. ASSUME NEW w \in Worker, NEW k \in Key, Get(w, k)
      PROVE  EmptySetsAreVacated'
  BY <1>2 DEF Get, Begins, Idle
<1>3. ASSUME NEW w \in Worker, NEW F \in SUBSET File, InvalidateFiles(w, F)
      PROVE  EmptySetsAreVacated'
  BY <1>3 DEF InvalidateFiles, Begins, Idle
<1>4. ASSUME NEW w \in Worker, NEW S \in SUBSET Key, InvalidateWhere(w, S)
      PROVE  EmptySetsAreVacated'
  BY <1>4 DEF InvalidateWhere, Begins, Idle
<1>5. ASSUME NEW w \in Worker, EvictExpired(w)
      PROVE  EmptySetsAreVacated'
  BY <1>5 DEF EvictExpired, Begins, Idle
<1>6. ASSUME NEW w \in Worker, Clear(w)
      PROVE  EmptySetsAreVacated'
  BY <1>6 DEF Clear, Begins, Idle
<1>7. ASSUME NEW w \in Worker, NEW f \in File, Associate(w, f)
      PROVE  EmptySetsAreVacated'
  BY <1>7 DEF Associate, Linked
<1>8. ASSUME NEW w \in Worker, InnerInsert(w)
      PROVE  EmptySetsAreVacated'
  BY <1>8 DEF InnerInsert, Idle
<1>9. ASSUME NEW w \in Worker, Reap(w)
      PROVE  EmptySetsAreVacated'
  BY <1>9 DEF Reap, Idle
<1>10. ASSUME NEW w \in Worker, NEW f \in File, Collect(w, f)
      PROVE  EmptySetsAreVacated'
  BY <1>10 DEF Collect
<1>11. ASSUME NEW w \in Worker, NEW k \in Key, RemoveEntry(w, k)
      PROVE  EmptySetsAreVacated'
  BY <1>11 DEF RemoveEntry
<1>12. ASSUME NEW w \in Worker, StartUnlink(w)
      PROVE  EmptySetsAreVacated'
  BY <1>12 DEF StartUnlink
<1>13. ASSUME NEW w \in Worker, NEW k \in Key, NEW f \in File, Unlink(w, k, f)
      PROVE  EmptySetsAreVacated'
  <2>1. CASE Without(f, k) = {}
    BY <1>13, <2>1 DEF Unlink, Without, Linked
  <2>2. CASE Without(f, k) # {}
    BY <1>13, <2>2 DEF Unlink, Without, Linked
  <2>. QED
    BY <2>1, <2>2
<1>14. ASSUME NEW w \in Worker, NEW f \in File, Vacate(w, f)
      PROVE  EmptySetsAreVacated'
  BY <1>14 DEF Vacate
<1>15. ASSUME NEW w \in Worker, Unlinked(w)
      PROVE  EmptySetsAreVacated'
  BY <1>15 DEF Unlinked, Idle
<1>16. ASSUME NEW w \in Worker, NEW k \in Key, ClearEntry(w, k)
      PROVE  EmptySetsAreVacated'
  <2>1. CASE job[w].keys = {k}
    BY <1>16, <2>1 DEF ClearEntry, Idle, Linked
  <2>2. CASE job[w].keys # {k}
    BY <1>16, <2>2 DEF ClearEntry, Idle, Linked
  <2>. QED
    BY <2>1, <2>2
<1>17. ASSUME NEW w \in Worker, NEW f \in File, ClearLinks(w, f)
      PROVE  EmptySetsAreVacated'
  <2>1. CASE job[w].left = {f}
    BY <1>17, <2>1 DEF ClearLinks, Idle, Linked
  <2>2. CASE job[w].left # {f}
    BY <1>17, <2>2 DEF ClearLinks, Idle, Linked
  <2>. QED
    BY <2>1, <2>2
<1>18. ASSUME NEW k \in Key, Expire(k)
      PROVE  EmptySetsAreVacated'
  BY <1>18 DEF Expire
<1>19. CASE UNCHANGED vars
  BY <1>19 DEF vars
<1>. QED
  BY <1>1, <1>2, <1>3, <1>4, <1>5, <1>6, <1>7, <1>8, <1>9, <1>10, <1>11, <1>12, <1>13, <1>14, <1>15, <1>16, <1>17, <1>18, <1>19
     DEF Next, Start, Step

LEMMA InitTyped == Init => TypeOK
<1>1. Idle \in Job
  BY DEF Idle, Job
<1>. QED
  BY <1>1 DEF Init, TypeOK, Idle

\* Cache and index keep their types, for any number of workers.
THEOREM StoreTypeCorrect == Spec => []TypeOK
<1>1. TypeOK /\ [Next]_vars => TypeOK'
  BY TypeStep
<1>. QED
  BY InitTyped, <1>1, PTL DEF Spec

\* An emptied set of keys does not stay in the index: whoever emptied it is about to
\* remove it (ReverseIndex::remove_entry), however many workers interleave.
THEOREM EmptiedSetsGo == Spec => []EmptySetsAreVacated
<1>1. Init => EmptySetsAreVacated
  BY CacheStoreAssumption DEF Init, EmptySetsAreVacated
<1>2. TypeOK /\ EmptySetsAreVacated /\ [Next]_vars => EmptySetsAreVacated'
  BY EmptySetsStep
<1>. QED
  BY StoreTypeCorrect, <1>1, <1>2, PTL DEF Spec

\* Every step keeps insertions and removals apart.
LEMMA ApartStep ==
    ASSUME ~ Mixed, GroupedInv, [Next]_vars
    PROVE  Apart'
<1>. USE CacheStoreAssumption DEF TypeOK, GroupedInv, Apart, Inserting, Removing, CleaningUp, Visited, IndexCoversCache, InvalidationComplete, Depends, Job, Entry
<1>1. ASSUME NEW w \in Worker, NEW k \in Key, NEW D \in SUBSET File, InsertWithDeps(w, k, D)
      PROVE  Apart'
  BY <1>1 DEF InsertWithDeps, MayStart, Removals, Begins, Linked, Idle
<1>2. ASSUME NEW w \in Worker, NEW k \in Key, Get(w, k)
      PROVE  Apart'
  BY <1>2 DEF Get, MayStart, Removals, Begins, Linked, Idle
<1>3. ASSUME NEW w \in Worker, NEW F \in SUBSET File, InvalidateFiles(w, F)
      PROVE  Apart'
  BY <1>3 DEF InvalidateFiles, MayStart, Removals, Begins, Linked, Idle
<1>4. ASSUME NEW w \in Worker, NEW S \in SUBSET Key, InvalidateWhere(w, S)
      PROVE  Apart'
  BY <1>4 DEF InvalidateWhere, MayStart, Removals, Begins, Linked, Idle
<1>5. ASSUME NEW w \in Worker, EvictExpired(w)
      PROVE  Apart'
  BY <1>5 DEF EvictExpired, MayStart, Removals, Begins, Linked, Idle
<1>6. ASSUME NEW w \in Worker, Clear(w)
      PROVE  Apart'
  BY <1>6 DEF Clear, MayStart, Removals, Begins, Linked, Idle
<1>7. ASSUME NEW w \in Worker, NEW f \in File, Associate(w, f)
      PROVE  Apart'
  <2>1. \A g \in File :
           Linked(g)' = IF g = f THEN Linked(g) \cup {job[w].key} ELSE Linked(g)
    BY <1>7, AssociateLinks
  <2>. QED
    BY <1>7, <2>1 DEF Associate
<1>8. ASSUME NEW w \in Worker, InnerInsert(w)
      PROVE  Apart'
  BY <1>8 DEF InnerInsert, Linked, Idle
<1>9. ASSUME NEW w \in Worker, Reap(w)
      PROVE  Apart'
  BY <1>9 DEF Reap, Linked, Idle
<1>10. ASSUME NEW w \in Worker, NEW f \in File, Collect(w, f)
      PROVE  Apart'
  BY <1>10 DEF Collect, Linked
<1>11. ASSUME NEW w \in Worker, NEW k \in Key, RemoveEntry(w, k)
      PROVE  Apart'
  BY <1>11 DEF RemoveEntry, Doomed, Linked
<1>12. ASSUME NEW w \in Worker, StartUnlink(w)
      PROVE  Apart'
  BY <1>12 DEF StartUnlink, Linked
<1>13. ASSUME NEW w \in Worker, NEW k \in Key, NEW f \in File, Unlink(w, k, f)
      PROVE  Apart'
  <2>1. \A g \in File : Linked(g)' = IF g = f THEN Linked(g) \ {k} ELSE Linked(g)
    BY <1>13, UnlinkLinks
  <2>2. CASE Without(f, k) = {}
    <3>1. Linked(f)' = {}
      BY <1>13, <2>2 DEF Unlink, Linked
    <3>. QED
      BY <1>13, <2>1, <2>2, <3>1 DEF Unlink
  <2>3. CASE Without(f, k) # {}
    BY <1>13, <2>1, <2>3 DEF Unlink
  <2>. QED
    BY <2>2, <2>3
<1>14. ASSUME NEW w \in Worker, NEW f \in File, Vacate(w, f)
      PROVE  Apart'
  BY <1>14 DEF Vacate, Linked
<1>15. ASSUME NEW w \in Worker, Unlinked(w)
      PROVE  Apart'
  BY <1>15 DEF Unlinked, Linked, Idle
<1>16. ASSUME NEW w \in Worker, NEW k \in Key, ClearEntry(w, k)
      PROVE  Apart'
  <2>1. CASE job[w].keys = {k}
    BY <1>16, <2>1 DEF ClearEntry, Linked
  <2>2. CASE job[w].keys # {k}
    BY <1>16, <2>2 DEF ClearEntry, Linked
  <2>. QED
    BY <2>1, <2>2
<1>17. ASSUME NEW w \in Worker, NEW f \in File, ClearLinks(w, f)
      PROVE  Apart'
  <2>1. CASE job[w].left = {f}
    BY <1>17, <2>1 DEF ClearLinks, Idle, Linked
  <2>2. CASE job[w].left # {f}
    BY <1>17, <2>2 DEF ClearLinks, Idle, Linked
  <2>. QED
    BY <2>1, <2>2
<1>18. ASSUME NEW k \in Key, Expire(k)
      PROVE  Apart'
  BY <1>18 DEF Expire, Linked
<1>19. CASE UNCHANGED vars
  BY <1>19 DEF vars, Linked
<1>. HIDE DEF TypeOK, GroupedInv, Apart, Inserting, Removing, CleaningUp, Visited, IndexCoversCache, InvalidationComplete, Depends, Job, Entry
<1>. QED
  BY <1>1, <1>2, <1>3, <1>4, <1>5, <1>6, <1>7, <1>8, <1>9, <1>10, <1>11, <1>12, <1>13, <1>14, <1>15, <1>16, <1>17, <1>18, <1>19
     DEF Next, Start, Step

\* Apart, every step keeps IndexCoversCache.
LEMMA CoversStep ==
    ASSUME ~ Mixed, GroupedInv, [Next]_vars
    PROVE  IndexCoversCache'
<1>. USE CacheStoreAssumption DEF TypeOK, GroupedInv, Apart, Inserting, Removing, CleaningUp, Visited, IndexCoversCache, InvalidationComplete, Depends, Job, Entry
<1>1. ASSUME NEW w \in Worker, NEW k \in Key, NEW D \in SUBSET File, InsertWithDeps(w, k, D)
      PROVE  IndexCoversCache'
  BY <1>1 DEF InsertWithDeps, MayStart, Removals, Begins, Linked, Idle
<1>2. ASSUME NEW w \in Worker, NEW k \in Key, Get(w, k)
      PROVE  IndexCoversCache'
  BY <1>2 DEF Get, MayStart, Removals, Begins, Linked, Idle
<1>3. ASSUME NEW w \in Worker, NEW F \in SUBSET File, InvalidateFiles(w, F)
      PROVE  IndexCoversCache'
  BY <1>3 DEF InvalidateFiles, MayStart, Removals, Begins, Linked, Idle
<1>4. ASSUME NEW w \in Worker, NEW S \in SUBSET Key, InvalidateWhere(w, S)
      PROVE  IndexCoversCache'
  BY <1>4 DEF InvalidateWhere, MayStart, Removals, Begins, Linked, Idle
<1>5. ASSUME NEW w \in Worker, EvictExpired(w)
      PROVE  IndexCoversCache'
  BY <1>5 DEF EvictExpired, MayStart, Removals, Begins, Linked, Idle
<1>6. ASSUME NEW w \in Worker, Clear(w)
      PROVE  IndexCoversCache'
  BY <1>6 DEF Clear, MayStart, Removals, Begins, Linked, Idle
<1>7. ASSUME NEW w \in Worker, NEW f \in File, Associate(w, f)
      PROVE  IndexCoversCache'
  <2>1. \A g \in File :
           Linked(g)' = IF g = f THEN Linked(g) \cup {job[w].key} ELSE Linked(g)
    BY <1>7, AssociateLinks
  <2>. QED
    BY <1>7, <2>1 DEF Associate
<1>8. ASSUME NEW w \in Worker, InnerInsert(w)
      PROVE  IndexCoversCache'
  BY <1>8 DEF InnerInsert, Linked, Idle
<1>9. ASSUME NEW w \in Worker, Reap(w)
      PROVE  IndexCoversCache'
  BY <1>9 DEF Reap, Linked, Idle
<1>10. ASSUME NEW w \in Worker, NEW f \in File, Collect(w, f)
      PROVE  IndexCoversCache'
  BY <1>10 DEF Collect, Linked
<1>11. ASSUME NEW w \in Worker, NEW k \in Key, RemoveEntry(w, k)
      PROVE  IndexCoversCache'
  BY <1>11 DEF RemoveEntry, Doomed, Linked
<1>12. ASSUME NEW w \in Worker, StartUnlink(w)
      PROVE  IndexCoversCache'
  BY <1>12 DEF StartUnlink, Linked
<1>13. ASSUME NEW w \in Worker, NEW k \in Key, NEW f \in File, Unlink(w, k, f)
      PROVE  IndexCoversCache'
  <2>1. \A g \in File : Linked(g)' = IF g = f THEN Linked(g) \ {k} ELSE Linked(g)
    BY <1>13, UnlinkLinks
  <2>2. CASE Without(f, k) = {}
    <3>1. Linked(f)' = {}
      BY <1>13, <2>2 DEF Unlink, Linked
    <3>. QED
      BY <1>13, <2>1, <2>2, <3>1 DEF Unlink
  <2>3. CASE Without(f, k) # {}
    BY <1>13, <2>1, <2>3 DEF Unlink
  <2>. QED
    BY <2>2, <2>3
<1>14. ASSUME NEW w \in Worker, NEW f \in File, Vacate(w, f)
      PROVE  IndexCoversCache'
  BY <1>14 DEF Vacate, Linked
<1>15. ASSUME NEW w \in Worker, Unlinked(w)
      PROVE  IndexCoversCache'
  BY <1>15 DEF Unlinked, Linked, Idle
<1>16. ASSUME NEW w \in Worker, NEW k \in Key, ClearEntry(w, k)
      PROVE  IndexCoversCache'
  <2>1. CASE job[w].keys = {k}
    BY <1>16, <2>1 DEF ClearEntry, Linked
  <2>2. CASE job[w].keys # {k}
    BY <1>16, <2>2 DEF ClearEntry, Linked
  <2>. QED
    BY <2>1, <2>2
<1>17. ASSUME NEW w \in Worker, NEW f \in File, ClearLinks(w, f)
      PROVE  IndexCoversCache'
  <2>1. CASE job[w].left = {f}
    BY <1>17, <2>1 DEF ClearLinks, Idle, Linked
  <2>2. CASE job[w].left # {f}
    BY <1>17, <2>2 DEF ClearLinks, Idle, Linked
  <2>. QED
    BY <2>1, <2>2
<1>18. ASSUME NEW k \in Key, Expire(k)
      PROVE  IndexCoversCache'
  BY <1>18 DEF Expire, Linked
<1>19. CASE UNCHANGED vars
  BY <1>19 DEF vars, Linked
<1>. HIDE DEF TypeOK, GroupedInv, Apart, Inserting, Removing, CleaningUp, Visited, IndexCoversCache, InvalidationComplete, Depends, Job, Entry
<1>. QED
  BY <1>1, <1>2, <1>3, <1>4, <1>5, <1>6, <1>7, <1>8, <1>9, <1>10, <1>11, <1>12, <1>13, <1>14, <1>15, <1>16, <1>17, <1>18, <1>19
     DEF Next, Start, Step

\* Apart, every step keeps InvalidationComplete.
LEMMA CompleteStep ==
    ASSUME ~ Mixed, GroupedInv, [Next]_vars
    PROVE  InvalidationComplete'
<1>. USE CacheStoreAssumption DEF TypeOK, GroupedInv, Apart, Inserting, Removing, CleaningUp, Visited, IndexCoversCache, InvalidationComplete, Depends, Job, Entry
<1>1. ASSUME NEW w \in Worker, NEW k \in Key, NEW D \in SUBSET File, InsertWithDeps(w, k, D)
      PROVE  InvalidationComplete'
  BY <1>1 DEF InsertWithDeps, MayStart, Removals, Begins, Linked, Idle
<1>2. ASSUME NEW w \in Worker, NEW k \in Key, Get(w, k)
      PROVE  InvalidationComplete'
  BY <1>2 DEF Get, MayStart, Removals, Begins, Linked, Idle
<1>3. ASSUME NEW w \in Worker, NEW F \in SUBSET File, InvalidateFiles(w, F)
      PROVE  InvalidationComplete'
  BY <1>3 DEF InvalidateFiles, MayStart, Removals, Begins, Linked, Idle
<1>4. ASSUME NEW w \in Worker, NEW S \in SUBSET Key, InvalidateWhere(w, S)
      PROVE  InvalidationComplete'
  BY <1>4 DEF InvalidateWhere, MayStart, Removals, Begins, Linked, Idle
<1>5. ASSUME NEW w \in Worker, EvictExpired(w)
      PROVE  InvalidationComplete'
  BY <1>5 DEF EvictExpired, MayStart, Removals, Begins, Linked, Idle
<1>6. ASSUME NEW w \in Worker, Clear(w)
      PROVE  InvalidationComplete'
  BY <1>6 DEF Clear, MayStart, Removals, Begins, Linked, Idle
<1>7. ASSUME NEW w \in Worker, NEW f \in File, Associate(w, f)
      PROVE  InvalidationComplete'
  <2>1. \A g \in File :
           Linked(g)' = IF g = f THEN Linked(g) \cup {job[w].key} ELSE Linked(g)
    BY <1>7, AssociateLinks
  <2>. QED
    BY <1>7, <2>1 DEF Associate
<1>8. ASSUME NEW w \in Worker, InnerInsert(w)
      PROVE  InvalidationComplete'
  BY <1>8 DEF InnerInsert, Linked, Idle
<1>9. ASSUME NEW w \in Worker, Reap(w)
      PROVE  InvalidationComplete'
  BY <1>9 DEF Reap, Linked, Idle
<1>10. ASSUME NEW w \in Worker, NEW f \in File, Collect(w, f)
      PROVE  InvalidationComplete'
  BY <1>10 DEF Collect, Linked
<1>11. ASSUME NEW w \in Worker, NEW k \in Key, RemoveEntry(w, k)
      PROVE  InvalidationComplete'
  BY <1>11 DEF RemoveEntry, Doomed, Linked
<1>12. ASSUME NEW w \in Worker, StartUnlink(w)
      PROVE  InvalidationComplete'
  BY <1>12, SMTT(30) DEF StartUnlink, Linked
<1>13. ASSUME NEW w \in Worker, NEW k \in Key, NEW f \in File, Unlink(w, k, f)
      PROVE  InvalidationComplete'
  <2>1. \A g \in File : Linked(g)' = IF g = f THEN Linked(g) \ {k} ELSE Linked(g)
    BY <1>13, UnlinkLinks
  <2>2. CASE Without(f, k) = {}
    <3>1. Linked(f)' = {}
      BY <1>13, <2>2 DEF Unlink, Linked
    <3>. QED
      BY <1>13, <2>1, <2>2, <3>1 DEF Unlink
  <2>3. CASE Without(f, k) # {}
    BY <1>13, <2>1, <2>3 DEF Unlink
  <2>. QED
    BY <2>2, <2>3
<1>14. ASSUME NEW w \in Worker, NEW f \in File, Vacate(w, f)
      PROVE  InvalidationComplete'
  BY <1>14 DEF Vacate, Linked
<1>15. ASSUME NEW w \in Worker, Unlinked(w)
      PROVE  InvalidationComplete'
  BY <1>15 DEF Unlinked, Linked, Idle
<1>16. ASSUME NEW w \in Worker, NEW k \in Key, ClearEntry(w, k)
      PROVE  InvalidationComplete'
  <2>1. CASE job[w].keys = {k}
    BY <1>16, <2>1 DEF ClearEntry, Linked
  <2>2. CASE job[w].keys # {k}
    BY <1>16, <2>2 DEF ClearEntry, Linked
  <2>. QED
    BY <2>1, <2>2
<1>17. ASSUME NEW w \in Worker, NEW f \in File, ClearLinks(w, f)
      PROVE  InvalidationComplete'
  <2>1. CASE job[w].left = {f}
    BY <1>17, <2>1 DEF ClearLinks, Idle, Linked
  <2>2. CASE job[w].left # {f}
    BY <1>17, <2>2 DEF ClearLinks, Idle, Linked
  <2>. QED
    BY <2>1, <2>2
<1>18. ASSUME NEW k \in Key, Expire(k)
      PROVE  InvalidationComplete'
  BY <1>18 DEF Expire, Linked
<1>19. CASE UNCHANGED vars
  BY <1>19 DEF vars, Linked
<1>. HIDE DEF TypeOK, GroupedInv, Apart, Inserting, Removing, CleaningUp, Visited, IndexCoversCache, InvalidationComplete, Depends, Job, Entry
<1>. QED
  BY <1>1, <1>2, <1>3, <1>4, <1>5, <1>6, <1>7, <1>8, <1>9, <1>10, <1>11, <1>12, <1>13, <1>14, <1>15, <1>16, <1>17, <1>18, <1>19
     DEF Next, Start, Step

\* Apart, every step keeps CleaningUp.
LEMMA CleaningStep ==
    ASSUME ~ Mixed, GroupedInv, [Next]_vars, NEW v \in Worker
    PROVE  CleaningUp(v)'
<1>. USE CacheStoreAssumption DEF TypeOK, GroupedInv, Apart, Inserting, Removing, CleaningUp, Visited, IndexCoversCache, InvalidationComplete, Depends, Job, Entry
<1>1. ASSUME NEW w \in Worker, NEW k \in Key, NEW D \in SUBSET File, InsertWithDeps(w, k, D)
      PROVE  CleaningUp(v)'
  BY <1>1 DEF InsertWithDeps, MayStart, Removals, Begins, Linked, Idle
<1>2. ASSUME NEW w \in Worker, NEW k \in Key, Get(w, k)
      PROVE  CleaningUp(v)'
  BY <1>2 DEF Get, MayStart, Removals, Begins, Linked, Idle
<1>3. ASSUME NEW w \in Worker, NEW F \in SUBSET File, InvalidateFiles(w, F)
      PROVE  CleaningUp(v)'
  BY <1>3 DEF InvalidateFiles, MayStart, Removals, Begins, Linked, Idle
<1>4. ASSUME NEW w \in Worker, NEW S \in SUBSET Key, InvalidateWhere(w, S)
      PROVE  CleaningUp(v)'
  BY <1>4 DEF InvalidateWhere, MayStart, Removals, Begins, Linked, Idle
<1>5. ASSUME NEW w \in Worker, EvictExpired(w)
      PROVE  CleaningUp(v)'
  BY <1>5 DEF EvictExpired, MayStart, Removals, Begins, Linked, Idle
<1>6. ASSUME NEW w \in Worker, Clear(w)
      PROVE  CleaningUp(v)'
  BY <1>6 DEF Clear, MayStart, Removals, Begins, Linked, Idle
<1>7. ASSUME NEW w \in Worker, NEW f \in File, Associate(w, f)
      PROVE  CleaningUp(v)'
  <2>1. \A g \in File :
           Linked(g)' = IF g = f THEN Linked(g) \cup {job[w].key} ELSE Linked(g)
    BY <1>7, AssociateLinks
  <2>. QED
    BY <1>7, <2>1 DEF Associate
<1>8. ASSUME NEW w \in Worker, InnerInsert(w)
      PROVE  CleaningUp(v)'
  BY <1>8 DEF InnerInsert, Linked, Idle
<1>9. ASSUME NEW w \in Worker, Reap(w)
      PROVE  CleaningUp(v)'
  BY <1>9 DEF Reap, Linked, Idle
<1>10. ASSUME NEW w \in Worker, NEW f \in File, Collect(w, f)
      PROVE  CleaningUp(v)'
  BY <1>10 DEF Collect, Linked
<1>11. ASSUME NEW w \in Worker, NEW k \in Key, RemoveEntry(w, k)
      PROVE  CleaningUp(v)'
  <2>1. UNCHANGED reverse_index /\ \A l \in Key \ {k} : inner'[l] = inner[l]
    BY <1>11 DEF RemoveEntry
  <2>2. inner'[k] = None \/ inner' = inner
    BY <1>11 DEF RemoveEntry
  <2>3. CASE v # w
    <3>1. job'[v] = job[v]
      BY <1>11, <2>3 DEF RemoveEntry
    <3>. QED
      BY <1>11, <2>1, <2>2, <3>1 DEF RemoveEntry, Linked
  <2>4. CASE v = w /\ Doomed(w, k)
    BY <1>11, <2>1, <2>4 DEF RemoveEntry, Linked
  <2>5. CASE v = w /\ ~ Doomed(w, k)
    BY <1>11, <2>1, <2>5 DEF RemoveEntry, Doomed, Linked
  <2>. QED
    BY <2>3, <2>4, <2>5
<1>12. ASSUME NEW w \in Worker, StartUnlink(w)
      PROVE  CleaningUp(v)'
  BY <1>12 DEF StartUnlink, Linked
<1>13. ASSUME NEW w \in Worker, NEW k \in Key, NEW f \in File, Unlink(w, k, f)
      PROVE  CleaningUp(v)'
  <2>1. \A g \in File : Linked(g)' = IF g = f THEN Linked(g) \ {k} ELSE Linked(g)
    BY <1>13, UnlinkLinks
  <2>2. CASE Without(f, k) = {}
    <3>1. Linked(f)' = {}
      BY <1>13, <2>2 DEF Unlink, Linked
    <3>. QED
      BY <1>13, <2>1, <2>2, <3>1 DEF Unlink
  <2>3. CASE Without(f, k) # {}
    BY <1>13, <2>1, <2>3 DEF Unlink
  <2>. QED
    BY <2>2, <2>3
<1>14. ASSUME NEW w \in Worker, NEW f \in File, Vacate(w, f)
      PROVE  CleaningUp(v)'
  BY <1>14 DEF Vacate, Linked
<1>15. ASSUME NEW w \in Worker, Unlinked(w)
      PROVE  CleaningUp(v)'
  BY <1>15 DEF Unlinked, Linked, Idle
<1>16. ASSUME NEW w \in Worker, NEW k \in Key, ClearEntry(w, k)
      PROVE  CleaningUp(v)'
  <2>1. CASE job[w].keys = {k}
    BY <1>16, <2>1 DEF ClearEntry, Linked
  <2>2. CASE job[w].keys # {k}
    BY <1>16, <2>2, SMTT(30) DEF ClearEntry, Linked
  <2>. QED
    BY <2>1, <2>2
<1>17. ASSUME NEW w \in Worker, NEW f \in File, ClearLinks(w, f)
      PROVE  CleaningUp(v)'
  <2>1. CASE job[w].left = {f}
    BY <1>17, <2>1 DEF ClearLinks, Idle, Linked
  <2>2. CASE job[w].left # {f}
    BY <1>17, <2>2 DEF ClearLinks, Idle, Linked
  <2>. QED
    BY <2>1, <2>2
<1>18. ASSUME NEW k \in Key, Expire(k)
      PROVE  CleaningUp(v)'
  BY <1>18 DEF Expire, Linked
<1>19. CASE UNCHANGED vars
  BY <1>19 DEF vars, Linked
<1>. HIDE DEF TypeOK, GroupedInv, Apart, Inserting, Removing, CleaningUp, Visited, IndexCoversCache, InvalidationComplete, Depends, Job, Entry
<1>. QED
  BY <1>1, <1>2, <1>3, <1>4, <1>5, <1>6, <1>7, <1>8, <1>9, <1>10, <1>11, <1>12, <1>13, <1>14, <1>15, <1>16, <1>17, <1>18, <1>19
     DEF Next, Start, Step

\* Apart, every step keeps Visited.
LEMMA VisitedStep ==
    ASSUME ~ Mixed, GroupedInv, [Next]_vars, NEW v \in Worker
    PROVE  Visited(v)'
<1>. USE CacheStoreAssumption DEF TypeOK, GroupedInv, Apart, Inserting, Removing, CleaningUp, Visited, IndexCoversCache, InvalidationComplete, Depends, Job, Entry
<1>1. ASSUME NEW w \in Worker, NEW k \in Key, NEW D \in SUBSET File, InsertWithDeps(w, k, D)
      PROVE  Visited(v)'
  BY <1>1 DEF InsertWithDeps, MayStart, Removals, Begins, Linked, Idle
<1>2. ASSUME NEW w \in Worker, NEW k \in Key, Get(w, k)
      PROVE  Visited(v)'
  BY <1>2 DEF Get, MayStart, Removals, Begins, Linked, Idle
<1>3. ASSUME NEW w \in Worker, NEW F \in SUBSET File, InvalidateFiles(w, F)
      PROVE  Visited(v)'
  BY <1>3 DEF InvalidateFiles, MayStart, Removals, Begins, Linked, Idle
<1>4. ASSUME NEW w \in Worker, NEW S \in SUBSET Key, InvalidateWhere(w, S)
      PROVE  Visited(v)'
  BY <1>4 DEF InvalidateWhere, MayStart, Removals, Begins, Linked, Idle
<1>5. ASSUME NEW w \in Worker, EvictExpired(w)
      PROVE  Visited(v)'
  BY <1>5 DEF EvictExpired, MayStart, Removals, Begins, Linked, Idle
<1>6. ASSUME NEW w \in Worker, Clear(w)
      PROVE  Visited(v)'
  BY <1>6 DEF Clear, MayStart, Removals, Begins, Linked, Idle
<1>7. ASSUME NEW w \in Worker, NEW f \in File, Associate(w, f)
      PROVE  Visited(v)'
  <2>1. \A g \in File :
           Linked(g)' = IF g = f THEN Linked(g) \cup {job[w].key} ELSE Linked(g)
    BY <1>7, AssociateLinks
  <2>. QED
    BY <1>7, <2>1 DEF Associate
<1>8. ASSUME NEW w \in Worker, InnerInsert(w)
      PROVE  Visited(v)'
  BY <1>8 DEF InnerInsert, Linked, Idle
<1>9. ASSUME NEW w \in Worker, Reap(w)
      PROVE  Visited(v)'
  BY <1>9 DEF Reap, Linked, Idle
<1>10. ASSUME NEW w \in Worker, NEW f \in File, Collect(w, f)
      PROVE  Visited(v)'
  BY <1>10 DEF Collect, Linked
<1>11. ASSUME NEW w \in Worker, NEW k \in Key, RemoveEntry(w, k)
      PROVE  Visited(v)'
  <2>1. UNCHANGED reverse_index /\ \A l \in Key \ {k} : inner'[l] = inner[l]
    BY <1>11 DEF RemoveEntry
  <2>2. inner'[k] = None \/ inner' = inner
    BY <1>11 DEF RemoveEntry
  <2>3. CASE v # w
    <3>1. job'[v] = job[v]
      BY <1>11, <2>3 DEF RemoveEntry
    <3>. QED
      BY <1>11, <2>1, <2>2, <3>1 DEF RemoveEntry, Linked
  <2>4. CASE v = w /\ Doomed(w, k)
    BY <1>11, <2>1, <2>4, SMTT(30) DEF RemoveEntry, Linked
  <2>5. CASE v = w /\ ~ Doomed(w, k)
    BY <1>11, <2>1, <2>5 DEF RemoveEntry, Doomed, Linked
  <2>. QED
    BY <2>3, <2>4, <2>5
<1>12. ASSUME NEW w \in Worker, StartUnlink(w)
      PROVE  Visited(v)'
  BY <1>12 DEF StartUnlink, Linked
<1>13. ASSUME NEW w \in Worker, NEW k \in Key, NEW f \in File, Unlink(w, k, f)
      PROVE  Visited(v)'
  <2>1. \A g \in File : Linked(g)' = IF g = f THEN Linked(g) \ {k} ELSE Linked(g)
    BY <1>13, UnlinkLinks
  <2>2. CASE Without(f, k) = {}
    <3>1. Linked(f)' = {}
      BY <1>13, <2>2 DEF Unlink, Linked
    <3>. QED
      BY <1>13, <2>1, <2>2, <3>1 DEF Unlink
  <2>3. CASE Without(f, k) # {}
    BY <1>13, <2>1, <2>3 DEF Unlink
  <2>. QED
    BY <2>2, <2>3
<1>14. ASSUME NEW w \in Worker, NEW f \in File, Vacate(w, f)
      PROVE  Visited(v)'
  BY <1>14 DEF Vacate, Linked
<1>15. ASSUME NEW w \in Worker, Unlinked(w)
      PROVE  Visited(v)'
  BY <1>15 DEF Unlinked, Linked, Idle
<1>16. ASSUME NEW w \in Worker, NEW k \in Key, ClearEntry(w, k)
      PROVE  Visited(v)'
  <2>1. CASE job[w].keys = {k}
    BY <1>16, <2>1 DEF ClearEntry, Linked
  <2>2. CASE job[w].keys # {k}
    BY <1>16, <2>2 DEF ClearEntry, Linked
  <2>. QED
    BY <2>1, <2>2
<1>17. ASSUME NEW w \in Worker, NEW f \in File, ClearLinks(w, f)
      PROVE  Visited(v)'
  <2>1. CASE job[w].left = {f}
    BY <1>17, <2>1 DEF ClearLinks, Idle, Linked
  <2>2. CASE job[w].left # {f}
    BY <1>17, <2>2 DEF ClearLinks, Idle, Linked
  <2>. QED
    BY <2>1, <2>2
<1>18. ASSUME NEW k \in Key, Expire(k)
      PROVE  Visited(v)'
  BY <1>18 DEF Expire, Linked
<1>19. CASE UNCHANGED vars
  BY <1>19 DEF vars, Linked
<1>. HIDE DEF TypeOK, GroupedInv, Apart, Inserting, Removing, CleaningUp, Visited, IndexCoversCache, InvalidationComplete, Depends, Job, Entry
<1>. QED
  BY <1>1, <1>2, <1>3, <1>4, <1>5, <1>6, <1>7, <1>8, <1>9, <1>10, <1>11, <1>12, <1>13, <1>14, <1>15, <1>16, <1>17, <1>18, <1>19
     DEF Next, Start, Step

LEMMA GroupedStep ==
    ASSUME ~ Mixed, GroupedInv, [Next]_vars
    PROVE  GroupedInv'
<1>1. TypeOK'
  BY TypeStep DEF GroupedInv
<1>2. Apart' /\ IndexCoversCache' /\ InvalidationComplete'
  BY ApartStep, CoversStep, CompleteStep
<1>3. \A w \in Worker : CleaningUp(w)' /\ Visited(w)'
  BY CleaningStep, VisitedStep
<1>. QED
  BY <1>1, <1>2, <1>3 DEF GroupedInv

LEMMA GroupedInvariant == ASSUME ~ Mixed PROVE Spec => []GroupedInv
<1>1. Init => GroupedInv
  BY InitTyped
     DEF Init, GroupedInv, Apart, Inserting, Removing, IndexCoversCache,
         InvalidationComplete, CleaningUp, Visited, Idle
<1>2. GroupedInv /\ [Next]_vars => GroupedInv'
  BY GroupedStep
<1>. QED
  BY <1>1, <1>2, PTL DEF Spec

\* As long as no insertion overlaps a removal, the reverse index finds every entry
\* (cache.rs:152-154): for any workers, keys and files, any interleaving of insertions
\* with insertions, of removals with removals and of look-ups with both, and any
\* history of lazy expiry and evictions.
THEOREM IndexCovers == ASSUME ~ Mixed PROVE Spec => []IndexCoversCache
<1>1. GroupedInv => IndexCoversCache
  BY DEF GroupedInv
<1>. QED
  BY GroupedInvariant, <1>1, PTL

\* Then, when invalidate_files is done, no entry that depends on its files is left.
THEOREM InvalidationLeavesNone == ASSUME ~ Mixed PROVE Spec => []InvalidationComplete
<1>1. GroupedInv => InvalidationComplete
  BY DEF GroupedInv
<1>. QED
  BY GroupedInvariant, <1>1, PTL

=============================================================================

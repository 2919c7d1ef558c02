----------------------------- MODULE CacheStore -----------------------------
(***************************************************************************)
(* Cache of cache-core/src/cache.rs with its ReverseIndex of               *)
(* reverse_index.rs: two concurrent maps that are kept in step without a   *)
(* common lock.  Every access to one map entry is atomic and a step of its *)
(* own; retain, clear and the loops over files and keys visit one entry    *)
(* after another, in any order.  What the entries contain does not matter  *)
(* here, only which files each was built from and whether it has expired.  *)
(***************************************************************************)
EXTENDS FiniteSets

CONSTANTS
    Worker,     \* tasks that operate on the cache
    Key,        \* cache keys
    File,       \* file paths
    Mixed,      \* insertions may overlap removals, as in the code
    None        \* absence of a value

ASSUME CacheStoreAssumption ==
    /\ \A S \in SUBSET Key : None # S
    /\ None \notin Key
    /\ Mixed \in BOOLEAN

Removals == {"invalidate", "where", "evict", "clear"}

VARIABLES
    inner,          \* Cache::inner, key -> entry
    reverse_index,  \* ReverseIndex::inner, file -> set of keys
    job             \* what each worker is doing

vars == <<inner, reverse_index, job>>

Entry == [dependent_files : SUBSET File, expired : BOOLEAN]

\* A worker's operation with the local variables of its loops: the key it
\* works on, the files it was called with and has left to visit, the keys it
\* has left to visit, and the links of removed entries it has left to remove.
Job == [do : {"idle", "associate", "collect", "retain", "evict", "clear", "clearLinks",
              "unlink", "vacate", "reap"},
        key : Key \cup {None}, files : SUBSET File, left : SUBSET File,
        keys : SUBSET Key, links : SUBSET (Key \X File)]

Idle == [do |-> "idle", key |-> None, files |-> {}, left |-> {}, keys |-> {}, links |-> {}]

Linked(f) == IF reverse_index[f] = None THEN {} ELSE reverse_index[f]

Init ==
    /\ inner = [k \in Key |-> None]
    /\ reverse_index = [f \in File |-> None]
    /\ job = [w \in Worker |-> Idle]

Inserting(w) == job[w].do = "associate"
Removing(w) == job[w].do \notin {"idle", "associate", "reap"}

\* What an operation may start beside.  The code lets it start at any time;
\* without Mixed, insertions and removals stay apart.
MayStart(op) ==
    \/ Mixed
    \/ \A v \in Worker : /\ op = "insert" => ~ Removing(v)
                         /\ op \in Removals => ~ Inserting(v)

Begins(w, op, j) ==
    /\ MayStart(op)
    /\ job[w] = Idle
    /\ job' = [job EXCEPT ![w] = j]
    /\ UNCHANGED <<inner, reverse_index>>

-----------------------------------------------------------------------------
(* insert and insert_with_deps                                               *)

InsertWithDeps(w, k, D) ==
    Begins(w, "insert", [Idle EXCEPT !.do = "associate", !.key = k, !.files = D, !.left = D])

Associate(w, f) ==
    /\ job[w].do = "associate" /\ f \in job[w].left
    /\ reverse_index' = [reverse_index EXCEPT ![f] = Linked(f) \cup {job[w].key}]
    /\ job' = [job EXCEPT ![w].left = @ \ {f}]
    /\ UNCHANGED inner

\* Slip: the entry becomes visible before its links.
InnerInsertEarly(w) ==
    /\ job[w].do = "associate" /\ (job[w].left = {} \/ inner[job[w].key] = None)
    /\ inner' = [inner EXCEPT ![job[w].key] =
                    [dependent_files |-> job[w].files, expired |-> FALSE]]
    /\ job' = [job EXCEPT ![w] = IF job[w].left = {} THEN Idle ELSE @]
    /\ UNCHANGED reverse_index

InnerInsert(w) ==
    /\ job[w].do = "associate" /\ job[w].left = {}
    /\ inner' = [inner EXCEPT ![job[w].key] =
                    [dependent_files |-> job[w].files, expired |-> FALSE]]
    /\ job' = [job EXCEPT ![w] = Idle]
    /\ UNCHANGED reverse_index

-----------------------------------------------------------------------------
(* get and get_with_deps: an entry that is found expired is removed by        *)
(* remove_if, which looks again; its links stay.                              *)

Get(w, k) ==
    /\ inner[k] # None /\ inner[k].expired
    /\ Begins(w, "get", [Idle EXCEPT !.do = "reap", !.key = k])

Reap(w) ==
    LET k == job[w].key
    IN  /\ job[w].do = "reap"
        /\ inner' = IF inner[k] # None /\ inner[k].expired
                    THEN [inner EXCEPT ![k] = None] ELSE inner
        /\ job' = [job EXCEPT ![w] = Idle]
        /\ UNCHANGED reverse_index

-----------------------------------------------------------------------------
(* invalidate_files, invalidate_where, evict_expired                          *)

InvalidateFiles(w, F) ==
    Begins(w, "invalidate", [Idle EXCEPT !.do = "collect", !.files = F, !.left = F])

\* keys_for_files reads the set of one file.
Collect(w, f) ==
    /\ job[w].do = "collect" /\ f \in job[w].left
    /\ job' = [job EXCEPT ![w].left = @ \ {f}, ![w].keys = @ \cup Linked(f)]
    /\ UNCHANGED <<inner, reverse_index>>

InvalidateWhere(w, S) ==
    Begins(w, "where", [Idle EXCEPT !.do = "retain", !.keys = S])

EvictExpired(w) ==
    Begins(w, "evict", [Idle EXCEPT !.do = "evict", !.keys = Key])

\* One key of the remove loop or of retain.  The links to clean up are those of
\* the entry that was there.
Doomed(w, k) == inner[k] # None /\ (job[w].do = "evict" => inner[k].expired)

RemoveEntry(w, k) ==
    /\ job[w].do \in {"collect", "retain", "evict"} /\ job[w].left = {} /\ k \in job[w].keys
    /\ IF Doomed(w, k)
       THEN /\ inner' = [inner EXCEPT ![k] = None]
            /\ job' = [job EXCEPT ![w].keys = @ \ {k},
                                  ![w].links = @ \cup ({k} \X inner[k].dependent_files)]
       ELSE /\ job' = [job EXCEPT ![w].keys = @ \ {k}]
            /\ UNCHANGED inner
    /\ UNCHANGED reverse_index

StartUnlink(w) ==
    /\ job[w].do \in {"collect", "retain", "evict"} /\ job[w].left = {} /\ job[w].keys = {}
    /\ job' = [job EXCEPT ![w].do = "unlink"]
    /\ UNCHANGED <<inner, reverse_index>>

\* What get_mut(f) leaves of the file's set, if it has one.
Without(f, k) == IF reverse_index[f] = None THEN None ELSE reverse_index[f] \ {k}

\* Slip: an emptied set is left behind.
UnlinkOnly(w, k, f) ==
    /\ job[w].do = "unlink" /\ <<k, f>> \in job[w].links
    /\ reverse_index' = [reverse_index EXCEPT ![f] = Without(f, k)]
    /\ job' = [job EXCEPT ![w].links = @ \ {<<k, f>>}]
    /\ UNCHANGED inner

\* Slip: the whole file is unlinked, as remove_files does.
UnlinkFile(w, k, f) ==
    /\ job[w].do = "unlink" /\ <<k, f>> \in job[w].links
    /\ reverse_index' = [reverse_index EXCEPT ![f] = None]
    /\ job' = [job EXCEPT ![w].links = @ \ {<<k, f>>}]
    /\ UNCHANGED inner

\* remove_key_from_files: take the key out of the file's set under its lock; a
\* set found empty is removed afterwards, without the lock.
Unlink(w, k, f) ==
    /\ job[w].do = "unlink" /\ <<k, f>> \in job[w].links
    /\ reverse_index' = [reverse_index EXCEPT ![f] = Without(f, k)]
    /\ IF Without(f, k) = {}
       THEN job' = [job EXCEPT ![w].links = @ \ {<<k, f>>}, ![w].do = "vacate", ![w].left = {f}]
       ELSE job' = [job EXCEPT ![w].links = @ \ {<<k, f>>}]
    /\ UNCHANGED inner

\* Slip: the loop does not advance.
VacateAgain(w, f) ==
    /\ job[w].do = "vacate" /\ f \in job[w].left
    /\ reverse_index' = [reverse_index EXCEPT ![f] = None]
    /\ job' = [job EXCEPT ![w].do = "unlink"]
    /\ UNCHANGED inner

Vacate(w, f) ==
    /\ job[w].do = "vacate" /\ f \in job[w].left
    /\ reverse_index' = [reverse_index EXCEPT ![f] = None]
    /\ job' = [job EXCEPT ![w].do = "unlink", ![w].left = {}]
    /\ UNCHANGED inner

Unlinked(w) ==
    /\ job[w].do = "unlink" /\ job[w].links = {}
    /\ job' = [job EXCEPT ![w] = Idle]
    /\ UNCHANGED <<inner, reverse_index>>

-----------------------------------------------------------------------------
(* clear: first the entries, then the index                                   *)

Clear(w) ==
    Begins(w, "clear", [Idle EXCEPT !.do = "clear", !.keys = Key])

ClearEntry(w, k) ==
    /\ job[w].do = "clear" /\ k \in job[w].keys
    /\ inner' = [inner EXCEPT ![k] = None]
    /\ IF job[w].keys = {k}
       THEN job' = [job EXCEPT ![w].keys = {}, ![w].do = "clearLinks", ![w].left = File]
       ELSE job' = [job EXCEPT ![w].keys = @ \ {k}]
    /\ UNCHANGED reverse_index

ClearLinks(w, f) ==
    /\ job[w].do = "clearLinks" /\ f \in job[w].left
    /\ reverse_index' = [reverse_index EXCEPT ![f] = None]
    /\ IF job[w].left = {f}
       THEN job' = [job EXCEPT ![w] = Idle]
       ELSE job' = [job EXCEPT ![w].left = @ \ {f}]
    /\ UNCHANGED inner

\* The clock passes expires_at of an entry.
Expire(k) ==
    /\ inner[k] # None /\ ~ inner[k].expired
    /\ inner' = [inner EXCEPT ![k].expired = TRUE]
    /\ UNCHANGED <<reverse_index, job>>

-----------------------------------------------------------------------------

Start(w) ==
    \/ \E k \in Key, D \in SUBSET File : InsertWithDeps(w, k, D)
    \/ \E k \in Key : Get(w, k)
    \/ \E F \in (SUBSET File) \ {{}} : InvalidateFiles(w, F)
    \/ \E S \in (SUBSET Key) \ {{}} : InvalidateWhere(w, S)
    \/ EvictExpired(w)
    \/ Clear(w)

Step(w) ==
    \/ \E f \in File : Associate(w, f)
    \/ InnerInsert(w)
    \/ Reap(w)
    \/ \E f \in File : Collect(w, f)
    \/ \E k \in Key : RemoveEntry(w, k)
    \/ StartUnlink(w)
    \/ \E k \in Key, f \in File : Unlink(w, k, f)
    \/ \E f \in File : Vacate(w, f)
    \/ Unlinked(w)
    \/ \E k \in Key : ClearEntry(w, k)
    \/ \E f \in File : ClearLinks(w, f)

Next ==
    \/ \E w \in Worker : Start(w) \/ Step(w)
    \/ \E k \in Key : Expire(k)

Spec == Init /\ [][Next]_vars

-----------------------------------------------------------------------------

\* Type invariant; the loops' local variables are empty outside their loops.
TypeOK ==
    /\ inner \in [Key -> Entry \cup {None}]
    /\ reverse_index \in [File -> (SUBSET Key) \cup {None}]
    /\ job \in [Worker -> Job]
    /\ \A w \in Worker :
          /\ job[w].key # None <=> job[w].do \in {"associate", "reap"}
          /\ job[w].files # {} => job[w].do \in {"associate", "collect", "unlink", "vacate"}
          /\ job[w].left # {} => job[w].do \in {"associate", "collect", "vacate", "clearLinks"}
          /\ job[w].keys # {} => job[w].do \in {"collect", "retain", "evict", "clear"}
          /\ job[w].links # {} => job[w].do \in {"collect", "retain", "evict", "unlink", "vacate"}
          /\ job[w].do = "vacate" => \E f \in File : job[w].left = {f}

\* Every entry can be found by each file it depends on (cache.rs:152-154).
IndexCoversCache ==
    \A k \in Key : inner[k] # None => \A f \in inner[k].dependent_files : k \in Linked(f)

\* When invalidate_files has removed what it collected, no entry that depends
\* on one of the files is left, whichever links earlier operations, lazy expiry
\* and re-insertion with other files have left behind.
InvalidationComplete ==
    \A w \in Worker : job[w].do \in {"unlink", "vacate"} /\ job[w].files # {} =>
        \A k \in Key : inner[k] # None => inner[k].dependent_files \cap job[w].files = {}

\* An emptied set never stays in the index (reverse_index.rs:57-61: the index
\* does not fill up with empty sets): whoever emptied it is about to remove it,
\* however the steps of several workers interleave.
EmptySetsAreVacated ==
    \A f \in File : reverse_index[f] = {} =>
        \E w \in Worker : job[w].do = "vacate" /\ f \in job[w].left

\* A file is removed from the index only if no key is left for it
\* (reverse_index.rs:60-61), or if everything is cleared.
VacatesOnlyEmptySets ==
    [][\A w \in Worker, f \in File :
          job[w].do = "vacate" /\ job'[w].do # "vacate" /\ f \in job[w].left
              => Linked(f) = {}]_vars

\* At rest the index has no link to a key that is not cached, or not cached
\* with that file (reverse_index.rs:57-59, cache.rs:165-174).
NoDanglingLinks ==
    (\A w \in Worker : job[w] = Idle) =>
        \A f \in File : \A k \in Linked(f) :
            inner[k] # None /\ f \in inner[k].dependent_files

=============================================================================

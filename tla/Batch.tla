------------------------------- MODULE Batch -------------------------------
(***************************************************************************)
(* handle_batch of cache-core/src/batch.rs: a tools/call with a list of    *)
(* names is cut into one CacheProxy::handle per name, at most Cap of them  *)
(* under way, and put together in the order of the names.  Of handle (see  *)
(* CacheProxy) only what a batch can tell apart is kept: it is refused     *)
(* when the scope is frozen at its start, else answered from the cache, or *)
(* by the backend some time later.  The window is that of the library's    *)
(* buffered(): the oldest sub-call not yet collected and the next Cap - 1. *)
(***************************************************************************)
EXTENDS Integers, Sequences, FiniteSets

CONSTANTS
    Client,     \* MCP clients, one tools/call at a time each
    Name,       \* names of functions, classes, objects
    NotString,  \* an element of the list that is not a string
    MaxLen,     \* bound on the length of a batch
    Cap         \* MAX_CONCURRENT_SUBCALLS

ASSUME BatchAssumption == Cap \in Nat \ {0} /\ MaxLen \in Nat /\ NotString \notin Name

VARIABLES
    isFrozen,   \* the freeze of the scope
    cache,      \* names with a live, clean entry
    items,      \* the list of names of each client's call
    sub,        \* its sub-calls, as far as buffered() has pulled them
    collected,  \* the results taken from buffered() so far
    reply,      \* how the call stands
    sawFrozen,  \* history: clients whose call has seen the scope frozen,
    sawThawed   \* and not frozen, since it came in

batchVars == <<isFrozen, cache, items, sub, collected, reply, sawFrozen, sawThawed>>

Lists == UNION {[1 .. n -> Name \cup {NotString}] : n \in 0 .. MaxLen}

Finished == {"ok", "error", "frozen", "notString"}
Replies == {"none", "pending", "results", "refused"}

BatchInit ==
    /\ isFrozen = FALSE
    /\ cache = {}
    /\ items = [c \in Client |-> <<>>]
    /\ sub = [c \in Client |-> <<>>]
    /\ collected = [c \in Client |-> <<>>]
    /\ reply = [c \in Client |-> "none"]
    /\ sawFrozen = {}
    /\ sawThawed = {}

\* A call comes in; an empty list is answered at once.
Receive(c) ==
    /\ reply[c] # "pending"
    /\ \E l \in Lists :
          /\ items' = [items EXCEPT ![c] = l]
          /\ reply' = [reply EXCEPT ![c] = IF l = <<>> THEN "results" ELSE "pending"]
    /\ sub' = [sub EXCEPT ![c] = <<>>]
    /\ collected' = [collected EXCEPT ![c] = <<>>]
    /\ sawFrozen' = IF isFrozen THEN sawFrozen \cup {c} ELSE sawFrozen \ {c}
    /\ sawThawed' = IF isFrozen THEN sawThawed \ {c} ELSE sawThawed \cup {c}
    /\ UNCHANGED <<isFrozen, cache>>

Begun(n) ==
    IF n = NotString THEN "notString"
    ELSE IF isFrozen THEN "frozen"
    ELSE IF n \in cache THEN "ok" ELSE "backend"

\* Slips: one sub-call too many; a window that does not move on.
PullOneMore(c) ==
    /\ reply[c] = "pending"
    /\ Len(sub[c]) < Len(items[c])
    /\ Len(sub[c]) - Len(collected[c]) <= Cap
    /\ sub' = [sub EXCEPT ![c] = Append(@, Begun(items[c][Len(@) + 1]))]
    /\ UNCHANGED <<isFrozen, cache, items, collected, reply, sawFrozen, sawThawed>>

PullOneWindow(c) ==
    /\ reply[c] = "pending"
    /\ Len(sub[c]) < Len(items[c])
    /\ Len(sub[c]) < Cap
    /\ sub' = [sub EXCEPT ![c] = Append(@, Begun(items[c][Len(@) + 1]))]
    /\ UNCHANGED <<isFrozen, cache, items, collected, reply, sawFrozen, sawThawed>>

\* buffered() pulls the next sub-call, which runs to its first await.
Pull(c) ==
    /\ reply[c] = "pending"
    /\ Len(sub[c]) < Len(items[c])
    /\ Len(sub[c]) - Len(collected[c]) < Cap
    /\ sub' = [sub EXCEPT ![c] = Append(@, Begun(items[c][Len(@) + 1]))]
    /\ UNCHANGED <<isFrozen, cache, items, collected, reply, sawFrozen, sawThawed>>

\* The backend answers a sub-call, which may put the answer into the cache (an
\* answer behind its dirty flags is not kept), or it fails.
Answer(c, i) ==
    /\ i \in 1 .. Len(sub[c]) /\ sub[c][i] = "backend"
    /\ \/ /\ sub' = [sub EXCEPT ![c][i] = "ok"]
          /\ cache' \in {cache, cache \cup {items[c][i]}}
       \/ /\ sub' = [sub EXCEPT ![c][i] = "error"]
          /\ UNCHANGED cache
    /\ UNCHANGED <<isFrozen, items, collected, reply, sawFrozen, sawThawed>>

\* Slip: buffer_unordered() yields whatever is finished.
CollectUnordered(c) ==
    /\ reply[c] = "pending"
    /\ \E i \in 1 .. Len(sub[c]) :
          /\ sub[c][i] \in Finished
          /\ <<i, sub[c][i]>> \notin {collected[c][j] : j \in 1 .. Len(collected[c])}
          /\ collected' = [collected EXCEPT ![c] = Append(@, <<i, sub[c][i]>>)]
    /\ UNCHANGED <<isFrozen, cache, items, sub, reply, sawFrozen, sawThawed>>

\* buffered() yields the result of the oldest sub-call once it is finished.
Collect(c) ==
    LET i == Len(collected[c]) + 1
    IN  /\ reply[c] = "pending"
        /\ i \in 1 .. Len(sub[c]) /\ sub[c][i] \in Finished
        /\ collected' = [collected EXCEPT ![c] = Append(@, <<i, sub[c][i]>>)]
        /\ UNCHANGED <<isFrozen, cache, items, sub, reply, sawFrozen, sawThawed>>

\* Slips: any failed element fails the batch; no element does.
RefusesOnError(c) == \E i \in 1 .. Len(collected[c]) : collected[c][i][2] \in {"frozen", "error"}
RefusesNever(c) == FALSE

\* `results.push(r?)`: the first Frozen makes the whole batch an error.
Refuses(c) == \E i \in 1 .. Len(collected[c]) : collected[c][i][2] = "frozen"

Reply(c) ==
    /\ reply[c] = "pending"
    /\ Len(collected[c]) = Len(items[c])
    /\ reply' = [reply EXCEPT ![c] = IF Refuses(c) THEN "refused" ELSE "results"]
    /\ UNCHANGED <<isFrozen, cache, items, sub, collected, sawFrozen, sawThawed>>

FreezeOrThaw ==
    /\ isFrozen' = ~ isFrozen
    /\ LET pending == {c \in Client : reply[c] = "pending"}
       IN  IF isFrozen
           THEN sawThawed' = sawThawed \cup pending /\ UNCHANGED sawFrozen
           ELSE sawFrozen' = sawFrozen \cup pending /\ UNCHANGED sawThawed
    /\ UNCHANGED <<cache, items, sub, collected, reply>>

\* Expiry, invalidation or a dirty flag.
Forget(n) ==
    /\ n \in cache
    /\ cache' = cache \ {n}
    /\ UNCHANGED <<isFrozen, items, sub, collected, reply, sawFrozen, sawThawed>>

BatchStep(c) ==
    \/ Pull(c)
    \/ \E i \in 1 .. MaxLen : Answer(c, i)
    \/ Collect(c)
    \/ Reply(c)

BatchNext ==
    \/ \E c \in Client : Receive(c) \/ BatchStep(c)
    \/ FreezeOrThaw
    \/ \E n \in Name : Forget(n)

BatchSpec == BatchInit /\ [][BatchNext]_batchVars

\* The runtime runs every ready task, and every sub-call ends (CacheProxy,
\* EveryRequestAnswered).
FairBatchSpec == BatchSpec /\ \A c \in Client : WF_batchVars(BatchStep(c))

-----------------------------------------------------------------------------

\* Type invariant.
BatchTypeOK ==
    /\ isFrozen \in BOOLEAN
    /\ cache \subseteq Name
    /\ items \in [Client -> Seq(Name \cup {NotString})]
    /\ sub \in [Client -> Seq(Finished \cup {"backend"})]
    /\ collected \in [Client -> Seq(Nat \X Finished)]
    /\ reply \in [Client -> Replies]
    /\ sawFrozen \subseteq Client /\ sawThawed \subseteq Client
    /\ \A c \in Client : Len(collected[c]) <= Len(sub[c]) /\ Len(sub[c]) <= Len(items[c])

\* The i-th result is that of the i-th name, whichever sub-call ended first and
\* however many names are equal (batch.rs:12).
ResultsInOrder ==
    \A c \in Client : \A i \in 1 .. Len(collected[c]) : collected[c][i] = <<i, sub[c][i]>>

\* A batch never has more than Cap sub-calls at the backend (batch.rs:40-42).
AtMostCap ==
    \A c \in Client :
        Cardinality({i \in 1 .. Len(sub[c]) : sub[c][i] = "backend"}) <= Cap

\* One failing element does not fail the batch: it is refused as a whole only
\* if the scope was frozen at some moment of it (batch.rs:60-63).
RefusedOnlyIfFrozen == \A c \in Client : reply[c] = "refused" => c \in sawFrozen

\* A batch that runs inside a freeze gets no answer, cached ones included
\* (proxy.rs:148-150), unless none of its elements is a name.
FreezeHolds ==
    \A c \in Client :
        reply[c] = "results" /\ c \notin sawThawed =>
            \A i \in 1 .. Len(items[c]) : items[c][i] = NotString

\* Every batch is answered: the window moves on although it waits for the
\* oldest sub-call.
EveryBatchAnswered == \A c \in Client : reply[c] = "pending" ~> reply[c] # "pending"

\* "All elements would have failed alike" (batch.rs:61-62): a batch that is
\* refused as a whole had nothing to answer.
AllElementsFailAlike ==
    \A c \in Client : reply[c] = "refused" =>
        \A i \in 1 .. Len(sub[c]) : sub[c][i] \in {"frozen", "notString"}

=============================================================================

-------------------------- MODULE FreezeController --------------------------
(***************************************************************************)
(* FreezeController of cache-core/src/freeze.rs under the handlers /freeze *)
(* and /thaw: each writer loads the shared snapshot, changes a copy and    *)
(* stores it back, without a lock around the two.  Calls that overlap can  *)
(* undo one another; `owed` says what the calls promise all the same.      *)
(***************************************************************************)
EXTENDS Integers

CONSTANTS
    Admin,      \* tasks that run the handlers, one call at a time each
    Scope,      \* scopes, repositories for cache-ci
    Global,     \* the scope "" that covers all
    MaxTime,    \* bound on the clock
    Nothing        \* absence of a value

Scopes == Scope \cup {Global}
Time == 0 .. MaxTime

\* A call's copy, with the scope and the end of freeze it changes, 0 for a thaw.
Copy == [map : [Scopes -> Time], scope : Scopes, end : Time]

ASSUME FreezeAssumption ==
    /\ MaxTime \in Nat \ {0}
    /\ Global \notin Scope
    /\ Nothing \notin Copy /\ Nothing \notin Time

VARIABLES
    now,        \* Instant::now(), from 1
    frozen,     \* the ArcSwap: scope -> until, 0 for a scope that is not in the map
    next,       \* the changed copy a writer is about to store, or Nothing
    owed,       \* history: the end of freeze that the calls to a scope have promised,
                \* 0 once it is thawed, Nothing where calls that overlap leave it open
    asked       \* history: the latest end of a freeze that was asked for

vars == <<now, frozen, next, owed, asked>>

Init ==
    /\ now = 1
    /\ frozen = [s \in Scopes |-> 0]
    /\ next = [a \in Admin |-> Nothing]
    /\ owed = [s \in Scopes |-> 0]
    /\ asked = [s \in Scopes |-> 0]

Later(t, u) == IF t > u THEN t ELSE u

\* The scope's freeze in a map, the later of two that are asked for.
Extended(map, s, t) == [map EXCEPT ![s] = Later(t, @)]

\* Slip: the last moment of a freeze counts once more.
FrozenToTheEnd(s) == frozen[Global] >= now \/ frozen[s] >= now

\* FreezeState::is_frozen: the global freeze, then the scope's own.
Frozen(s) == frozen[Global] > now \/ frozen[s] > now

Tick ==
    /\ now < MaxTime
    /\ now' = now + 1
    /\ UNCHANGED <<frozen, next, owed, asked>>

\* Slips: a scope that is frozen already stays as it is; the later call wins over
\* the later end; a thaw lifts the global freeze instead.
FreezeLoadKeeps(a, s) ==
    /\ next[a] = Nothing
    /\ \E t \in now .. MaxTime :
          /\ next' = [next EXCEPT ![a] =
                        [map |-> [frozen EXCEPT ![s] = IF @ = 0 THEN t ELSE @],
                         scope |-> s, end |-> t]]
          /\ asked' = Extended(asked, s, t)
    /\ UNCHANGED <<now, frozen, owed>>

FreezeLoadLast(a, s) ==
    /\ next[a] = Nothing
    /\ \E t \in now .. MaxTime :
          /\ next' = [next EXCEPT ![a] =
                        [map |-> [frozen EXCEPT ![s] = t], scope |-> s, end |-> t]]
          /\ asked' = Extended(asked, s, t)
    /\ UNCHANGED <<now, frozen, owed>>

ThawLoadGlobal(a, s) ==
    /\ next[a] = Nothing
    /\ frozen[s] # 0
    /\ next' = [next EXCEPT ![a] =
                  [map |-> [frozen EXCEPT ![Global] = 0], scope |-> s, end |-> 0]]
    /\ UNCHANGED <<now, frozen, owed, asked>>

\* freeze: new_until, the load, and the maximum in the copy.
FreezeLoad(a, s) ==
    /\ next[a] = Nothing
    /\ \E t \in now .. MaxTime :
          /\ next' = [next EXCEPT ![a] =
                        [map |-> Extended(frozen, s, t), scope |-> s, end |-> t]]
          /\ asked' = Extended(asked, s, t)
    /\ UNCHANGED <<now, frozen, owed>>

\* thaw: the load; a scope that is not in the map is left alone.
ThawLoad(a, s) ==
    /\ next[a] = Nothing
    /\ frozen[s] # 0
    /\ next' = [next EXCEPT ![a] =
                  [map |-> [frozen EXCEPT ![s] = 0], scope |-> s, end |-> 0]]
    /\ UNCHANGED <<now, frozen, owed, asked>>

\* No other call is between its load and its store.
Alone(a) == \A b \in Admin \ {a} : next[b] = Nothing

\* What a scope is owed after a call that freezes it until `end`, or thaws it (0).
\* The copy of a call beside it may undo the change, but it still has in it what
\* the scope was owed before, unless its own change is to this scope.
OwedAfter(old, end, alone) ==
    IF end = 0
    THEN IF alone \/ old = 0 THEN 0 ELSE Nothing
    ELSE IF alone THEN IF old = Nothing THEN end ELSE Later(end, old)
         ELSE IF old = 0 THEN Nothing ELSE old

\* store, at the end of either.
Store(a) ==
    /\ next[a] # Nothing
    /\ frozen' = next[a].map
    /\ owed' = [owed EXCEPT ![next[a].scope] = OwedAfter(@, next[a].end, Alone(a))]
    /\ next' = [next EXCEPT ![a] = Nothing]
    /\ UNCHANGED <<now, asked>>

\* thaw_all stores an empty map at once.
ThawAll(a) ==
    /\ next[a] = Nothing
    /\ frozen' = [s \in Scopes |-> 0]
    /\ owed' = [s \in Scopes |-> OwedAfter(owed[s], 0, Alone(a))]
    /\ UNCHANGED <<now, next, asked>>

Next ==
    \/ Tick
    \/ \E a \in Admin :
          \/ \E s \in Scopes : FreezeLoad(a, s) \/ ThawLoad(a, s)
          \/ Store(a)
          \/ ThawAll(a)

Spec == Init /\ [][Next]_vars

-----------------------------------------------------------------------------

\* Type invariant; a copy has in it the change its call was made for.
TypeOK ==
    /\ now \in Time \ {0}
    /\ frozen \in [Scopes -> Time]
    /\ next \in [Admin -> Copy \cup {Nothing}]
    /\ owed \in [Scopes -> Time \cup {Nothing}]
    /\ asked \in [Scopes -> Time]
    /\ \A a \in Admin : next[a] # Nothing =>
          IF next[a].end = 0 THEN next[a].map[next[a].scope] = 0
          ELSE next[a].map[next[a].scope] >= next[a].end

\* A freeze whose call returned while no other was under way lasts, however the calls
\* after it overlap: until its end the scope is refused, unless somebody thaws it
\* (freeze.rs:70-71).
FreezesLast ==
    \A s \in Scopes : owed[s] # Nothing => (owed[s] > now => Frozen(s))

\* A scope that was thawed while no other call was under way stays so until somebody
\* freezes it, however the calls after it overlap: a copy brings back no freeze that
\* was gone when it was made (freeze.rs:87).
ThawsHold == \A s \in Scopes : owed[s] = 0 => frozen[s] = 0

\* A scope is refused only while some freeze of it, or of all, was asked to last:
\* stale copies may bring a freeze back, but none outlives its end (freeze.rs:42-55).
EndsOnTime == \A s \in Scopes : Frozen(s) => asked[s] > now \/ asked[Global] > now

\* "If the scope has a later `until` already, it is kept: we take the max"
\* (freeze.rs:70-71): the store of a freeze never shortens the freeze of its scope.
FreezesNeverShorten ==
    [][\A a \in Admin :
          next[a] # Nothing /\ next'[a] = Nothing /\ next[a].end # 0 =>
              frozen'[next[a].scope] >= frozen[next[a].scope]]_vars

=============================================================================

---------------------------- MODULE SingleFlight ----------------------------
(***************************************************************************)
(* SingleFlight::do_or_join of cache-core/src/singleflight.rs: concurrent  *)
(* calls with the same key share one piece of work.                        *)
(*                                                                         *)
(* A call is split where another task can run: at the two accesses of the  *)
(* inflight map (the look-up and the entry().or_insert() are two separate  *)
(* lock sections), while the work is awaited, and between the broadcast    *)
(* and the removal of the key.  The work itself is external: Finish(c, o)  *)
(* is the moment its outcome o is determined; any delay of its delivery is *)
(* time spent in stage "publish".                                          *)
(***************************************************************************)

CONSTANTS
    Caller,       \* tasks that run do_or_join, one call at a time each
    Key,          \* cache keys
    Channel,      \* identities of the broadcast channels
    Outcome,      \* Outcome[k]: what the work of key k may return
    Failed,       \* the Err of the work, one text for all
    Closed,       \* the RecvError of a channel without senders
    None,         \* absence of a value
    Abandonable   \* callers whose future may be dropped, or panic, at an await

ASSUME SingleFlightAssumption ==
    /\ None \notin Key
    /\ None \notin Channel
    /\ \A k \in Key : None \notin Outcome[k] /\ Closed \notin Outcome[k]
    /\ Closed # None

VARIABLES
    stage,        \* where in do_or_join each caller is
    wants,        \* the key argument of the call
    inflight,     \* the map: key -> channel of the registered flight
    chan,         \* the Sender clone of a leader, the Receiver of a follower
    outcome       \* what the call has got so far

sfVars == <<stage, wants, inflight, chan, outcome>>

Stages == {"idle", "join", "elect", "lead", "publish", "release",
           "wait", "returned"}

Answers == (UNION {Outcome[k] : k \in Key}) \cup {Closed}

\* Callers that hold a Sender, and callers that hold a Receiver.
LeadStages == {"lead", "publish", "release"}
Leads(c) == stage[c] \in LeadStages
Waits(c) == stage[c] = "wait"

\* A channel nobody refers to stands for the next one to be allocated.
FreeChannels ==
    Channel \ ({inflight[k] : k \in Key} \cup {chan[c] : c \in Caller})

\* Slip: only the map holds a Sender, so a removed key closes the channel.
HasSenderInMap(ch) == \E k \in Key : inflight[k] = ch

\* recv() fails only once every Sender, the one in the map included, is gone.
HasSender(ch) ==
    \/ \E k \in Key : inflight[k] = ch
    \/ \E c \in Caller : Leads(c) /\ chan[c] = ch

-----------------------------------------------------------------------------

SFInit ==
    /\ stage = [c \in Caller |-> "idle"]
    /\ wants = [c \in Caller |-> None]
    /\ inflight = [k \in Key |-> None]
    /\ chan = [c \in Caller |-> None]
    /\ outcome = [c \in Caller |-> None]

\* The call begins.
Call(c, k) ==
    /\ stage[c] = "idle"
    /\ stage' = [stage EXCEPT ![c] = "join"]
    /\ wants' = [wants EXCEPT ![c] = k]
    /\ UNCHANGED <<inflight, chan, outcome>>

\* inflight.get(&key): subscribe to the registered flight, under the shard's
\* read lock, or go on to become a leader.
Join(c) ==
    /\ stage[c] = "join"
    /\ LET ch == inflight[wants[c]]
       IN  /\ stage' = [stage EXCEPT ![c] = IF ch = None THEN "elect" ELSE "wait"]
           /\ chan' = [chan EXCEPT ![c] = ch]
    /\ UNCHANGED <<wants, inflight, outcome>>

\* entry(key).or_insert(tx): a new channel, or the one that another caller has
\* registered since Join; either way the caller now runs the work itself.
Elect(c) ==
    /\ stage[c] = "elect"
    /\ \E ch \in IF inflight[wants[c]] = None
                 THEN FreeChannels ELSE {inflight[wants[c]]} :
           /\ inflight' = [inflight EXCEPT ![wants[c]] = ch]
           /\ chan' = [chan EXCEPT ![c] = ch]
    /\ stage' = [stage EXCEPT ![c] = "lead"]
    /\ UNCHANGED <<wants, outcome>>

\* The work yields o.
Finish(c, o) ==
    /\ stage[c] = "lead"
    /\ o \in Outcome[wants[c]]
    /\ stage' = [stage EXCEPT ![c] = "publish"]
    /\ outcome' = [outcome EXCEPT ![c] = o]
    /\ UNCHANGED <<wants, inflight, chan>>

\* leader_sender.send(result): every current subscriber of the channel gets it.
ServedOfAnyFlight(c, d) == Waits(d)    \* slip: one channel for all flights
Served(c, d) == Waits(d) /\ chan[d] = chan[c]

Publish(c) ==
    /\ stage[c] = "publish"
    /\ stage' = [d \in Caller |-> IF d = c THEN "release"
                                  ELSE IF Served(c, d) THEN "returned" ELSE stage[d]]
    /\ outcome' = [d \in Caller |-> IF Served(c, d) THEN outcome[c] ELSE outcome[d]]
    /\ chan' = [d \in Caller |-> IF Served(c, d) THEN None ELSE chan[d]]
    /\ UNCHANGED <<wants, inflight>>

\* Slip: the Sender outlives the call.
ReleaseKeepsSender(c) ==
    /\ stage[c] = "release"
    /\ inflight' = [inflight EXCEPT ![wants[c]] = None]
    /\ stage' = [stage EXCEPT ![c] = "returned"]
    /\ UNCHANGED <<wants, chan, outcome>>

\* drop(guard) removes whatever is registered under the key by now; returning
\* drops the caller's own Sender.
Release(c) ==
    /\ stage[c] = "release"
    /\ inflight' = [inflight EXCEPT ![wants[c]] = None]
    /\ stage' = [stage EXCEPT ![c] = "returned"]
    /\ chan' = [chan EXCEPT ![c] = None]
    /\ UNCHANGED <<wants, outcome>>

\* recv() of a follower whose channel has lost its last Sender.
RecvClosed(c) ==
    /\ Waits(c)
    /\ ~ HasSender(chan[c])
    /\ outcome' = [outcome EXCEPT ![c] = Closed]
    /\ stage' = [stage EXCEPT ![c] = "returned"]
    /\ chan' = [chan EXCEPT ![c] = None]
    /\ UNCHANGED <<wants, inflight>>

\* Slip: no guard, so an abandoned leader leaves its key registered.
AbandonWithoutGuard(c) ==
    /\ c \in Abandonable
    /\ stage[c] \in {"lead", "wait"}
    /\ stage' = [stage EXCEPT ![c] = "idle"]
    /\ wants' = [wants EXCEPT ![c] = None]
    /\ chan' = [chan EXCEPT ![c] = None]
    /\ UNCHANGED <<inflight, outcome>>

\* The future is dropped, or the work panics, at an await.  For a leader the
\* guard's Drop runs and removes the key; nothing is sent.
Abandon(c) ==
    /\ c \in Abandonable
    /\ stage[c] \in {"lead", "wait"}
    /\ inflight' = IF Leads(c) THEN [inflight EXCEPT ![wants[c]] = None] ELSE inflight
    /\ stage' = [stage EXCEPT ![c] = "idle"]
    /\ wants' = [wants EXCEPT ![c] = None]
    /\ chan' = [chan EXCEPT ![c] = None]
    /\ UNCHANGED outcome

\* The caller takes the result and may call again.
Return(c) ==
    /\ stage[c] = "returned"
    /\ stage' = [stage EXCEPT ![c] = "idle"]
    /\ wants' = [wants EXCEPT ![c] = None]
    /\ outcome' = [outcome EXCEPT ![c] = None]
    /\ UNCHANGED <<inflight, chan>>

\* What do_or_join does by itself, without waiting for the work.
FlightStep(c) ==
    \/ Join(c)
    \/ Elect(c)
    \/ Publish(c)
    \/ Release(c)
    \/ RecvClosed(c)

SFNext ==
    \E c \in Caller :
        \/ \E k \in Key : Call(c, k)
        \/ FlightStep(c)
        \/ \E o \in Answers : Finish(c, o)
        \/ Abandon(c)
        \/ Return(c)

SFSpec == SFInit /\ [][SFNext]_sfVars

\* The runtime schedules every ready task, and the work terminates.
SFFairSpec ==
    /\ SFSpec
    /\ \A c \in Caller : /\ WF_sfVars(FlightStep(c))
                         /\ WF_sfVars(\E o \in Answers : Finish(c, o))

\* The same without a promise that the work terminates: nothing in the code
\* bounds the time of a backend call.
SFNoTimeoutSpec == SFSpec /\ \A c \in Caller : WF_sfVars(FlightStep(c))

-----------------------------------------------------------------------------

\* Type invariant: the values every variable takes, and which of them are
\* present in which stage of do_or_join.
SFTypeOK ==
    /\ stage \in [Caller -> Stages]
    /\ wants \in [Caller -> Key \cup {None}]
    /\ inflight \in [Key -> Channel \cup {None}]
    /\ chan \in [Caller -> Channel \cup {None}]
    /\ outcome \in [Caller -> Answers \cup {None}]
    /\ \A c \in Caller :
          /\ (wants[c] = None) <=> (stage[c] = "idle")
          /\ (chan[c] = None) <=> ~ (Leads(c) \/ Waits(c))
          /\ (outcome[c] = None) <=>
                (stage[c] \in {"idle", "join", "elect", "lead", "wait"})

\* A key stays registered only while a caller is working for it that will
\* publish on that very channel and then remove the key; otherwise everybody
\* who joins later would wait for ever.  It has to survive two leaders of one
\* key, whose guards remove each other's registration, and abandoned calls.
RegisteredHasLeader ==
    \A k \in Key : inflight[k] # None =>
        \E c \in Caller : Leads(c) /\ wants[c] = k /\ chan[c] = inflight[k]

\* All parties of a channel want the same key, the one it is registered under.
KeyIsolation ==
    /\ \A k \in Key, c \in Caller :
          inflight[k] # None /\ chan[c] = inflight[k] => wants[c] = k
    /\ \A c, d \in Caller : chan[c] # None /\ chan[c] = chan[d] => wants[c] = wants[d]

\* A caller never gets the answer of another key, whichever leader published.
AnswersOwnKey ==
    \A c \in Caller : outcome[c] # None => outcome[c] \in Outcome[wants[c]] \cup {Closed}

\* Every call returns or is abandoned: no lost wake-up between the
\* subscription, the broadcast and the removal of the key.
EveryCallReturns ==
    \A c \in Caller : stage[c] = "join" ~> stage[c] \in {"returned", "idle"}

\* What the module comment promises (singleflight.rs:1): of the concurrent
\* calls of one key exactly one does the work.
SingleLeader ==
    \A c, d \in Caller : stage[c] = "lead" /\ stage[d] = "lead" /\ c # d
                            => wants[c] # wants[d]

\* What do_or_join promises (singleflight.rs:43-44): Err only if the first attempt
\* failed.  When no call is abandoned, nobody gets a closed channel while another call
\* of that key, under way at the same time, returns what the work has yielded.
NoSpuriousFailure ==
    Abandonable = {} =>
        \A c, d \in Caller :
            outcome[c] = Closed /\ wants[d] = wants[c] /\ outcome[d] # None
                => outcome[d] \in {Failed, Closed}

\* What a call is in terms of Flight, and whose answer a waiting one will get.
RoleAt == [idle |-> "out", join |-> "new", elect |-> "new", lead |-> "runs", publish |-> "answers",
           release |-> "shared", wait |-> "waits", returned |-> "done"]

LeadersOf(c) == {d \in Caller : Waits(c) /\ Leads(d) /\ chan[d] = chan[c]}

Promise == INSTANCE Flight WITH
             role <- [c \in Caller |-> RoleAt[stage[c]]], want <- wants, answer <- outcome,
             on <- [c \in Caller |-> LeadersOf(c)]

\* The steps of the map and the channels keep the promise of Flight: whoever waits
\* does so for a call of its key that is still there, gets the first answer that
\* one of those hands out, and learns of a failure only when all of them are gone
\* (singleflight.rs:36-46, 96-139).
ImplementsFlight == Promise!Spec

=============================================================================

------------------------------- MODULE Flight -------------------------------
(***************************************************************************)
(* What single-flight promises to the calls of do_or_join, without map and *)
(* channels (the doc comments of cache-core/src/singleflight.rs): a call   *)
(* either runs the work itself, or waits for calls of the same key that    *)
(* run it and have not returned.  The answer of a run is handed out at one *)
(* moment, before its own call returns, to exactly the calls that count on *)
(* it; the first answer ends a wait.  Only who has nobody left to count on *)
(* is told so.                                                             *)
(***************************************************************************)

CONSTANTS
    Caller, Key, Outcome, Closed, None, Abandonable     \* as in SingleFlight

VARIABLES
    role,       \* what part each call has
    want,       \* its key
    answer,     \* what it is going to return
    on          \* the running calls that a waiting one counts on

flightVars == <<role, want, answer, on>>

Roles == {"out", "new", "runs", "answers", "shared", "waits", "done"}

Running(k) == {c \in Caller : want[c] = k /\ role[c] \in {"runs", "answers", "shared"}}
Waiting(k) == {c \in Caller : want[c] = k /\ role[c] = "waits"}

Init ==
    /\ role = [c \in Caller |-> "out"]
    /\ want = [c \in Caller |-> None]
    /\ answer = [c \in Caller |-> None]
    /\ on = [c \in Caller |-> {}]

Turns(c, from, to) == role[c] = from /\ role' = [role EXCEPT ![c] = to]

\* Nobody counts on c any more.
Forsaken(c) == [d \in Caller |-> on[d] \ {c}]

Call(c, k) ==
    /\ Turns(c, "out", "new")
    /\ want' = [want EXCEPT ![c] = k]
    /\ UNCHANGED <<answer, on>>

\* Calls that wait already may come to count on a further run.
Run(c) ==
    /\ Turns(c, "new", "runs")
    /\ \E S \in SUBSET Waiting(want[c]) :
          on' = [d \in Caller |-> IF d \in S THEN on[d] \cup {c} ELSE on[d]]
    /\ UNCHANGED <<want, answer>>

Wait(c) ==
    /\ Turns(c, "new", "waits")
    /\ \E R \in SUBSET Running(want[c]) : R # {} /\ on' = [on EXCEPT ![c] = R]
    /\ UNCHANGED <<want, answer>>

Answer(c, o) ==
    /\ Turns(c, "runs", "answers")
    /\ answer' = [answer EXCEPT ![c] = o]
    /\ UNCHANGED <<want, on>>

Share(c) ==
    LET served == {d \in Caller : c \in on[d]}
    IN  /\ role[c] = "answers"
        /\ role' = [d \in Caller |-> IF d = c THEN "shared" ELSE IF d \in served THEN "done"
                                     ELSE role[d]]
        /\ answer' = [d \in Caller |-> IF d \in served THEN answer[c] ELSE answer[d]]
        /\ on' = [d \in Caller |-> IF d \in served THEN {} ELSE on[d]]
        /\ UNCHANGED want

Finish(c) ==
    /\ Turns(c, "shared", "done")
    /\ on' = Forsaken(c)
    /\ UNCHANGED <<want, answer>>

Lose(c) ==
    /\ Turns(c, "waits", "done")
    /\ on[c] = {}
    /\ answer' = [answer EXCEPT ![c] = Closed]
    /\ UNCHANGED <<want, on>>

\* The future of a call that runs the work or waits is dropped.
Leave(c) ==
    /\ c \in Abandonable
    /\ role[c] \in {"runs", "waits"}
    /\ role' = [role EXCEPT ![c] = "out"]
    /\ want' = [want EXCEPT ![c] = None]
    /\ on' = [Forsaken(c) EXCEPT ![c] = {}]
    /\ UNCHANGED answer

Return(c) ==
    /\ Turns(c, "done", "out")
    /\ want' = [want EXCEPT ![c] = None]
    /\ answer' = [answer EXCEPT ![c] = None]
    /\ UNCHANGED on

Next ==
    \E c \in Caller :
        \/ \E k \in Key : Call(c, k)
        \/ Run(c) \/ Wait(c)
        \/ \E k \in Key : want[c] = k /\ \E o \in Outcome[k] : Answer(c, o)
        \/ Share(c) \/ Finish(c) \/ Lose(c) \/ Leave(c) \/ Return(c)

Spec == Init /\ [][Next]_flightVars

=============================================================================

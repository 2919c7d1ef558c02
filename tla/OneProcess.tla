----------------------------- MODULE OneProcess -----------------------------
(***************************************************************************)
(* What the tasks of one process share besides the cache, its flags and    *)
(* its flights: the freeze under its handlers (FreezeController), the      *)
(* metrics (Metrics), and the batches (Batch, with the freeze of their     *)
(* scope).  None reads anything of the others, so each is looked at while  *)
(* the others rest in their initial states: side by side they do nothing   *)
(* that they do not do alone.                                              *)
(***************************************************************************)
EXTENDS FreezeController, Metrics, Batch

processVars == <<vars, metricsVars, batchVars>>

ProcessInit == Init /\ MetricsInit /\ BatchInit

Freezing(A) == A /\ MetricsInit /\ BatchInit /\ UNCHANGED <<metricsVars, batchVars>>
Measuring(A) == A /\ Init /\ BatchInit /\ UNCHANGED <<vars, batchVars>>
Batching(A) == A /\ Init /\ MetricsInit /\ UNCHANGED <<vars, metricsVars>>

ProcessNext == Freezing(Next) \/ Measuring(MetricsNext) \/ Batching(BatchNext)

\* The runtime runs every ready task, the timer of the eviction task ticks
\* (evict_interval_seconds is not 0), and every sub-call of a batch ends
\* (CacheProxy, EveryRequestAnswered).
ProcessSpec ==
    /\ ProcessInit /\ [][ProcessNext]_processVars
    /\ \A a \in Actor : WF_processVars(Measuring(Sizing(a)))
    /\ WF_processVars(Measuring(\E S \in SUBSET CacheKey : Evict(S)))
    /\ \A c \in Client : WF_processVars(Batching(BatchStep(c)))

-----------------------------------------------------------------------------

\* Type invariant, with what a task may hold between a load and its store.
ProcessTypeOK == TypeOK /\ MetricsTypeOK /\ BatchTypeOK

=============================================================================

--------------------------- MODULE MCSingleFlight ---------------------------
(* Instances of SingleFlight for TLC: the callers, keys and channels of the
   .cfg files, and an outcome set in which the success of one key cannot be
   taken for the success of another. *)
EXTENDS SingleFlight

KeyOutcome == [k \in Key |-> {<<"ok", k>>, Failed}]

=============================================================================
